-------------------------- MODULE ThreadPoolProofs --------------------------
(***************************************************************************)
(* Proofs about ThreadPool for every number of workers, callers and tasks. *)
(***************************************************************************)
EXTENDS ThreadPool, NatLemmas, SequenceTheorems, FiniteSetTheorems

\* The scan of ProcessDelayedTasks stops at the first task that is not due.
LEMMA DueByStops ==
    ASSUME delayed \in Seq(DelayedTask), NEW time \in Nat
    PROVE  /\ DueBy(time) \in 0..Len(delayed)
           /\ \A i \in 1..DueBy(time) : delayed[i].when <= time
           /\ DueBy(time) < Len(delayed) => delayed[DueBy(time) + 1].when > time
<1> DEFINE S == {n \in 0..Len(delayed) : n < Len(delayed) => delayed[n + 1].when > time}
<1>0. Len(delayed) \in Nat
  BY LenProperties
<1>1. Len(delayed) \in S /\ S \subseteq Nat
  BY <1>0
<1> HIDE DEF S
<1>2. PICK n \in S : \A m \in S : n <= m
  BY <1>1, LeastNat
<1> USE DEF S
<1>3. \A i \in 1..n : delayed[i].when <= time
  <2>1. SUFFICES ASSUME NEW i \in 1..n PROVE delayed[i].when <= time
    OBVIOUS
  <2>2. n \in 0..Len(delayed) /\ i - 1 \in 0..Len(delayed) /\ (i - 1) + 1 = i
        /\ ~ (n <= i - 1)
    BY <1>0, <1>2, <2>1
  <2>4. i - 1 \notin S
    BY <1>2, <2>2
  <2>3. delayed[i] \in DelayedTask
    BY <1>0, <1>2, <2>1, ElementOfSeq
  <2> QED
    BY <1>0, <2>2, <2>3, <2>4 DEF DelayedTask, Time
<1>4. \E k \in 0..Len(delayed) : /\ \A i \in 1..k : delayed[i].when <= time
                                 /\ k < Len(delayed) => delayed[k + 1].when > time
  BY <1>2, <1>3
<1> QED
  BY <1>4 DEF DueBy

\* The search of ScheduleAsync ends behind the tasks that are due sooner.
LEMMA InsertAtStops ==
    ASSUME delayed \in Seq(DelayedTask), NEW when \in Nat
    PROVE  LET at == InsertAt(when)
           IN  /\ at \in 1..Len(delayed) + 1
               /\ at = 1 => delayed = <<>> \/ when < delayed[1].when
               /\ at # 1 => /\ Len(delayed) >= 1 /\ delayed[1].when <= when
                            /\ \A j \in 2..at - 1 : delayed[j].when < when
                            /\ at <= Len(delayed) => delayed[at].when >= when
<1>1. CASE delayed = <<>> \/ when < delayed[1].when
  BY <1>1 DEF InsertAt
<1>2. CASE ~ (delayed = <<>> \/ when < delayed[1].when)
  <2> DEFINE S == {n \in 2..Len(delayed) + 1 :
                      n <= Len(delayed) => delayed[n].when >= when}
  <2>1. Len(delayed) \in Nat /\ Len(delayed) >= 1 /\ delayed[1] \in DelayedTask
    BY <1>2, EmptySeq, ElementOfSeq, LenProperties
  <2>2. Len(delayed) + 1 \in S /\ S \subseteq Nat
    BY <2>1
  <2> HIDE DEF S
  <2>3. PICK n \in S : \A m \in S : n <= m
    BY <2>2, LeastNat
  <2> USE DEF S
  <2>4. \A j \in 2..n - 1 : delayed[j].when < when
    <3>1. SUFFICES ASSUME NEW j \in 2..n - 1 PROVE delayed[j].when < when
      OBVIOUS
    <3>2. j \notin S /\ j \in 2..Len(delayed)
      BY <2>1, <2>3, <3>1
    <3>3. delayed[j] \in DelayedTask
      BY <3>2, ElementOfSeq
    <3> QED
      BY <3>2, <3>3 DEF DelayedTask, Time
  <2>5. \E i \in 2..Len(delayed) + 1 : /\ \A j \in 2..i - 1 : delayed[j].when < when
                                       /\ i <= Len(delayed) => delayed[i].when >= when
    BY <2>3, <2>4
  <2>6. /\ InsertAt(when) \in 2..Len(delayed) + 1
        /\ \A j \in 2..InsertAt(when) - 1 : delayed[j].when < when
        /\ InsertAt(when) <= Len(delayed) => delayed[InsertAt(when)].when >= when
    BY <1>2, <2>5 DEF InsertAt
  <2>7. delayed[1].when \in Nat
    BY <2>1 DEF DelayedTask, Time
  <2> QED
    BY <1>2, <2>1, <2>6, <2>7
<1> QED
  BY <1>1, <1>2

\* The list stays a list of delayed tasks when one is inserted.
LEMMA InsertDelayedType ==
    ASSUME delayed \in Seq(DelayedTask), NEW entry \in DelayedTask
    PROVE  /\ InsertDelayed(entry) \in Seq(DelayedTask)
           /\ InsertDelayed(entry) # <<>>
<1>1. /\ Len(delayed) \in Nat
      /\ \A i \in 1..Len(delayed) : delayed[i] \in DelayedTask
  BY LenProperties, ElementOfSeq
<1>2. InsertAt(entry.when) \in 1..Len(delayed) + 1
  BY InsertAtStops DEF DelayedTask, Time
<1>3. InsertDelayed(entry) \in [1..Len(delayed) + 1 -> DelayedTask]
  BY <1>1, <1>2 DEF InsertDelayed
<1>4. InsertDelayed(entry) \in Seq(DelayedTask)
  BY <1>1, <1>3, IsASeq
<1>5. Len(InsertDelayed(entry)) = Len(delayed) + 1
  BY <1>1, <1>3, <1>4, LenProperties
<1> QED
  BY <1>1, <1>4, <1>5

\* What MoveDue moves to the work queue is a sequence of tasks.
LEMMA MovedType ==
    ASSUME TypeOK
    PROVE  /\ DueCount \in Nat /\ DueCount <= Len(delayed)
           /\ [i \in 1..DueCount |-> delayed[DueCount + 1 - i].task] \in Seq(Work)
           /\ SubSeq(delayed, DueCount + 1, Len(delayed)) \in Seq(DelayedTask)
<1>1. /\ Len(delayed) \in Nat
      /\ \A i \in 1..Len(delayed) : delayed[i].task \in Work
  <2>1. /\ Len(delayed) \in Nat
        /\ \A i \in 1..Len(delayed) : delayed[i] \in DelayedTask
    BY LenProperties, ElementOfSeq DEF TypeOK
  <2> QED
    BY <2>1 DEF DelayedTask, Work
<1>2. DueCount \in 0..Len(delayed)
  BY DueByStops, PoolAssumption DEF DueCount, TypeOK, Time, PoolAssumption
<1>3. [i \in 1..DueCount |-> delayed[DueCount + 1 - i].task] \in [1..DueCount -> Work]
  BY <1>1, <1>2
<1>4. [i \in 1..DueCount |-> delayed[DueCount + 1 - i].task] \in Seq(Work)
  BY <1>2, <1>3, IsASeq
<1> QED
  BY <1>1, <1>2, <1>4, SubSeqProperties DEF TypeOK

\* A thread on its way into the pool carries a task and its time.
LEMMA CallType ==
    ASSUME TypeOK, NEW a \in Actors, call[a].at \in {"push", "schedule"}
    PROVE  call[a].task \in Tasks /\ call[a].when \in Time
<1>1. call[a] \in Calls
  BY DEF TypeOK
<1>2. call[a] \in [at : {"push", "schedule"}, task : Tasks, when : Time]
  BY <1>1 DEF Calls, NoCall
<1> QED
  BY <1>2

\* Leaving the critical section, a caller carries nothing.
LEMMA LeaveType ==
    ASSUME TypeOK, NEW a \in Actors,
           NEW at \in {"none", "notifyWork", "notifyDelayed"}, Leave(a, at)
    PROVE  call' \in [Actors -> Calls]
BY DEF TypeOK, Leave, Calls, NoCall

\* A notification moves a waiting worker to another place, or none.
LEMMA NotifyType ==
    ASSUME TypeOK, NEW where, NEW to \in RunThreadPcs \cup SchedulerPcs,
           NotifyOne(where, to) \/ NotifyAll(where, to)
    PROVE  pc' \in [Workers -> RunThreadPcs \cup SchedulerPcs]
BY DEF TypeOK, NotifyOne, NotifyAll, Waiting

\* Every step leaves every variable in its type.
LEMMA TypeStep == TypeOK /\ [Next]_vars => TypeOK'
<1> SUFFICES ASSUME TypeOK, [Next]_vars PROVE TypeOK'
  OBVIOUS
<1> USE PoolAssumption DEF PoolAssumption, closeVars, sleepVars
<1>1. ASSUME NEW a \in Actors, NEW t \in Tasks, Refuse(a, t) PROVE TypeOK'
  BY <1>1 DEF TypeOK, Refuse
<1>2. ASSUME NEW a \in Actors, NEW t \in Tasks, RunAsync(a, t) PROVE TypeOK'
  BY <1>2 DEF TypeOK, RunAsync, Enter, Calls
<1>3. ASSUME NEW a \in Actors, NEW t \in Tasks, ScheduleAsync(a, t) PROVE TypeOK'
  BY <1>3 DEF TypeOK, ScheduleAsync, Enter, Calls, Time
<1>4. ASSUME NEW a \in Actors, Push(a) PROVE TypeOK'
  BY <1>4 DEF TypeOK, Push, Leave, Calls, NoCall, Work
<1>5. ASSUME NEW a \in Actors, Schedule(a) PROVE TypeOK'
  <2> DEFINE entry == [when |-> call[a].when, task |-> call[a].task]
  <2>1. entry \in DelayedTask
    BY <1>5, CallType DEF Schedule, DelayedTask
  <2>2. delayed' \in Seq(DelayedTask)
    BY <1>5, <2>1, InsertDelayedType DEF TypeOK, Schedule
  <2>3. queue' \in Seq(Work)
    <3>1. <<Scheduler>> \in Seq(Work)
      BY DEF Work
    <3>2. <<Scheduler>> \o queue \in Seq(Work)
      BY <3>1, ConcatProperties DEF TypeOK
    <3>3. queue' = <<Scheduler>> \o queue \/ queue' = queue
      BY <1>5 DEF Schedule
    <3> QED
      BY <3>2, <3>3 DEF TypeOK
  <2>4. call' \in [Actors -> Calls]
    BY <1>5, LeaveType DEF Schedule
  <2> QED
    BY <1>5, <2>2, <2>3, <2>4 DEF TypeOK, Schedule
<1>6. ASSUME NEW a \in Actors, NotifyWork(a) PROVE TypeOK'
  BY <1>6, NotifyType DEF TypeOK, NotifyWork, Leave, Calls, NoCall, RunThreadPcs
<1>7. ASSUME NEW a \in Actors, NotifyDelayed(a) PROVE TypeOK'
  BY <1>7, NotifyType DEF TypeOK, NotifyDelayed, Leave, Calls, NoCall, SchedulerPcs
<1>8. ASSUME NEW w \in Workers, Poll(w) PROVE TypeOK'
  <2>1. queue # <<>> => Head(queue) \in Work /\ Tail(queue) \in Seq(Work)
    BY HeadTailProperties DEF TypeOK
  <2> QED
    BY ZenonT(30), <1>8, <2>1 DEF TypeOK, Poll, Goto, RunThreadPcs
<1>9. ASSUME NEW w \in Workers, CallTask(w) PROVE TypeOK'
  BY <1>9 DEF TypeOK, CallTask, Goto, RunThreadPcs, SchedulerPcs
<1>10. ASSUME NEW w \in Workers, SkipTask(w) PROVE TypeOK'
  BY <1>10 DEF TypeOK, SkipTask, Goto, RunThreadPcs
<1>11. ASSUME NEW w \in Workers, FinishTask(w) PROVE TypeOK'
  BY <1>11 DEF TypeOK, FinishTask, Goto, RunThreadPcs
<1>12. ASSUME NEW w \in Workers,
              \/ Again(w) \/ BeforeWait(w) \/ AfterWait(w) \/ Park(w)
              \/ SpuriousWakeup(w) \/ ScheduleLoop(w) \/ AfterMove(w) \/ Timeout(w)
       PROVE  TypeOK'
  BY <1>12 DEF TypeOK, Again, BeforeWait, AfterWait, Park, SpuriousWakeup, ScheduleLoop,
               AfterMove, Timeout, TestFlag, Goto, RunThreadPcs, SchedulerPcs
<1>13. ASSUME NEW w \in Workers, MoveDue(w) PROVE TypeOK'
  BY <1>13, MovedType, ConcatProperties DEF TypeOK, MoveDue, Goto, SchedulerPcs
<1>14. ASSUME NEW w \in Workers, NotifyReady(w) PROVE TypeOK'
  <2>1. pc' \in [Workers -> RunThreadPcs \cup SchedulerPcs]
    BY <1>14, NotifyType DEF TypeOK, NotifyReady, Goto, RunThreadPcs, SchedulerPcs
  <2>2. ready' \in [Workers -> Nat]
    <3>1. CASE ready[w] > 0 /\ ready' = [ready EXCEPT ![w] = @ - 1]
      BY <3>1 DEF TypeOK
    <3>2. CASE UNCHANGED ready
      BY <3>2 DEF TypeOK
    <3> QED
      BY <1>14, <3>1, <3>2 DEF NotifyReady
  <2> QED
    BY <1>14, <2>1, <2>2 DEF TypeOK, NotifyReady
<1>15. ASSUME NEW w \in Workers, WaitForNext(w) PROVE TypeOK'
  <2>1. delayed # <<>> => delayed[1] \in DelayedTask
    BY ElementOfSeq, EmptySeq, LenProperties DEF TypeOK
  <2> QED
    BY <1>15, <2>1 DEF TypeOK, WaitForNext, Goto, RunThreadPcs, SchedulerPcs, DelayedTask
<1>16. CASE Close
  <2>1. pc' \in [Workers -> RunThreadPcs \cup SchedulerPcs]
    BY <1>16, NotifyType DEF TypeOK, Close, SetFlag, NotifyAllDelayed, NotifyAllWork, Join,
                             RunThreadPcs, SchedulerPcs
  <2> QED
    <3>1. CASE SetFlag
      BY <2>1, <3>1 DEF TypeOK, SetFlag
    <3>2. CASE NotifyAllDelayed \/ NotifyAllWork \/ Join
      BY <2>1, <3>2 DEF TypeOK, NotifyAllDelayed, NotifyAllWork, Join
    <3> QED
      BY <1>16, <3>1, <3>2 DEF Close
<1>17. CASE Tick
  BY <1>17 DEF TypeOK, Tick, Time
<1>18. CASE UNCHANGED vars
  BY <1>18 DEF TypeOK, vars
<1> QED
  BY <1>1, <1>2, <1>3, <1>4, <1>5, <1>6, <1>7, <1>8, <1>9, <1>10, <1>11, <1>12, <1>13,
     <1>14, <1>15, <1>16, <1>17, <1>18
     DEF Next, Submit, Continue, Step

\* The pool starts well typed.
LEMMA InitType == Init => TypeOK
<1> SUFFICES ASSUME Init PROVE TypeOK
  OBVIOUS
<1>1. 0 \in Time /\ 0 \in 0..2 /\ NoCall \in Calls
  BY PoolAssumption DEF PoolAssumption, Time, Calls
<1>2. queue \in Seq(Work) /\ delayed \in Seq(DelayedTask)
  BY DEF Init
<1> QED
  BY <1>1, <1>2 DEF Init, TypeOK, RunThreadPcs

\* Every variable of the pool keeps its type in every behaviour: in particular
\* nReadyTasks never passes below zero and every wait has a finite end.
THEOREM TypeCorrect == Spec => []TypeOK
BY InitType, TypeStep, PTL DEF Spec

-----------------------------------------------------------------------------
(* pNext: a worker holds a task exactly between popping and calling it.     *)

Holding == \A w \in Workers : held[w] # None <=> pc[w] = "popped"

\* No step lets a worker forget the task it holds or hold one elsewhere.
LEMMA HoldingStep == TypeOK /\ Holding /\ [Next]_vars => Holding'
<1> SUFFICES ASSUME TypeOK, Holding, [Next]_vars PROVE Holding'
  OBVIOUS
<1> USE PoolAssumption DEF PoolAssumption, closeVars, sleepVars, Holding
<1>1. ASSUME UNCHANGED <<pc, held>> PROVE Holding'
  BY <1>1
<1>2. ASSUME NEW from \in {"parked", "sleeping"}, NEW to \in {"woken", "sLoop"},
             NotifyOne(from, to) \/ NotifyAll(from, to), UNCHANGED held
      PROVE  Holding'
  BY <1>2 DEF NotifyOne, NotifyAll, Waiting, TypeOK
<1>3. ASSUME NEW a \in Actors, Submit(a) \/ Continue(a) PROVE Holding'
  <2>1. CASE NotifyWork(a) \/ NotifyDelayed(a)
    BY <1>2, <2>1 DEF NotifyWork, NotifyDelayed
  <2>2. CASE ~ (NotifyWork(a) \/ NotifyDelayed(a))
    BY <1>1, <1>3, <2>2
       DEF Submit, Refuse, RunAsync, ScheduleAsync, Enter, Continue, Push, Schedule
  <2> QED
    BY <2>1, <2>2
<1>4. ASSUME NEW w \in Workers, Poll(w) PROVE Holding'
  <2>1. queue # <<>> => Head(queue) \in Work
    BY HeadTailProperties DEF TypeOK
  <2> QED
    BY <1>4, <2>1 DEF TypeOK, Poll, Goto, Work
<1>5. ASSUME NEW w \in Workers, CallTask(w) \/ SkipTask(w) PROVE Holding'
  BY <1>5 DEF TypeOK, CallTask, SkipTask, Goto
<1>6. ASSUME NEW w \in Workers, NotifyReady(w) PROVE Holding'
  <2>1. CASE NotifyOne("parked", "woken")
    BY <1>2, <1>6, <2>1 DEF NotifyReady
  <2>2. CASE Goto(w, "sSleep")
    BY <1>6, <2>2 DEF TypeOK, NotifyReady, Goto
  <2> QED
    BY <1>6, <2>1, <2>2 DEF NotifyReady
<1>7. ASSUME NEW w \in Workers,
             \/ FinishTask(w) \/ Again(w) \/ BeforeWait(w) \/ AfterWait(w) \/ Park(w)
             \/ SpuriousWakeup(w) \/ ScheduleLoop(w) \/ AfterMove(w) \/ Timeout(w)
             \/ MoveDue(w) \/ WaitForNext(w)
      PROVE  Holding'
  BY <1>7 DEF TypeOK, FinishTask, Again, BeforeWait, AfterWait, Park, SpuriousWakeup,
              ScheduleLoop, AfterMove, Timeout, TestFlag, Goto, MoveDue, WaitForNext
<1>8. CASE Close
  <2>1. CASE NotifyAllDelayed \/ NotifyAllWork
    BY <1>2, <2>1 DEF NotifyAllDelayed, NotifyAllWork
  <2>2. CASE SetFlag \/ Join
    BY <1>1, <2>2 DEF SetFlag, Join
  <2> QED
    BY <1>8, <2>1, <2>2 DEF Close
<1>9. CASE Tick \/ UNCHANGED vars
  BY <1>1, <1>9 DEF Tick, vars
<1> QED
  BY <1>3, <1>4, <1>5, <1>6, <1>7, <1>8, <1>9 DEF Next, Step

-----------------------------------------------------------------------------
(* A scheduler exists while there are delayed tasks.                        *)

SchedulerQueued == \E i \in 1..Len(queue) : queue[i] = Scheduler
SchedulerHeld == \E w \in Workers : held[w] = Scheduler
SchedulerRuns == \E w \in Workers : pc[w] \in SchedulerPcs

Present == delayed # <<>> /\ ~shutdown => SchedulerQueued \/ SchedulerHeld \/ SchedulerRuns

\* Present is SchedulerPresent without the sets.
LEMMA PresentIsSchedulerPresent == TypeOK => (Present <=> SchedulerPresent)
<1> SUFFICES ASSUME TypeOK PROVE Present <=> SchedulerPresent
  OBVIOUS
<1>1. DOMAIN queue = 1..Len(queue)
  BY LenProperties DEF TypeOK
<1> QED
  BY <1>1 DEF Present, SchedulerPresent, SchedulerQueued, SchedulerHeld, SchedulerRuns,
              QueuedAt, HeldBy, Scheduling

\* No step leaves a delayed task without a scheduler.
LEMMA PresentStep == TypeOK /\ Holding /\ Present /\ [Next]_vars => Present'
<1> SUFFICES ASSUME TypeOK, Holding, Present, [Next]_vars PROVE Present'
  OBVIOUS
<1> USE PoolAssumption DEF PoolAssumption, closeVars, sleepVars
<1>1. ASSUME UNCHANGED <<delayed, queue, held, pc>>, shutdown => shutdown' PROVE Present'
  BY <1>1 DEF Present, SchedulerQueued, SchedulerHeld, SchedulerRuns
<1>2. ASSUME NEW from, NEW to, <<from, to>> \in {<<"parked", "woken">>, <<"sleeping", "sLoop">>},
             NotifyOne(from, to) \/ NotifyAll(from, to),
             UNCHANGED <<delayed, queue, held, shutdown>>
      PROVE  Present'
  <2>1. SchedulerRuns => SchedulerRuns'
    BY <1>2 DEF SchedulerRuns, NotifyOne, NotifyAll, Waiting, SchedulerPcs, TypeOK
  <2> QED
    BY <1>2, <2>1 DEF Present, SchedulerQueued, SchedulerHeld
<1>3. ASSUME NEW a \in Actors, Submit(a) \/ Push(a) \/ Schedule(a) PROVE Present'
  <2>1. CASE Submit(a)
    BY <1>1, <2>1 DEF Submit, Refuse, RunAsync, ScheduleAsync, Enter
  <2>2. CASE Push(a)
    <3>1. Len(queue) \in Nat /\ call[a].task \in Tasks
      BY <2>2, CallType, LenProperties DEF Push, TypeOK
    <3>2. /\ Len(queue') = Len(queue) + 1
          /\ \A i \in 1..Len(queue) : queue'[i] = queue[i]
      BY <2>2, <3>1, AppendProperties DEF Push, TypeOK
    <3>3. SchedulerQueued => SchedulerQueued'
      BY <3>1, <3>2 DEF SchedulerQueued
    <3> QED
      BY <2>2, <3>3 DEF Push, Present, SchedulerHeld, SchedulerRuns
  <2>3. CASE Schedule(a) /\ delayed = <<>>
    <3>1. queue' = <<Scheduler>> \o queue /\ <<Scheduler>> \in Seq({Scheduler})
      BY <2>3 DEF Schedule
    <3>2. Len(queue') = Len(queue) + 1 /\ queue'[1] = Scheduler /\ Len(queue) \in Nat
      BY <3>1, ConcatProperties, LenProperties DEF TypeOK
    <3> QED
      BY <3>2 DEF Present, SchedulerQueued
  <2>4. CASE Schedule(a) /\ delayed # <<>>
    BY <2>4 DEF Schedule, Present, SchedulerQueued, SchedulerHeld, SchedulerRuns
  <2> QED
    BY <1>3, <2>1, <2>2, <2>3, <2>4
<1>4. ASSUME NEW a \in Actors, NotifyWork(a) \/ NotifyDelayed(a) PROVE Present'
  BY <1>2, <1>4 DEF NotifyWork, NotifyDelayed
<1>5. ASSUME NEW w \in Workers, Poll(w) PROVE Present'
  <2>1. SchedulerRuns => SchedulerRuns'
    BY <1>5 DEF Poll, Goto, SchedulerRuns, SchedulerPcs, TypeOK
  <2>2. SchedulerHeld => SchedulerHeld'
    BY <1>5 DEF Poll, Holding, SchedulerHeld, TypeOK
  <2>3. CASE queue = <<>>
    BY <1>5, <2>1, <2>2, <2>3 DEF Poll, Present, SchedulerQueued
  <2>4. CASE queue # <<>>
    <3>1. /\ Head(queue) = queue[1] /\ Len(queue) \in Nat
          /\ Len(Tail(queue)) = Len(queue) - 1
          /\ \A i \in 1..Len(queue) - 1 : Tail(queue)[i] = queue[i + 1]
      BY <2>4, HeadTailProperties, LenProperties DEF TypeOK
    <3>2. ASSUME NEW i \in 1..Len(queue), queue[i] = Scheduler
          PROVE  SchedulerQueued' \/ SchedulerHeld'
      <4>1. CASE i = 1
        <5>1. held'[w] = Scheduler
          BY <1>5, <2>4, <3>1, <3>2, <4>1 DEF Poll, TypeOK
        <5> QED
          BY <5>1 DEF SchedulerHeld
      <4>2. CASE i # 1
        <5>1. queue' = Tail(queue)
          BY <1>5, <2>4 DEF Poll
        <5>2. i - 1 \in 1..Len(queue') /\ queue'[i - 1] = Scheduler
          BY <3>1, <3>2, <4>2, <5>1
        <5> QED
          BY <5>2 DEF SchedulerQueued
      <4> QED
        BY <4>1, <4>2
    <3> QED
      BY <1>5, <2>1, <2>2, <3>2 DEF Poll, Present, SchedulerQueued
  <2> QED
    BY <2>3, <2>4
<1>6. ASSUME NEW w \in Workers, CallTask(w) PROVE Present'
  <2>1. SchedulerRuns => SchedulerRuns'
    BY <1>6 DEF CallTask, Goto, SchedulerRuns, SchedulerPcs, TypeOK
  <2>2. SchedulerHeld => SchedulerHeld' \/ SchedulerRuns'
    BY <1>6 DEF CallTask, Goto, SchedulerHeld, SchedulerRuns, SchedulerPcs, TypeOK
  <2> QED
    BY <1>6, <2>1, <2>2 DEF CallTask, Present, SchedulerQueued
<1>7. ASSUME NEW w \in Workers, SkipTask(w) PROVE Present'
  BY <1>7 DEF SkipTask, Present
<1>8. ASSUME NEW w \in Workers, MoveDue(w) PROVE Present'
  <2>1. pc'[w] = "sTest"
    BY <1>8 DEF MoveDue, Goto, TypeOK
  <2> QED
    BY <2>1 DEF Present, SchedulerRuns, SchedulerPcs
<1>9. ASSUME NEW w \in Workers, WaitForNext(w) PROVE Present'
  <2>1. delayed # <<>> => pc'[w] \in SchedulerPcs
    BY <1>9 DEF WaitForNext, Goto, TypeOK, SchedulerPcs
  <2> QED
    BY <1>9, <2>1 DEF WaitForNext, Present, SchedulerRuns
<1>10. ASSUME NEW w \in Workers, NotifyReady(w) PROVE Present'
  <2>1. CASE NotifyOne("parked", "woken")
    BY <1>2, <1>10, <2>1 DEF NotifyReady
  <2>2. CASE Goto(w, "sSleep")
    <3>1. pc'[w] \in SchedulerPcs
      BY <2>2 DEF Goto, TypeOK, SchedulerPcs
    <3> QED
      BY <3>1 DEF Present, SchedulerRuns
  <2> QED
    BY <1>10, <2>1, <2>2 DEF NotifyReady
<1>11. ASSUME NEW w \in Workers,
              \/ FinishTask(w) \/ Again(w) \/ BeforeWait(w) \/ AfterWait(w) \/ Park(w)
              \/ SpuriousWakeup(w) \/ ScheduleLoop(w) \/ AfterMove(w) \/ Timeout(w)
       PROVE  Present'
  <2>1. ~shutdown /\ SchedulerRuns => SchedulerRuns'
    BY <1>11 DEF FinishTask, Again, BeforeWait, AfterWait, Park, SpuriousWakeup,
                 ScheduleLoop, AfterMove, Timeout, TestFlag, Goto, SchedulerRuns,
                 SchedulerPcs, TypeOK
  <2>2. UNCHANGED <<delayed, queue, held, shutdown>>
    BY <1>11 DEF FinishTask, Again, BeforeWait, AfterWait, Park, SpuriousWakeup,
                 ScheduleLoop, AfterMove, Timeout, TestFlag
  <2> QED
    BY <2>1, <2>2 DEF Present, SchedulerQueued, SchedulerHeld
<1>12. CASE Close
  <2>1. CASE NotifyAllDelayed \/ NotifyAllWork
    BY <1>2, <2>1 DEF NotifyAllDelayed, NotifyAllWork
  <2>2. CASE SetFlag \/ Join
    BY <1>1, <2>2 DEF SetFlag, Join
  <2> QED
    BY <1>12, <2>1, <2>2 DEF Close
<1>13. CASE Tick \/ UNCHANGED vars
  BY <1>1, <1>13 DEF Tick, vars
<1> QED
  BY <1>3, <1>4, <1>5, <1>6, <1>7, <1>8, <1>9, <1>10, <1>11, <1>12, <1>13
     DEF Next, Step, Continue

\* While a task waits for its time there is a scheduler: the test of ScheduleAsync
\* for an empty list and the one that makes ProcessDelayedTasks return agree.
THEOREM SchedulerAlwaysPresent == Spec => []SchedulerPresent
<1>1. Init => TypeOK /\ Holding /\ Present
  <2>1. Init => Holding /\ Present
    BY DEF Init, Holding, Present
  <2> QED
    BY <2>1, InitType
<1>2. TypeOK /\ Holding /\ Present /\ [Next]_vars => TypeOK' /\ Holding' /\ Present'
  BY TypeStep, HoldingStep, PresentStep
<1>3. TypeOK /\ Present => SchedulerPresent
  BY PresentIsSchedulerPresent
<1> QED
  BY <1>1, <1>2, <1>3, PTL DEF Spec

-----------------------------------------------------------------------------
(* The list of delayed tasks stays sorted.                                  *)

\* Inserting where the search stops keeps the list sorted.
LEMMA InsertSorted ==
    ASSUME delayed \in Seq(DelayedTask), DelayedSorted, NEW entry \in DelayedTask
    PROVE  \A i, j \in 1..Len(InsertDelayed(entry)) :
               i < j => InsertDelayed(entry)[i].when <= InsertDelayed(entry)[j].when
<1> DEFINE at == InsertAt(entry.when)
           n == Len(delayed)
           new == InsertDelayed(entry)
<1>1. /\ n \in Nat
      /\ \A i \in 1..n : delayed[i].when \in Nat
      /\ entry.when \in Nat
  <2>1. n \in Nat /\ \A i \in 1..n : delayed[i] \in DelayedTask
    BY LenProperties, ElementOfSeq
  <2> QED
    BY <2>1 DEF DelayedTask, Time
<1>2. /\ at \in 1..n + 1
      /\ \A i \in 1..n : i < at => delayed[i].when <= entry.when
      /\ \A i \in 1..n : i >= at => entry.when <= delayed[i].when
  <2>1. /\ at \in 1..n + 1
        /\ at = 1 => delayed = <<>> \/ entry.when < delayed[1].when
        /\ at # 1 => /\ n >= 1 /\ delayed[1].when <= entry.when
                     /\ \A j \in 2..at - 1 : delayed[j].when < entry.when
                     /\ at <= n => delayed[at].when >= entry.when
    BY <1>1, InsertAtStops
  <2>2. \A i \in 1..n : i < at => delayed[i].when <= entry.when
    BY SMTT(30), <1>1, <2>1
  <2>3. ASSUME NEW i \in 1..n, i >= at PROVE entry.when <= delayed[i].when
    <3>1. at \in 1..n /\ entry.when <= delayed[at].when
      BY <1>1, <2>1, <2>3, EmptySeq
    <3>2. delayed[at].when <= delayed[i].when
      BY <1>1, <2>3, <3>1 DEF DelayedSorted
    <3> QED
      BY <1>1, <2>3, <3>1, <3>2
  <2> QED
    BY <2>1, <2>2, <2>3
<1>3. Len(new) = n + 1
  BY <1>1, InsertDelayedType, LenProperties DEF InsertDelayed
<1>4. \A i \in 1..n + 1 : new[i] = IF i < at THEN delayed[i]
                                   ELSE IF i = at THEN entry ELSE delayed[i - 1]
  BY DEF InsertDelayed
<1> SUFFICES ASSUME NEW i \in 1..n + 1, NEW j \in 1..n + 1, i < j
             PROVE  new[i].when <= new[j].when
  BY <1>3
<1> HIDE DEF at, n, new
<1>5. CASE j < at
  BY <1>1, <1>2, <1>4, <1>5 DEF DelayedSorted, n
<1>6. CASE j = at
  BY <1>1, <1>2, <1>4, <1>6
<1>7. CASE j > at /\ i < at
  <2>1. new[i] = delayed[i] /\ new[j] = delayed[j - 1] /\ i \in 1..n /\ j - 1 \in 1..n
    BY <1>1, <1>2, <1>4, <1>7
  <2> QED
    BY <1>1, <1>2, <1>7, <2>1
<1>8. CASE i = at
  <2>1. new[i] = entry /\ new[j] = delayed[j - 1] /\ j - 1 \in 1..n /\ j - 1 >= at
    BY <1>1, <1>2, <1>4, <1>8
  <2> QED
    BY <1>2, <2>1
<1>9. CASE i > at
  <2>1. /\ new[i] = delayed[i - 1] /\ new[j] = delayed[j - 1]
        /\ i - 1 \in 1..n /\ j - 1 \in 1..n /\ i - 1 < j - 1
    BY <1>1, <1>2, <1>4, <1>9
  <2> QED
    BY <2>1 DEF DelayedSorted, n
<1> QED
  BY <1>1, <1>2, <1>5, <1>6, <1>7, <1>8, <1>9

\* A suffix of the sorted list is sorted.
LEMMA SuffixSorted ==
    ASSUME delayed \in Seq(DelayedTask), DelayedSorted, NEW k \in 0..Len(delayed)
    PROVE  LET rest == SubSeq(delayed, k + 1, Len(delayed))
           IN  \A i, j \in 1..Len(rest) : i < j => rest[i].when <= rest[j].when
<1>1. Len(delayed) \in Nat
  BY LenProperties
<1>2. /\ Len(SubSeq(delayed, k + 1, Len(delayed))) = Len(delayed) - k
      /\ \A i \in 1..Len(delayed) - k : SubSeq(delayed, k + 1, Len(delayed))[i] = delayed[k + i]
  BY <1>1, SubSeqProperties
<1> QED
  BY <1>1, <1>2 DEF DelayedSorted

\* Only Schedule and MoveDue touch the list, and both keep it sorted.
LEMMA SortedStep == TypeOK /\ DelayedSorted /\ [Next]_vars => DelayedSorted'
<1> SUFFICES ASSUME TypeOK, DelayedSorted, [Next]_vars PROVE DelayedSorted'
  OBVIOUS
<1>1. CASE UNCHANGED delayed
  BY <1>1 DEF DelayedSorted
<1>2. CASE \E a \in Actors : Schedule(a)
  <2>1. PICK a \in Actors : Schedule(a)
    BY <1>2
  <2>2. [when |-> call[a].when, task |-> call[a].task] \in DelayedTask
    BY <2>1, CallType DEF Schedule, DelayedTask
  <2>3. delayed' = InsertDelayed([when |-> call[a].when, task |-> call[a].task])
    BY <2>1 DEF Schedule
  <2> QED
    BY <2>2, <2>3, InsertSorted DEF DelayedSorted, TypeOK
<1>3. CASE \E w \in Workers : MoveDue(w)
  <2>1. DueCount \in 0..Len(delayed)
    BY MovedType
  <2>2. delayed' = SubSeq(delayed, DueCount + 1, Len(delayed))
    BY <1>3 DEF MoveDue
  <2> QED
    BY <2>1, <2>2, SuffixSorted DEF DelayedSorted, TypeOK
<1>4. UNCHANGED delayed \/ (\E a \in Actors : Schedule(a)) \/ (\E w \in Workers : MoveDue(w))
  BY DEF Next, Submit, Refuse, RunAsync, ScheduleAsync, Enter, Continue, Push, NotifyWork,
         NotifyDelayed, Step, Poll, CallTask, SkipTask, FinishTask, Again, BeforeWait, Park,
         AfterWait, SpuriousWakeup, ScheduleLoop, AfterMove, TestFlag, NotifyReady,
         WaitForNext, Timeout, Close, SetFlag, NotifyAllDelayed, NotifyAllWork, Join, Tick,
         vars
<1> QED
  BY <1>1, <1>2, <1>3, <1>4

\* m_vDelayedTasks is always ordered by tWhen, so that looking at its first element
\* is enough to know what is due and how long to sleep.
THEOREM DelayedAlwaysSorted == Spec => []DelayedSorted
<1>1. Init => DelayedSorted
  BY DEF Init, DelayedSorted
<1> QED
  BY <1>1, InitType, TypeStep, SortedStep, PTL DEF Spec

-----------------------------------------------------------------------------
(* What the operations do to the two lists, element by element.             *)

\* RunAsync: push_back
LEMMA Pushed ==
    ASSUME TypeOK, NEW t, t \in Work, queue' = Append(queue, t)
    PROVE  /\ Len(queue) \in Nat /\ Len(queue') = Len(queue) + 1
           /\ \A i \in 1..Len(queue) : queue'[i] = queue[i]
           /\ queue'[Len(queue) + 1] = t
<1>1. Len(queue) \in Nat
  BY LenProperties DEF TypeOK
<1> QED
  BY <1>1, AppendProperties DEF TypeOK

\* ScheduleAsync: push_front of the scheduler
LEMMA PushedFront ==
    ASSUME TypeOK, queue' = <<Scheduler>> \o queue
    PROVE  /\ Len(queue) \in Nat /\ Len(queue') = Len(queue) + 1
           /\ queue'[1] = Scheduler
           /\ \A i \in 1..Len(queue) : queue'[i + 1] = queue[i]
<1>1. /\ Len(queue) \in Nat /\ queue \in Seq(Work) /\ <<Scheduler>> \in Seq(Work)
      /\ Len(<<Scheduler>>) = 1 /\ <<Scheduler>>[1] = Scheduler
  BY LenProperties DEF TypeOK, Work
<1>2. /\ Len(queue') = 1 + Len(queue)
      /\ \A i \in 1..1 + Len(queue) :
            queue'[i] = IF i <= 1 THEN <<Scheduler>>[i] ELSE queue[i - 1]
  BY <1>1, ConcatProperties
<1> QED
  BY <1>1, <1>2

\* RunThread: front and pop_front
LEMMA Popped ==
    ASSUME TypeOK, queue # <<>>, queue' = Tail(queue)
    PROVE  /\ Len(queue) \in Nat /\ Len(queue) >= 1 /\ Len(queue') = Len(queue) - 1
           /\ Head(queue) = queue[1] /\ Head(queue) \in Work
           /\ \A i \in 1..Len(queue) - 1 : queue'[i] = queue[i + 1]
<1>1. Len(queue) \in Nat /\ Len(queue) # 0
  BY LenProperties, EmptySeq DEF TypeOK
<1>2. Head(queue) = queue[1]
  BY DEF TypeOK
<1> QED
  BY <1>1, <1>2, HeadTailProperties DEF TypeOK

\* ScheduleAsync: insert
LEMMA Inserted ==
    ASSUME TypeOK, NEW entry \in DelayedTask, delayed' = InsertDelayed(entry)
    PROVE  \E at \in 1..Len(delayed) + 1 :
              /\ at = InsertAt(entry.when)
              /\ Len(delayed) \in Nat /\ Len(delayed') = Len(delayed) + 1
              /\ \A i \in 1..Len(delayed) + 1 :
                    delayed'[i] = IF i < at THEN delayed[i]
                                  ELSE IF i = at THEN entry ELSE delayed[i - 1]
<1>1. Len(delayed) \in Nat /\ InsertAt(entry.when) \in 1..Len(delayed) + 1
  BY LenProperties, InsertAtStops DEF TypeOK, DelayedTask, Time
<1>2. Len(delayed') = Len(delayed) + 1
  BY <1>1, InsertDelayedType, LenProperties DEF InsertDelayed, TypeOK
<1> QED
  BY <1>1, <1>2 DEF InsertDelayed

\* ProcessDelayedTasks: the tasks that are due leave the list for the queue.
LEMMA Moved ==
    ASSUME TypeOK, NEW w \in Workers, MoveDue(w)
    PROVE  \E n \in 0..Len(delayed) :
              /\ Len(delayed) \in Nat /\ Len(queue) \in Nat
              /\ \A i \in 1..n : delayed[i].when <= clock
              /\ Len(queue') = n + Len(queue)
              /\ \A i \in 1..n : queue'[i] = delayed[n + 1 - i].task
              /\ \A i \in 1..Len(queue) : queue'[n + i] = queue[i]
              /\ Len(delayed') = Len(delayed) - n
              /\ \A i \in 1..Len(delayed) - n : delayed'[i] = delayed[n + i]
<1> DEFINE n == DueCount
           moved == [i \in 1..n |-> delayed[n + 1 - i].task]
<1>1. /\ Len(delayed) \in Nat /\ Len(queue) \in Nat /\ queue \in Seq(Work)
      /\ \A i \in 1..Len(delayed) : delayed[i] \in DelayedTask
      /\ clock \in Nat
  BY LenProperties, ElementOfSeq, PoolAssumption DEF TypeOK, Time, PoolAssumption
<1>2. n \in 0..Len(delayed) /\ \A i \in 1..n : delayed[i].when <= clock
  BY <1>1, DueByStops DEF DueCount, TypeOK
<1>3. moved \in Seq(Work) /\ queue' = moved \o queue
      /\ delayed' = SubSeq(delayed, n + 1, Len(delayed))
  BY MovedType DEF MoveDue
<1> HIDE DEF n
<1>4. Len(moved) = n /\ \A i \in 1..n : moved[i] = delayed[n + 1 - i].task
  BY <1>2, <1>3, LenProperties
<1> HIDE DEF moved
<1>5. /\ Len(queue') = n + Len(queue)
      /\ \A i \in 1..n + Len(queue) :
            queue'[i] = IF i <= n THEN moved[i] ELSE queue[i - n]
  BY <1>1, <1>3, <1>4, ConcatProperties
<1>6. /\ \A i \in 1..n : queue'[i] = delayed[n + 1 - i].task
      /\ \A i \in 1..Len(queue) : queue'[n + i] = queue[i]
  BY <1>1, <1>2, <1>4, <1>5
<1>7. /\ Len(delayed') = Len(delayed) - n
      /\ \A i \in 1..Len(delayed) - n : delayed'[i] = delayed[n + i]
  <2>1. n + 1 \in Int /\ Len(delayed) \in Int
        /\ \A i \in n + 1..Len(delayed) : delayed[i] \in DelayedTask
    BY <1>1, <1>2
  <2>2. /\ Len(delayed') = IF n + 1 <= Len(delayed) THEN Len(delayed) - (n + 1) + 1 ELSE 0
        /\ \A i \in 1..Len(delayed) - (n + 1) + 1 : delayed'[i] = delayed[n + 1 + i - 1]
    BY <1>3, <2>1, SubSeqProperties
  <2> QED
    BY <1>1, <1>2, <2>2, SMTT(30)
<1> QED
  BY <1>1, <1>2, <1>5, <1>6, <1>7

-----------------------------------------------------------------------------
(* Each task that was accepted is in one place, and only there.             *)

InQueue(t) == \E i \in 1..Len(queue) : queue[i] = t
InDelayed(t) == \E i \in 1..Len(delayed) : delayed[i].task = t
InHeld(t) == \E w \in Workers : held[w] = t
InCall(t) == \E a \in Actors : call[a].task = t

\* Twice in no place,
Once ==
    /\ \A i, j \in 1..Len(queue) : queue[i] \in Tasks /\ queue[i] = queue[j] => i = j
    /\ \A i, j \in 1..Len(delayed) : delayed[i].task = delayed[j].task => i = j
    /\ \A w, v \in Workers : held[w] \in Tasks /\ held[w] = held[v] => w = v
    /\ \A a, b \in Actors : call[a].task \in Tasks /\ call[a].task = call[b].task => a = b

\* in no two places,
Apart(t) ==
    /\ InQueue(t) => ~InDelayed(t) /\ ~InHeld(t) /\ ~InCall(t)
    /\ InDelayed(t) => ~InHeld(t) /\ ~InCall(t)
    /\ InHeld(t) => ~InCall(t)

\* and somewhere exactly from its acceptance to its start.
Tracked(t) ==
    fate[t] = "accepted" <=> InQueue(t) \/ InDelayed(t) \/ InHeld(t) \/ InCall(t)

Placed == Once /\ \A t \in Tasks : Apart(t) /\ Tracked(t)

\* A call holds a task in its first section only.
LEMMA CallTasks ==
    ASSUME TypeOK, NEW a \in Actors
    PROVE  /\ call[a].task \in Tasks \cup {None}
           /\ call[a].task \in Tasks <=> call[a].at \in {"push", "schedule"}
           /\ call[a].at \in {"none", "push", "schedule", "notifyWork", "notifyDelayed"}
           /\ call[a].when \in Time
<1>1. call[a] \in Calls /\ None \notin Tasks /\ 0 \in Time
  BY PoolAssumption DEF TypeOK, PoolAssumption, Time
<1> QED
  BY <1>1 DEF Calls, NoCall

\* A task is copied from place to place, so it stays where it is for the rest.
LEMMA PlacedStays ==
    ASSUME Placed, UNCHANGED <<queue, delayed, held, fate>>,
           \A a \in Actors : call'[a].task = call[a].task
    PROVE  Placed'
BY DEF Placed, Once, Apart, Tracked, InQueue, InDelayed, InHeld, InCall

\* What a call leaves behind has no task.
LEMMA LeaveTasks ==
    ASSUME TypeOK, NEW a \in Actors, NEW at, Leave(a, at)
    PROVE  /\ call'[a].task = None
           /\ \A b \in Actors : b # a => call'[b] = call[b]
BY DEF Leave, TypeOK, NoCall

\* The calls lose the task that the operation took over, and no other.
LEMMA LeaveCalls ==
    ASSUME TypeOK, Once, NEW a \in Actors, NEW at, Leave(a, at), call[a].task \in Tasks
    PROVE  /\ \A t \in Tasks : InCall(t)' <=> InCall(t) /\ t # call[a].task
           /\ \A b, c \in Actors : call'[b].task \in Tasks /\ call'[b].task = call'[c].task
                                   => b = c
<1>1. None \notin Tasks
  BY PoolAssumption DEF PoolAssumption
<1>2. /\ call'[a].task = None
      /\ \A b \in Actors : b # a => call'[b] = call[b]
  BY LeaveTasks
<1>3. ASSUME NEW t \in Tasks PROVE InCall(t)' <=> InCall(t) /\ t # call[a].task
  <2>1. InCall(t)' => InCall(t) /\ t # call[a].task
    BY <1>1, <1>2 DEF InCall, Once
  <2>2. InCall(t) /\ t # call[a].task => InCall(t)'
    BY <1>2 DEF InCall
  <2> QED
    BY <2>1, <2>2
<1>4. ASSUME NEW b \in Actors, NEW c \in Actors, call'[b].task \in Tasks,
             call'[b].task = call'[c].task
      PROVE  b = c
  BY <1>1, <1>2, <1>4 DEF Once
<1> QED
  BY <1>3, <1>4

LEMMA EnterPlaced ==
    ASSUME TypeOK, Placed, NEW a \in Actors, NEW t \in Tasks, NEW at, NEW when,
           Enter(a, t, at, when)
    PROVE  Placed'
<1>1. /\ call[a] = NoCall /\ fate[t] = "new"
      /\ call' = [call EXCEPT ![a] = [at |-> at, task |-> t, when |-> when]]
      /\ fate' = [fate EXCEPT ![t] = "accepted"]
      /\ UNCHANGED <<queue, delayed, held>>
  BY DEF Enter, MayCall
<1>2. /\ call'[a].task = t /\ call[a].task = None
      /\ \A b \in Actors : b # a => call'[b] = call[b]
  BY <1>1 DEF TypeOK, NoCall
<1>3. None \notin Tasks
  BY PoolAssumption DEF PoolAssumption
<1>4. ~InQueue(t) /\ ~InDelayed(t) /\ ~InHeld(t) /\ ~InCall(t)
  BY <1>1 DEF Placed, Tracked
<1>5. /\ \A s \in Tasks : InCall(s)' <=> InCall(s) \/ s = t
      /\ \A s \in Tasks : /\ InQueue(s)' <=> InQueue(s)
                          /\ InDelayed(s)' <=> InDelayed(s)
                          /\ InHeld(s)' <=> InHeld(s)
  <2>1. ASSUME NEW s \in Tasks PROVE InCall(s)' <=> InCall(s) \/ s = t
    <3>1. InCall(s)' => InCall(s) \/ s = t
      BY <1>2 DEF InCall
    <3>2. InCall(s) \/ s = t => InCall(s)'
      BY <1>2, <1>3 DEF InCall
    <3> QED
      BY <3>1, <3>2
  <2> QED
    BY <1>1, <2>1 DEF InQueue, InDelayed, InHeld
<1>6. Once'
  <2>1. \A b, c \in Actors : call'[b].task \in Tasks /\ call'[b].task = call'[c].task => b = c
    BY <1>2, <1>4 DEF Placed, Once, InCall
  <2> QED
    BY <1>1, <2>1 DEF Placed, Once
<1>7. \A s \in Tasks : fate'[s] = IF s = t THEN "accepted" ELSE fate[s]
  BY <1>1 DEF TypeOK
<1> QED
  BY <1>4, <1>5, <1>6, <1>7 DEF Placed, Apart, Tracked

LEMMA PushPlaced ==
    ASSUME TypeOK, Placed, NEW a \in Actors, Push(a)
    PROVE  Placed'
<1> DEFINE t == call[a].task
<1>1. /\ t \in Tasks /\ Leave(a, "notifyWork") /\ queue' = Append(queue, t)
      /\ UNCHANGED <<delayed, held, fate>>
  BY CallTasks DEF Push
<1>2. /\ Len(queue) \in Nat /\ Len(queue') = Len(queue) + 1
      /\ \A i \in 1..Len(queue) : queue'[i] = queue[i]
      /\ queue'[Len(queue) + 1] = t
  BY <1>1, Pushed DEF Work
<1>3. InCall(t) /\ ~InQueue(t) /\ ~InDelayed(t) /\ ~InHeld(t) /\ fate[t] = "accepted"
  BY <1>1 DEF Placed, Apart, Tracked, InCall
<1> HIDE DEF t
<1>4. ASSUME NEW s \in Tasks PROVE InQueue(s)' <=> InQueue(s) \/ s = t
  <2>1. ASSUME NEW i \in 1..Len(queue'), queue'[i] = s PROVE InQueue(s) \/ s = t
    <3>1. CASE i \in 1..Len(queue)
      BY <1>2, <2>1, <3>1 DEF InQueue
    <3>2. CASE i = Len(queue) + 1
      BY <1>2, <2>1, <3>2
    <3> QED
      BY <1>2, <3>1, <3>2
  <2>2. ASSUME NEW i \in 1..Len(queue), queue[i] = s PROVE InQueue(s)'
    <3>1. i \in 1..Len(queue') /\ queue'[i] = s
      BY <1>2, <2>2
    <3> QED
      BY <3>1 DEF InQueue
  <2>3. s = t => InQueue(s)'
    <3>1. Len(queue) + 1 \in 1..Len(queue')
      BY <1>2
    <3> QED
      BY <1>2, <3>1 DEF InQueue
  <2> QED
    BY <2>1, <2>2, <2>3 DEF InQueue
<1>5. /\ \A s \in Tasks : InCall(s)' <=> InCall(s) /\ s # t
      /\ \A b, c \in Actors : call'[b].task \in Tasks /\ call'[b].task = call'[c].task => b = c
  BY <1>1, LeaveCalls DEF Placed, t
<1>6. \A s \in Tasks : (InDelayed(s)' <=> InDelayed(s)) /\ (InHeld(s)' <=> InHeld(s))
  BY <1>1 DEF InDelayed, InHeld
<1>7. ASSUME NEW i \in 1..Len(queue'), NEW j \in 1..Len(queue'), queue'[i] \in Tasks,
             queue'[i] = queue'[j]
      PROVE  i = j
  <2>1. \A k \in 1..Len(queue') : \/ k \in 1..Len(queue) /\ queue'[k] = queue[k]
                                  \/ k = Len(queue) + 1 /\ queue'[k] = t
    BY <1>2
  <2>2. \A k \in 1..Len(queue) : queue[k] # t
    BY <1>3 DEF InQueue
  <2> QED
    BY <1>7, <2>1, <2>2 DEF Placed, Once
<1>8. Once'
  BY <1>1, <1>5, <1>7 DEF Placed, Once
<1> QED
  BY <1>1, <1>3, <1>4, <1>5, <1>6, <1>8 DEF Placed, Apart, Tracked

LEMMA SchedulePlaced ==
    ASSUME TypeOK, Placed, NEW a \in Actors, Schedule(a)
    PROVE  Placed'
<1> DEFINE t == call[a].task
           entry == [when |-> call[a].when, task |-> t]
<1>1. /\ t \in Tasks /\ entry \in DelayedTask /\ delayed' = InsertDelayed(entry)
      /\ \E at : Leave(a, at)
      /\ queue' = queue \/ queue' = <<Scheduler>> \o queue
      /\ UNCHANGED <<held, fate>>
  BY CallTasks DEF Schedule, DelayedTask
<1>2. PICK at \in 1..Len(delayed) + 1 :
         /\ Len(delayed) \in Nat /\ Len(delayed') = Len(delayed) + 1
         /\ \A i \in 1..Len(delayed) + 1 :
               delayed'[i] = IF i < at THEN delayed[i]
                             ELSE IF i = at THEN entry ELSE delayed[i - 1]
  BY <1>1, Inserted
<1>3. InCall(t) /\ ~InQueue(t) /\ ~InDelayed(t) /\ ~InHeld(t) /\ fate[t] = "accepted"
  BY <1>1 DEF Placed, Apart, Tracked, InCall
<1>4. entry.task = t
  OBVIOUS
<1> HIDE DEF t, entry
<1>5. ASSUME NEW s \in Tasks PROVE InDelayed(s)' <=> InDelayed(s) \/ s = t
  <2>1. ASSUME NEW i \in 1..Len(delayed'), delayed'[i].task = s
        PROVE  InDelayed(s) \/ s = t
    <3>1. CASE i < at
      BY <1>2, <2>1, <3>1 DEF InDelayed
    <3>2. CASE i = at
      BY <1>2, <1>4, <2>1, <3>2
    <3>3. CASE i > at
      <4>1. i - 1 \in 1..Len(delayed) /\ delayed[i - 1].task = s
        BY <1>2, <2>1, <3>3
      <4> QED
        BY <4>1 DEF InDelayed
    <3> QED
      BY <1>2, <3>1, <3>2, <3>3
  <2>2. ASSUME NEW i \in 1..Len(delayed), delayed[i].task = s PROVE InDelayed(s)'
    <3>1. CASE i < at
      <4>1. i \in 1..Len(delayed') /\ delayed'[i].task = s
        BY <1>2, <2>2, <3>1
      <4> QED
        BY <4>1 DEF InDelayed
    <3>2. CASE i >= at
      <4>1. i + 1 \in 1..Len(delayed') /\ delayed'[i + 1] = delayed[i]
        BY <1>2, <2>2, <3>2
      <4> QED
        BY <2>2, <4>1 DEF InDelayed
    <3> QED
      BY <1>2, <3>1, <3>2
  <2>3. s = t => InDelayed(s)'
    <3>1. at \in 1..Len(delayed') /\ delayed'[at].task = t
      BY <1>2, <1>4
    <3> QED
      BY <3>1 DEF InDelayed
  <2> QED
    BY <2>1, <2>2, <2>3 DEF InDelayed
<1>6. /\ \A s \in Tasks : InCall(s)' <=> InCall(s) /\ s # t
      /\ \A b, c \in Actors : call'[b].task \in Tasks /\ call'[b].task = call'[c].task => b = c
  BY <1>1, LeaveCalls DEF Placed, t
<1>7. /\ \A s \in Tasks : InQueue(s)' <=> InQueue(s)
      /\ \A i, j \in 1..Len(queue') : queue'[i] \in Tasks /\ queue'[i] = queue'[j] => i = j
  <2>1. CASE queue' = queue
    BY <2>1 DEF InQueue, Placed, Once
  <2>2. CASE queue' = <<Scheduler>> \o queue
    <3>1. /\ Len(queue) \in Nat /\ Len(queue') = Len(queue) + 1
          /\ queue'[1] = Scheduler /\ Scheduler \notin Tasks
          /\ \A i \in 1..Len(queue) : queue'[i + 1] = queue[i]
      BY <2>2, PushedFront, PoolAssumption DEF PoolAssumption
    <3>2. \A i \in 1..Len(queue') : queue'[i] \in Tasks =>
             i - 1 \in 1..Len(queue) /\ queue'[i] = queue[i - 1]
      <4>1. ASSUME NEW i \in 1..Len(queue'), queue'[i] \in Tasks
            PROVE  i - 1 \in 1..Len(queue) /\ queue'[i] = queue[i - 1]
        <5>1. i # 1
          BY <3>1, <4>1
        <5>2. i - 1 \in 1..Len(queue) /\ (i - 1) + 1 = i
          BY <3>1, <5>1
        <5> QED
          BY <3>1, <5>2
      <4> QED
        BY <4>1
    <3>3. ASSUME NEW s \in Tasks PROVE InQueue(s)' <=> InQueue(s)
      <4>1. InQueue(s)' => InQueue(s)
        BY <3>2 DEF InQueue
      <4>2. InQueue(s) => InQueue(s)'
        <5>1. \A i \in 1..Len(queue) : i + 1 \in 1..Len(queue')
          BY <3>1
        <5> QED
          BY <3>1, <5>1 DEF InQueue
      <4> QED
        BY <4>1, <4>2
    <3>4. ASSUME NEW i \in 1..Len(queue'), NEW j \in 1..Len(queue'),
                 queue'[i] \in Tasks, queue'[i] = queue'[j]
          PROVE  i = j
      <4>1. i - 1 = j - 1
        BY <3>2, <3>4 DEF Placed, Once
      <4> QED
        BY <4>1
    <3> QED
      BY <3>3, <3>4
  <2> QED
    BY <1>1, <2>1, <2>2
<1>8. ASSUME NEW i \in 1..Len(delayed'), NEW j \in 1..Len(delayed'),
             delayed'[i].task = delayed'[j].task
      PROVE  i = j
  <2> DEFINE back(k) == IF k < at THEN k ELSE k - 1
  <2>1. \A k \in 1..Len(delayed') :
           k # at => back(k) \in 1..Len(delayed) /\ delayed'[k] = delayed[back(k)]
    BY <1>2
  <2>2. delayed'[at].task = t /\ \A k \in 1..Len(delayed) : delayed[k].task # t
    BY <1>2, <1>3, <1>4 DEF InDelayed
  <2>3. CASE i = at \/ j = at
    BY <1>8, <2>1, <2>2, <2>3
  <2>4. CASE i # at /\ j # at
    <3>1. back(i) = back(j)
      BY <1>8, <2>1, <2>4, ZenonT(40) DEF Placed, Once
    <3> QED
      BY <1>2, <2>4, <3>1
  <2> QED
    BY <2>3, <2>4
<1>9. Once' /\ \A s \in Tasks : InHeld(s)' <=> InHeld(s)
  BY <1>1, <1>6, <1>7, <1>8 DEF Placed, Once, InHeld
<1> QED
  BY <1>1, <1>3, <1>5, <1>6, <1>7, <1>9 DEF Placed, Apart, Tracked

LEMMA PollPlaced ==
    ASSUME TypeOK, Holding, Placed, NEW w \in Workers, Poll(w)
    PROVE  Placed'
<1>1. CASE queue = <<>>
  BY <1>1, PlacedStays DEF Poll
<1>2. CASE queue # <<>>
  <2> DEFINE t == Head(queue)
  <2>1. /\ queue' = Tail(queue) /\ held' = [held EXCEPT ![w] = t] /\ held[w] = None
        /\ UNCHANGED <<delayed, call, fate>>
    BY <1>2 DEF Poll, Holding
  <2>2. /\ Len(queue) \in Nat /\ Len(queue) >= 1 /\ Len(queue') = Len(queue) - 1
        /\ t = queue[1] /\ t \in Work
        /\ \A i \in 1..Len(queue) - 1 : queue'[i] = queue[i + 1]
    BY <1>2, <2>1, Popped
  <2>3. Scheduler \notin Tasks /\ None \notin Tasks
    BY PoolAssumption DEF PoolAssumption
  <2>4. /\ held'[w] = t
        /\ \A v \in Workers : v # w => held'[v] = held[v]
    BY <2>1 DEF TypeOK
  <2> HIDE DEF t
  <2>5. t \in Tasks => InQueue(t) /\ ~InDelayed(t) /\ ~InHeld(t) /\ ~InCall(t)
    <3>1. InQueue(t)
      BY <2>2 DEF InQueue
    <3> QED
      BY <3>1 DEF Placed, Apart
  <2>6. ASSUME NEW s \in Tasks PROVE InQueue(s)' <=> InQueue(s) /\ s # t
    <3>1. ASSUME NEW i \in 1..Len(queue'), queue'[i] = s PROVE InQueue(s) /\ s # t
      <4>1. i + 1 \in 1..Len(queue) /\ queue[i + 1] = s /\ i + 1 # 1 /\ 1 \in 1..Len(queue)
        BY <2>2, <3>1
      <4> QED
        BY <2>2, <4>1 DEF Placed, Once, InQueue
    <3>2. ASSUME NEW i \in 1..Len(queue), queue[i] = s, s # t PROVE InQueue(s)'
      <4>1. i # 1
        BY <2>2, <3>2
      <4>2. i - 1 \in 1..Len(queue') /\ i - 1 \in 1..Len(queue) - 1 /\ (i - 1) + 1 = i
        BY <2>2, <4>1
      <4>3. queue'[i - 1] = s
        BY <2>2, <3>2, <4>2
      <4> QED
        BY <4>2, <4>3 DEF InQueue
    <3> QED
      BY <3>1, <3>2 DEF InQueue
  <2>7. ASSUME NEW s \in Tasks PROVE InHeld(s)' <=> InHeld(s) \/ s = t
    <3>1. InHeld(s)' => InHeld(s) \/ s = t
      BY <2>4 DEF InHeld
    <3>2. InHeld(s) \/ s = t => InHeld(s)'
      BY <2>1, <2>3, <2>4 DEF InHeld
    <3> QED
      BY <3>1, <3>2
  <2>8. ASSUME NEW i \in 1..Len(queue'), NEW j \in 1..Len(queue'), queue'[i] \in Tasks,
               queue'[i] = queue'[j]
        PROVE  i = j
    <3>1. /\ i + 1 \in 1..Len(queue) /\ j + 1 \in 1..Len(queue)
          /\ queue'[i] = queue[i + 1] /\ queue'[j] = queue[j + 1]
      BY <2>2
    <3>2. i + 1 = j + 1
      BY <2>8, <3>1 DEF Placed, Once
    <3> QED
      BY <3>2
  <2>9. ASSUME NEW u \in Workers, NEW v \in Workers, held'[u] \in Tasks, held'[u] = held'[v]
        PROVE  u = v
    BY <2>4, <2>5, <2>9 DEF Placed, Once, InHeld
  <2>10. Once' /\ \A s \in Tasks : (InDelayed(s)' <=> InDelayed(s)) /\ (InCall(s)' <=> InCall(s))
    BY <2>1, <2>8, <2>9 DEF Placed, Once, InDelayed, InCall
  <2> QED
    BY <2>1, <2>5, <2>6, <2>7, <2>10 DEF Placed, Apart, Tracked
<1> QED
  BY <1>1, <1>2

\* CallTask and SkipTask take the task from the worker.
LEMMA LetGo ==
    ASSUME TypeOK, Placed, NEW w \in Workers, held' = [held EXCEPT ![w] = None],
           UNCHANGED <<queue, delayed, call>>,
           \A s \in Tasks : IF s = held[w] THEN fate'[s] # "accepted" ELSE fate'[s] = fate[s]
    PROVE  Placed'
<1>1. None \notin Tasks
  BY PoolAssumption DEF PoolAssumption
<1>2. held'[w] = None /\ \A v \in Workers : v # w => held'[v] = held[v]
  BY DEF TypeOK
<1>3. ASSUME NEW s \in Tasks PROVE InHeld(s)' <=> InHeld(s) /\ s # held[w]
  <2>1. InHeld(s)' => InHeld(s) /\ s # held[w]
    BY <1>1, <1>2 DEF InHeld, Placed, Once
  <2>2. InHeld(s) /\ s # held[w] => InHeld(s)'
    BY <1>2 DEF InHeld
  <2> QED
    BY <2>1, <2>2
<1>4. held[w] \in Tasks => InHeld(held[w])
  BY DEF InHeld
<1>5. Once'
  BY <1>1, <1>2 DEF Placed, Once
<1>6. \A s \in Tasks : /\ InQueue(s)' <=> InQueue(s)
                       /\ InDelayed(s)' <=> InDelayed(s)
                       /\ InCall(s)' <=> InCall(s)
  BY DEF InQueue, InDelayed, InCall
<1> QED
  BY <1>3, <1>4, <1>5, <1>6 DEF Placed, Apart, Tracked

LEMMA MovePlaced ==
    ASSUME TypeOK, Placed, NEW w \in Workers, MoveDue(w)
    PROVE  Placed'
<1>1. PICK n \in 0..Len(delayed) :
         /\ Len(delayed) \in Nat /\ Len(queue) \in Nat
         /\ Len(queue') = n + Len(queue)
         /\ \A i \in 1..n : queue'[i] = delayed[n + 1 - i].task
         /\ \A i \in 1..Len(queue) : queue'[n + i] = queue[i]
         /\ Len(delayed') = Len(delayed) - n
         /\ \A i \in 1..Len(delayed) - n : delayed'[i] = delayed[n + i]
  BY Moved
<1>2. UNCHANGED <<held, call, fate>>
  BY DEF MoveDue
<1> DEFINE Taken(t) == \E i \in 1..n : delayed[i].task = t
<1>3. ASSUME NEW i \in 1..Len(queue')
      PROVE  \/ i \in 1..n /\ n + 1 - i \in 1..n /\ n + 1 - i \in 1..Len(delayed)
                /\ queue'[i] = delayed[n + 1 - i].task
             \/ i > n /\ i - n \in 1..Len(queue) /\ queue'[i] = queue[i - n]
  <2>1. CASE i <= n
    BY <1>1, <2>1
  <2>2. CASE i > n
    <3>1. i - n \in 1..Len(queue) /\ n + (i - n) = i
      BY <1>1, <2>2
    <3> QED
      BY <1>1, <2>2, <3>1
  <2> QED
    BY <1>1, <2>1, <2>2
<1>4. ASSUME NEW i \in 1..Len(delayed')
      PROVE  n + i \in 1..Len(delayed) /\ n + i \notin 1..n /\ delayed'[i] = delayed[n + i]
  BY <1>1
<1>5. ASSUME NEW t \in Tasks PROVE InQueue(t)' <=> InQueue(t) \/ Taken(t)
  <2>1. InQueue(t)' => InQueue(t) \/ Taken(t)
    <3>1. ASSUME NEW i \in 1..Len(queue'), queue'[i] = t PROVE InQueue(t) \/ Taken(t)
      BY <1>3, <3>1 DEF InQueue
    <3> QED
      BY <3>1 DEF InQueue
  <2>2. InQueue(t) => InQueue(t)'
    <3>1. ASSUME NEW i \in 1..Len(queue), queue[i] = t PROVE InQueue(t)'
      <4>1. n + i \in 1..Len(queue') /\ queue'[n + i] = t
        BY <1>1, <3>1
      <4> QED
        BY <4>1 DEF InQueue
    <3> QED
      BY <3>1 DEF InQueue
  <2>3. Taken(t) => InQueue(t)'
    <3>1. ASSUME NEW i \in 1..n, delayed[i].task = t PROVE InQueue(t)'
      <4>1. /\ n + 1 - i \in 1..n /\ n + 1 - i \in 1..Len(queue') /\ n + 1 - (n + 1 - i) = i
        BY <1>1
      <4>2. queue'[n + 1 - i] = t
        BY <1>1, <3>1, <4>1
      <4> QED
        BY <4>1, <4>2 DEF InQueue
    <3> QED
      BY <3>1
  <2> QED
    BY <2>1, <2>2, <2>3
<1>6. ASSUME NEW t \in Tasks PROVE InDelayed(t)' <=> InDelayed(t) /\ ~Taken(t)
  <2>1. ASSUME NEW i \in 1..Len(delayed'), delayed'[i].task = t
        PROVE  InDelayed(t) /\ ~Taken(t)
    <3>1. n + i \in 1..Len(delayed) /\ n + i \notin 1..n /\ delayed[n + i].task = t
      BY <1>4, <2>1
    <3>2. \A j \in 1..n : j \in 1..Len(delayed)
      BY <1>1
    <3> QED
      BY <3>1, <3>2 DEF InDelayed, Placed, Once
  <2>2. ASSUME NEW i \in 1..Len(delayed), delayed[i].task = t, ~Taken(t) PROVE InDelayed(t)'
    <3>1. i \notin 1..n
      BY <2>2
    <3>2. i - n \in 1..Len(delayed') /\ i - n \in 1..Len(delayed) - n /\ n + (i - n) = i
      BY <1>1, <3>1
    <3>3. delayed'[i - n].task = t
      BY <1>1, <2>2, <3>2
    <3> QED
      BY <3>2, <3>3 DEF InDelayed
  <2> QED
    BY <2>1, <2>2 DEF InDelayed
<1>7. \A t \in Tasks : Taken(t) => InDelayed(t)
  <2>1. \A i \in 1..n : i \in 1..Len(delayed)
    BY <1>1
  <2> QED
    BY <2>1 DEF InDelayed
<1>8. ASSUME NEW i \in 1..Len(queue'), NEW j \in 1..Len(queue'), queue'[i] \in Tasks,
             queue'[i] = queue'[j]
      PROVE  i = j
  <2>1. CASE i <= n /\ j <= n
    <3>1. /\ n + 1 - i \in 1..Len(delayed) /\ n + 1 - j \in 1..Len(delayed)
          /\ delayed[n + 1 - i].task = delayed[n + 1 - j].task
      BY <1>3, <1>8, <2>1
    <3>2. n + 1 - i = n + 1 - j
      BY <3>1 DEF Placed, Once
    <3> QED
      BY <1>1, <3>2
  <2>2. CASE i > n /\ j > n
    <3>1. /\ i - n \in 1..Len(queue) /\ j - n \in 1..Len(queue)
          /\ queue[i - n] = queue[j - n] /\ queue[i - n] \in Tasks
      BY <1>1, <1>3, <1>8, <2>2
    <3>2. i - n = j - n
      BY <3>1 DEF Placed, Once
    <3> QED
      BY <1>1, <3>2
  <2>3. \A k, l \in 1..Len(queue') : k <= n /\ l > n /\ queue'[k] \in Tasks => queue'[k] # queue'[l]
    <3>1. ASSUME NEW k \in 1..Len(queue'), NEW l \in 1..Len(queue'), k <= n, l > n,
                 queue'[k] \in Tasks, queue'[k] = queue'[l]
          PROVE  FALSE
      <4>1. InDelayed(queue'[k])
        <5>1. n + 1 - k \in 1..Len(delayed) /\ queue'[k] = delayed[n + 1 - k].task
          BY <1>1, <1>3, <3>1
        <5> QED
          BY <5>1 DEF InDelayed
      <4>2. InQueue(queue'[k])
        <5>1. l - n \in 1..Len(queue) /\ queue'[l] = queue[l - n]
          BY <1>1, <1>3, <3>1, SMTT(30)
        <5> QED
          BY <3>1, <5>1 DEF InQueue
      <4> QED
        BY <3>1, <4>1, <4>2 DEF Placed, Apart
    <3> QED
      BY <3>1
  <2> QED
    BY <1>1, <1>8, <2>1, <2>2, <2>3
<1>9. ASSUME NEW i \in 1..Len(delayed'), NEW j \in 1..Len(delayed'),
             delayed'[i].task = delayed'[j].task
      PROVE  i = j
  <2>1. n + i = n + j
    BY <1>4, <1>9 DEF Placed, Once
  <2> QED
    BY <1>1, <2>1
<1>10. Once' /\ \A t \in Tasks : (InHeld(t)' <=> InHeld(t)) /\ (InCall(t)' <=> InCall(t))
  BY <1>2, <1>8, <1>9 DEF Placed, Once, InHeld, InCall
<1> HIDE DEF Taken
<1> QED
  BY <1>2, <1>5, <1>6, <1>7, <1>10 DEF Placed, Apart, Tracked

\* Every step keeps every task in its place, or takes it on to the next.
LEMMA PlacedStep == TypeOK /\ Holding /\ Placed /\ [Next]_vars => Placed'
<1> SUFFICES ASSUME TypeOK, Holding, Placed, [Next]_vars PROVE Placed'
  OBVIOUS
<1>1. ASSUME NEW a \in Actors, NEW t \in Tasks, Refuse(a, t) PROVE Placed'
  <2>1. /\ fate[t] = "new" /\ fate' = [fate EXCEPT ![t] = "refused"]
        /\ UNCHANGED <<queue, delayed, held, call>>
    BY <1>1 DEF Refuse
  <2>2. \A s \in Tasks : fate'[s] = "accepted" <=> fate[s] = "accepted"
    BY <2>1 DEF TypeOK
  <2> QED
    BY <2>1, <2>2 DEF Placed, Once, Apart, Tracked, InQueue, InDelayed, InHeld, InCall
<1>2. ASSUME NEW a \in Actors, NEW t \in Tasks, RunAsync(a, t) \/ ScheduleAsync(a, t)
      PROVE  Placed'
  BY <1>2, EnterPlaced DEF RunAsync, ScheduleAsync
<1>3. ASSUME NEW a \in Actors, Push(a) \/ Schedule(a) PROVE Placed'
  BY <1>3, PushPlaced, SchedulePlaced
<1>4. ASSUME NEW a \in Actors, NotifyWork(a) \/ NotifyDelayed(a) PROVE Placed'
  <2>1. call[a].task = None /\ UNCHANGED <<queue, delayed, held, fate>> /\ Leave(a, "none")
    BY <1>4, CallTasks DEF NotifyWork, NotifyDelayed
  <2>2. \A b \in Actors : call'[b].task = call[b].task
    BY <2>1, LeaveTasks
  <2> QED
    BY <2>1, <2>2, PlacedStays
<1>5. ASSUME NEW w \in Workers, Poll(w) \/ MoveDue(w) PROVE Placed'
  BY <1>5, PollPlaced, MovePlaced
<1>6. ASSUME NEW w \in Workers, CallTask(w) PROVE Placed'
  <2>1. held[w] # None /\ Scheduler \notin Tasks
    BY <1>6, PoolAssumption DEF CallTask, Holding, PoolAssumption
  <2>2. \A s \in Tasks : IF s = held[w] THEN fate'[s] # "accepted" ELSE fate'[s] = fate[s]
    BY <1>6, <2>1 DEF CallTask, TypeOK
  <2> QED
    BY <1>6, <2>2, LetGo DEF CallTask
<1>7. ASSUME NEW w \in Workers, SkipTask(w) PROVE Placed'
  <2>1. \A s \in Tasks : IF s = held[w] THEN fate'[s] # "accepted" ELSE fate'[s] = fate[s]
    BY <1>7 DEF SkipTask
  <2> QED
    BY <1>7, <2>1, LetGo DEF SkipTask
<1>8. ASSUME NEW w \in Workers,
             \/ FinishTask(w) \/ Again(w) \/ BeforeWait(w) \/ AfterWait(w) \/ Park(w)
             \/ SpuriousWakeup(w) \/ ScheduleLoop(w) \/ AfterMove(w) \/ Timeout(w)
             \/ NotifyReady(w) \/ WaitForNext(w)
      PROVE  Placed'
  BY <1>8, PlacedStays DEF FinishTask, Again, BeforeWait, AfterWait, Park, SpuriousWakeup,
          ScheduleLoop, AfterMove, Timeout, TestFlag, NotifyReady, WaitForNext
<1>9. CASE Close \/ Tick \/ UNCHANGED vars
  BY <1>9, PlacedStays DEF Close, SetFlag, NotifyAllDelayed, NotifyAllWork, Join, Tick, vars
<1> QED
  BY <1>1, <1>2, <1>3, <1>4, <1>5, <1>6, <1>7, <1>8, <1>9 DEF Next, Submit, Continue, Step

\* The pool starts without tasks.
LEMMA InitPlaced == Init => Holding /\ Placed
<1> SUFFICES ASSUME Init PROVE Holding /\ Placed
  OBVIOUS
<1>1. Len(queue) = 0 /\ Len(delayed) = 0
  BY EmptySeq DEF Init
<1>2. \A t \in Tasks : ~InQueue(t) /\ ~InDelayed(t) /\ ~InHeld(t) /\ ~InCall(t)
                       /\ fate[t] = "new"
  BY <1>1, PoolAssumption
     DEF Init, InQueue, InDelayed, InHeld, InCall, NoCall, PoolAssumption
<1>3. Once
  BY <1>1, PoolAssumption DEF Init, Once, NoCall, PoolAssumption
<1> QED
  BY <1>2, <1>3 DEF Init, Holding, Placed, Apart, Tracked

\* A set has one element or none if it has no two.
LEMMA AtMostOne ==
    ASSUME NEW S, \A x, y \in S : x = y
    PROVE  Cardinality(S) = IF S = {} THEN 0 ELSE 1
<1>1. CASE S = {}
  BY <1>1, FS_EmptySet
<1>2. CASE S # {}
  <2>1. PICK x : S = {x}
    BY <1>2
  <2> QED
    BY <1>2, <2>1, FS_Singleton
<1> QED
  BY <1>1, <1>2

\* Placed is Custody without the cardinalities.
LEMMA PlacedIsCustody == TypeOK /\ Placed => Custody
<1> SUFFICES ASSUME TypeOK, Placed, NEW t \in Tasks
             PROVE  Copies(t) = (IF fate[t] = "accepted" THEN 1 ELSE 0)
  BY DEF Custody
<1>1. DOMAIN queue = 1..Len(queue) /\ DOMAIN delayed = 1..Len(delayed)
  BY LenProperties DEF TypeOK
<1>2. Cardinality(QueuedAt(t)) = IF InQueue(t) THEN 1 ELSE 0
  <2>1. \A x, y \in QueuedAt(t) : x = y
    BY <1>1 DEF QueuedAt, Placed, Once
  <2>2. QueuedAt(t) = {} <=> ~InQueue(t)
    BY <1>1 DEF QueuedAt, InQueue
  <2> QED
    BY <2>1, <2>2, AtMostOne
<1>3. Cardinality(DelayedAt(t)) = IF InDelayed(t) THEN 1 ELSE 0
  <2>1. \A x, y \in DelayedAt(t) : x = y
    BY <1>1 DEF DelayedAt, Placed, Once
  <2>2. DelayedAt(t) = {} <=> ~InDelayed(t)
    BY <1>1 DEF DelayedAt, InDelayed
  <2> QED
    BY <2>1, <2>2, AtMostOne
<1>4. Cardinality(HeldBy(t)) = IF InHeld(t) THEN 1 ELSE 0
  <2>1. \A x, y \in HeldBy(t) : x = y
    BY DEF HeldBy, Placed, Once
  <2>2. HeldBy(t) = {} <=> ~InHeld(t)
    BY DEF HeldBy, InHeld
  <2> QED
    BY <2>1, <2>2, AtMostOne
<1>5. Cardinality(SubmittedBy(t)) = IF InCall(t) THEN 1 ELSE 0
  <2>1. \A x, y \in SubmittedBy(t) : x = y
    BY DEF SubmittedBy, Placed, Once
  <2>2. SubmittedBy(t) = {} <=> ~InCall(t)
    BY DEF SubmittedBy, InCall
  <2> QED
    BY <2>1, <2>2, AtMostOne
<1>6. Apart(t) /\ Tracked(t)
  BY DEF Placed
<1> QED
  BY <1>2, <1>3, <1>4, <1>5, <1>6 DEF Copies, Apart, Tracked

-----------------------------------------------------------------------------
(* No task gets ahead of its time.                                          *)

\* The time that a caller was promised travels with the task until it is due.
Timed ==
    /\ \A i \in 1..Len(queue) : queue[i] \in Tasks => due[queue[i]] <= clock
    /\ \A i \in 1..Len(delayed) : due[delayed[i].task] = delayed[i].when
    /\ \A w \in Workers : held[w] \in Tasks => due[held[w]] <= clock
    /\ \A a \in Actors : /\ call[a].at = "push" => due[call[a].task] <= clock
                         /\ call[a].at = "schedule" => due[call[a].task] = call[a].when
    /\ \A t \in Tasks : fate[t] = "started" => due[t] <= clock

\* Time passes, and what was due stays due.
LEMMA TimedStays ==
    ASSUME TypeOK, Timed, UNCHANGED <<queue, delayed, held, due>>,
           clock' = clock \/ clock' = clock + 1,
           \A t \in Tasks : fate'[t] = "started" => fate[t] = "started",
           \A a \in Actors : call'[a] = call[a] \/ call'[a].at \notin {"push", "schedule"}
    PROVE  Timed'
<1>1. /\ \A t \in Tasks : due[t] <= clock => due'[t] <= clock'
      /\ \A a \in Actors : call[a].at = "push" => call[a].task \in Tasks
  <2>1. clock \in Nat /\ \A t \in Tasks : due[t] \in Nat
    BY PoolAssumption DEF TypeOK, Time, PoolAssumption
  <2> QED
    BY <2>1, CallTasks
<1> QED
  BY <1>1 DEF Timed

\* A task that is new is nowhere, so that no place has a time for it.
LEMMA EnterTimed ==
    ASSUME TypeOK, Placed, Timed, NEW a \in Actors, NEW t \in Tasks,
           RunAsync(a, t) \/ ScheduleAsync(a, t)
    PROVE  Timed'
<1>1. PICK at, when : /\ at \in {"push", "schedule"} /\ Enter(a, t, at, when)
                      /\ at = "push" => when = clock
  BY DEF RunAsync, ScheduleAsync
<1>2. /\ call[a] = NoCall /\ fate[t] = "new"
      /\ call' = [call EXCEPT ![a] = [at |-> at, task |-> t, when |-> when]]
      /\ fate' = [fate EXCEPT ![t] = "accepted"]
      /\ due' = [due EXCEPT ![t] = when]
      /\ UNCHANGED <<queue, delayed, held, clock>>
  BY <1>1 DEF Enter, MayCall
<1>3. ~InQueue(t) /\ ~InDelayed(t) /\ ~InHeld(t) /\ ~InCall(t)
  BY <1>2 DEF Placed, Tracked
<1>4. /\ due'[t] = when /\ \A s \in Tasks : s # t => due'[s] = due[s]
      /\ \A s \in Tasks : fate'[s] = "started" => fate[s] = "started" /\ s # t
      /\ call'[a] = [at |-> at, task |-> t, when |-> when]
      /\ \A b \in Actors : b # a => call'[b] = call[b]
  BY <1>2 DEF TypeOK
<1>5. \A i \in 1..Len(delayed) : delayed[i].task \in Tasks
  <2>1. \A i \in 1..Len(delayed) : delayed[i] \in DelayedTask
    BY ElementOfSeq DEF TypeOK
  <2> QED
    BY <2>1 DEF DelayedTask
<1>6. \A s \in Tasks : s # t => ((due'[s] <= clock') <=> (due[s] <= clock))
  BY <1>2, <1>4
<1>7. ASSUME NEW b \in Actors
      PROVE  /\ call'[b].at = "push" => due'[call'[b].task] <= clock'
             /\ call'[b].at = "schedule" => due'[call'[b].task] = call'[b].when
  <2>1. CASE b = a
    <3>1. clock \in Nat
      BY PoolAssumption DEF TypeOK, Time, PoolAssumption
    <3> QED
      BY <1>1, <1>2, <1>4, <2>1, <3>1
  <2>2. CASE b # a
    <3>1. call[b].at \in {"push", "schedule"} => call[b].task \in Tasks /\ call[b].task # t
      BY <1>3, CallTasks DEF InCall
    <3> QED
      BY <1>4, <1>6, <2>2, <3>1 DEF Timed
  <2> QED
    BY <2>1, <2>2
<1>8. /\ \A i \in 1..Len(queue) : queue[i] # t
      /\ \A i \in 1..Len(delayed) : delayed[i].task # t
      /\ \A w \in Workers : held[w] # t
  BY <1>3 DEF InQueue, InDelayed, InHeld
<1>9. /\ \A i \in 1..Len(queue') : queue'[i] \in Tasks => due'[queue'[i]] <= clock'
      /\ \A i \in 1..Len(delayed') : due'[delayed'[i].task] = delayed'[i].when
      /\ \A w \in Workers : held'[w] \in Tasks => due'[held'[w]] <= clock'
      /\ \A s \in Tasks : fate'[s] = "started" => due'[s] <= clock'
  BY <1>2, <1>4, <1>5, <1>6, <1>8 DEF Timed
<1> QED
  BY <1>7, <1>9 DEF Timed

LEMMA PushTimed ==
    ASSUME TypeOK, Timed, NEW a \in Actors, Push(a)
    PROVE  Timed'
<1>1. /\ call[a].task \in Tasks /\ due[call[a].task] <= clock
      /\ UNCHANGED <<delayed, clock, held, fate, due>>
      /\ Leave(a, "notifyWork") /\ queue' = Append(queue, call[a].task)
  BY CallTasks DEF Push, Timed
<1>2. /\ Len(queue) \in Nat /\ Len(queue') = Len(queue) + 1
      /\ \A i \in 1..Len(queue) : queue'[i] = queue[i]
      /\ queue'[Len(queue) + 1] = call[a].task
  BY <1>1, Pushed DEF Work
<1>3. \A t \in Tasks : (due'[t] <= clock') <=> (due[t] <= clock)
  BY <1>1
<1>4. \A b \in Actors : call'[b] = call[b] \/ call'[b].at \notin {"push", "schedule"}
  BY <1>1 DEF Leave, TypeOK, NoCall
<1>5. \A i \in 1..Len(queue') : queue'[i] \in Tasks => due'[queue'[i]] <= clock'
  <2>1. \A i \in 1..Len(queue') : i \in 1..Len(queue) \/ i = Len(queue) + 1
    BY <1>2
  <2> QED
    BY <1>1, <1>2, <1>3, <2>1 DEF Timed
<1> QED
  BY <1>1, <1>3, <1>4, <1>5, CallTasks DEF Timed

LEMMA ScheduleTimed ==
    ASSUME TypeOK, Timed, NEW a \in Actors, Schedule(a)
    PROVE  Timed'
<1> DEFINE entry == [when |-> call[a].when, task |-> call[a].task]
<1>1. /\ entry \in DelayedTask /\ due[entry.task] = entry.when
      /\ UNCHANGED <<clock, held, fate, due>>
      /\ queue' = queue \/ queue' = <<Scheduler>> \o queue
      /\ delayed' = InsertDelayed(entry)
  BY CallTasks DEF Schedule, Timed, DelayedTask
<1>2. PICK at \in 1..Len(delayed) + 1 :
         /\ Len(delayed) \in Nat /\ Len(delayed') = Len(delayed) + 1
         /\ \A i \in 1..Len(delayed) + 1 :
               delayed'[i] = IF i < at THEN delayed[i]
                             ELSE IF i = at THEN entry ELSE delayed[i - 1]
  BY <1>1, Inserted
<1> HIDE DEF entry
<1>3. \A t \in Tasks : (due'[t] <= clock') <=> (due[t] <= clock)
  BY <1>1
<1>4. \A b \in Actors : call'[b] = call[b] \/ call'[b].at \notin {"push", "schedule"}
  BY DEF Schedule, Leave, TypeOK, NoCall
<1>5. \A i \in 1..Len(delayed') : due'[delayed'[i].task] = delayed'[i].when
  <2>1. ASSUME NEW i \in 1..Len(delayed')
        PROVE  delayed'[i] = entry \/ \E j \in 1..Len(delayed) : delayed'[i] = delayed[j]
    <3>1. CASE i <= at
      BY <1>2, <3>1
    <3>2. CASE i > at
      <4>1. i - 1 \in 1..Len(delayed) /\ delayed'[i] = delayed[i - 1]
        BY <1>2, <3>2
      <4> QED
        BY <4>1
    <3> QED
      BY <1>2, <3>1, <3>2
  <2> QED
    BY <1>1, <2>1 DEF Timed
<1>6. \A i \in 1..Len(queue') : queue'[i] \in Tasks => due'[queue'[i]] <= clock'
  <2>1. CASE queue' = queue
    BY <1>3, <2>1 DEF Timed
  <2>2. CASE queue' = <<Scheduler>> \o queue
    <3>1. /\ Len(queue) \in Nat /\ Len(queue') = Len(queue) + 1
          /\ queue'[1] = Scheduler /\ Scheduler \notin Tasks
          /\ \A i \in 1..Len(queue) : queue'[i + 1] = queue[i]
      BY <2>2, PushedFront, PoolAssumption DEF PoolAssumption
    <3>2. ASSUME NEW i \in 1..Len(queue'), queue'[i] \in Tasks PROVE due'[queue'[i]] <= clock'
      <4>1. i # 1
        BY <3>1, <3>2
      <4>2. i - 1 \in 1..Len(queue) /\ (i - 1) + 1 = i
        BY <3>1, <4>1
      <4>3. queue'[i] = queue[i - 1]
        BY <3>1, <4>2
      <4> QED
        BY <1>3, <3>2, <4>2, <4>3 DEF Timed
    <3> QED
      BY <3>2
  <2> QED
    BY <1>1, <2>1, <2>2
<1> QED
  BY <1>1, <1>3, <1>4, <1>5, <1>6, CallTasks DEF Timed

LEMMA PollTimed ==
    ASSUME TypeOK, Timed, NEW w \in Workers, Poll(w)
    PROVE  Timed'
<1>1. CASE queue = <<>>
  BY <1>1, TimedStays DEF Poll
<1>2. CASE queue # <<>>
  <2>1. /\ queue' = Tail(queue) /\ held' = [held EXCEPT ![w] = Head(queue)]
        /\ UNCHANGED <<delayed, clock, call, fate, due>>
    BY <1>2 DEF Poll
  <2>2. /\ Len(queue) \in Nat /\ Len(queue) >= 1 /\ Len(queue') = Len(queue) - 1
        /\ Head(queue) = queue[1]
        /\ \A i \in 1..Len(queue) - 1 : queue'[i] = queue[i + 1]
    BY <1>2, <2>1, Popped
  <2>3. \A t \in Tasks : (due'[t] <= clock') <=> (due[t] <= clock)
    BY <2>1
  <2>4. /\ \A i \in 1..Len(queue') : i + 1 \in 1..Len(queue) /\ queue'[i] = queue[i + 1]
        /\ 1 \in 1..Len(queue)
    BY <2>2
  <2>5. \A i \in 1..Len(queue') : queue'[i] \in Tasks => due'[queue'[i]] <= clock'
    BY <2>3, <2>4 DEF Timed
  <2>6. \A v \in Workers : held'[v] \in Tasks => due'[held'[v]] <= clock'
    BY <2>1, <2>2, <2>3, <2>4 DEF Timed, TypeOK
  <2>7. \A a \in Actors : call[a].at = "push" => call[a].task \in Tasks
    BY CallTasks
  <2> QED
    BY <2>1, <2>3, <2>5, <2>6, <2>7 DEF Timed
<1> QED
  BY <1>1, <1>2

LEMMA MoveTimed ==
    ASSUME TypeOK, Timed, NEW w \in Workers, MoveDue(w)
    PROVE  Timed'
<1>1. PICK n \in 0..Len(delayed) :
         /\ Len(delayed) \in Nat /\ Len(queue) \in Nat
         /\ \A i \in 1..n : delayed[i].when <= clock
         /\ Len(queue') = n + Len(queue)
         /\ \A i \in 1..n : queue'[i] = delayed[n + 1 - i].task
         /\ \A i \in 1..Len(queue) : queue'[n + i] = queue[i]
         /\ Len(delayed') = Len(delayed) - n
         /\ \A i \in 1..Len(delayed) - n : delayed'[i] = delayed[n + i]
  BY Moved
<1>2. UNCHANGED <<held, clock, call, fate, due>>
  BY DEF MoveDue
<1>3. \A t \in Tasks : (due'[t] <= clock') <=> (due[t] <= clock)
  BY <1>2
<1>4. ASSUME NEW i \in 1..Len(queue'), queue'[i] \in Tasks PROVE due'[queue'[i]] <= clock'
  <2>1. CASE i <= n
    <3>1. /\ n + 1 - i \in 1..n /\ n + 1 - i \in 1..Len(delayed)
          /\ queue'[i] = delayed[n + 1 - i].task
      BY <1>1, <2>1
    <3>2. delayed[n + 1 - i].when <= clock
      BY <1>1, <3>1
    <3>3. due[delayed[n + 1 - i].task] = delayed[n + 1 - i].when
      BY <3>1 DEF Timed
    <3> QED
      BY <1>2, <3>1, <3>2, <3>3
  <2>2. CASE i > n
    <3>1. i - n \in 1..Len(queue) /\ n + (i - n) = i
      BY <1>1, <2>2
    <3>2. queue'[i] = queue[i - n]
      BY <1>1, <3>1
    <3> QED
      BY <1>3, <1>4, <3>1, <3>2 DEF Timed
  <2> QED
    BY <1>1, <2>1, <2>2
<1>5. \A i \in 1..Len(delayed') : due'[delayed'[i].task] = delayed'[i].when
  <2>1. \A i \in 1..Len(delayed') : n + i \in 1..Len(delayed) /\ delayed'[i] = delayed[n + i]
    BY <1>1, SMTT(30)
  <2> QED
    BY <1>2, <2>1 DEF Timed
<1>6. \A a \in Actors : call[a].at = "push" => call[a].task \in Tasks
  BY CallTasks
<1> QED
  BY <1>2, <1>3, <1>4, <1>5, <1>6 DEF Timed

\* CallTask and SkipTask: a task is started when it is due.
LEMMA LetGoTimed ==
    ASSUME TypeOK, Timed, NEW w \in Workers, held' = [held EXCEPT ![w] = None],
           UNCHANGED <<queue, delayed, clock, call, due>>,
           \A t \in Tasks : fate'[t] = "started" => fate[t] = "started" \/ t = held[w]
    PROVE  Timed'
<1>1. \A t \in Tasks : (due'[t] <= clock') <=> (due[t] <= clock)
  OBVIOUS
<1>2. \A v \in Workers : held'[v] \in Tasks => held'[v] = held[v]
  BY PoolAssumption DEF TypeOK, PoolAssumption
<1>3. \A a \in Actors : call[a].at = "push" => call[a].task \in Tasks
  BY CallTasks
<1> QED
  BY <1>1, <1>2, <1>3 DEF Timed

\* No step gives a task to the workers ahead of its time.
LEMMA TimedStep == TypeOK /\ Placed /\ Timed /\ [Next]_vars => Timed'
<1> SUFFICES ASSUME TypeOK, Placed, Timed, [Next]_vars PROVE Timed'
  OBVIOUS
<1>1. ASSUME NEW a \in Actors, NEW t \in Tasks, Refuse(a, t) PROVE Timed'
  <2>1. \A s \in Tasks : fate'[s] = "started" => fate[s] = "started"
    BY <1>1 DEF Refuse, TypeOK
  <2> QED
    BY <1>1, <2>1, TimedStays DEF Refuse
<1>2. ASSUME NEW a \in Actors, Submit(a) \/ Push(a) \/ Schedule(a) PROVE Timed'
  BY <1>1, <1>2, EnterTimed, PushTimed, ScheduleTimed DEF Submit
<1>3. ASSUME NEW a \in Actors, NotifyWork(a) \/ NotifyDelayed(a) PROVE Timed'
  <2>1. \A b \in Actors : call'[b] = call[b] \/ call'[b].at \notin {"push", "schedule"}
    BY <1>3 DEF NotifyWork, NotifyDelayed, Leave, TypeOK, NoCall
  <2> QED
    BY <1>3, <2>1, TimedStays DEF NotifyWork, NotifyDelayed
<1>4. ASSUME NEW w \in Workers, Poll(w) \/ MoveDue(w) PROVE Timed'
  BY <1>4, PollTimed, MoveTimed
<1>5. ASSUME NEW w \in Workers, CallTask(w) \/ SkipTask(w) PROVE Timed'
  <2>1. \A t \in Tasks : fate'[t] = "started" => fate[t] = "started" \/ t = held[w]
    BY <1>5 DEF CallTask, SkipTask, TypeOK
  <2> QED
    BY <1>5, <2>1, LetGoTimed DEF CallTask, SkipTask
<1>6. ASSUME NEW w \in Workers,
             \/ FinishTask(w) \/ Again(w) \/ BeforeWait(w) \/ AfterWait(w) \/ Park(w)
             \/ SpuriousWakeup(w) \/ ScheduleLoop(w) \/ AfterMove(w) \/ Timeout(w)
             \/ NotifyReady(w) \/ WaitForNext(w)
      PROVE  Timed'
  BY <1>6, TimedStays DEF FinishTask, Again, BeforeWait, AfterWait, Park, SpuriousWakeup,
          ScheduleLoop, AfterMove, Timeout, TestFlag, NotifyReady, WaitForNext
<1>7. CASE Close \/ Tick \/ UNCHANGED vars
  BY <1>7, TimedStays DEF Close, SetFlag, NotifyAllDelayed, NotifyAllWork, Join, Tick, vars
<1> QED
  BY <1>2, <1>3, <1>4, <1>5, <1>6, <1>7 DEF Next, Continue, Step

\* A task that is not due is not with the workers, and has not been.
LEMMA TimedIsNeverEarly == TypeOK /\ Timed => NeverEarly
<1> SUFFICES ASSUME TypeOK, Timed, NEW t \in Tasks, due[t] > clock
             PROVE  fate[t] # "started" /\ QueuedAt(t) = {} /\ HeldBy(t) = {}
  BY DEF NeverEarly
<1>1. DOMAIN queue = 1..Len(queue)
  BY LenProperties DEF TypeOK
<1>2. ~ (due[t] <= clock)
  BY PoolAssumption DEF TypeOK, Time, PoolAssumption
<1> QED
  BY <1>1, <1>2 DEF Timed, QueuedAt, HeldBy

LEMMA InitTimed == Init => Timed
<1> SUFFICES ASSUME Init PROVE Timed
  OBVIOUS
<1>1. Len(queue) = 0 /\ Len(delayed) = 0
  BY EmptySeq DEF Init
<1> QED
  BY <1>1, PoolAssumption DEF Init, Timed, NoCall, PoolAssumption

\* Everything about the places and the times of the tasks that a step preserves.
TasksInv == TypeOK /\ Holding /\ Placed /\ Timed

LEMMA TasksInvariant == Spec => []TasksInv
<1>1. Init => TasksInv
  BY InitType, InitPlaced, InitTimed DEF TasksInv
<1>2. TasksInv /\ [Next]_vars => TasksInv'
  BY TypeStep, HoldingStep, PlacedStep, TimedStep DEF TasksInv
<1> QED
  BY <1>1, <1>2, PTL DEF Spec

\* The hand-overs between ScheduleAsync, ProcessDelayedTasks, RunAsync and RunThread
\* lose no task and run none twice.
THEOREM CustodyKept == Spec => []Custody
<1>1. TasksInv => Custody
  BY PlacedIsCustody DEF TasksInv
<1> QED
  BY <1>1, TasksInvariant, PTL

\* ProcessDelayedTasks takes out only what is due: no task is handed to the workers
\* before its delay has passed.
THEOREM NeverStartedEarly == Spec => []NeverEarly
<1>1. TasksInv => NeverEarly
  BY TimedIsNeverEarly DEF TasksInv
<1> QED
  BY <1>1, TasksInvariant, PTL

-----------------------------------------------------------------------------
(* The scheduler does not sleep through the time of a task.                 *)

Awake == \E w \in Workers : /\ pc[w] \in SchedulerPcs
                            /\ pc[w] = "sleeping" => deadline[w] <= delayed[1].when
Announced == \E a \in Actors : call[a].at = "notifyDelayed"

Woken == delayed # <<>> /\ ~shutdown =>
            SchedulerQueued \/ SchedulerHeld \/ Awake \/ Announced

LEMMA WokenIsWokenInTime == TypeOK => (Woken <=> WokenInTime)
<1> SUFFICES ASSUME TypeOK PROVE Woken <=> WokenInTime
  OBVIOUS
<1>1. DOMAIN queue = 1..Len(queue)
  BY LenProperties DEF TypeOK
<1>2. \A w : w \in Scheduling <=> w \in Workers /\ pc[w] \in SchedulerPcs
  BY DEF Scheduling
<1> QED
  BY <1>1, <1>2 DEF Woken, WokenInTime, SchedulerQueued, SchedulerHeld, Awake, Announced,
                    QueuedAt, HeldBy

\* A scheduler that waits in the queue, or that a worker has popped, goes on to run.
LEMMA OnItsWay ==
    ASSUME TypeOK, Holding, [Next]_vars, SchedulerQueued \/ SchedulerHeld, ~shutdown'
    PROVE  SchedulerQueued' \/ SchedulerHeld' \/ \E w \in Workers : pc'[w] = "sLoop"
<1>1. ASSUME UNCHANGED <<queue, held>> PROVE SchedulerQueued' \/ SchedulerHeld'
  BY <1>1 DEF SchedulerQueued, SchedulerHeld
<1>2. ASSUME NEW k \in Nat, UNCHANGED held,
             \A i \in 1..Len(queue) : k + i \in 1..Len(queue') /\ queue'[k + i] = queue[i]
      PROVE  SchedulerQueued' \/ SchedulerHeld'
  BY <1>2 DEF SchedulerQueued, SchedulerHeld
<1>3. ASSUME NEW a \in Actors, Push(a) PROVE SchedulerQueued' \/ SchedulerHeld'
  <2>1. /\ Len(queue) \in Nat /\ Len(queue') = Len(queue) + 1
        /\ \A i \in 1..Len(queue) : queue'[i] = queue[i]
    BY <1>3, CallTasks, Pushed DEF Push, Work
  <2>2. \A i \in 1..Len(queue) : 0 + i \in 1..Len(queue') /\ queue'[0 + i] = queue[i]
    BY <2>1
  <2> QED
    BY <1>2, <1>3, <2>2 DEF Push
<1>4. ASSUME NEW a \in Actors, Schedule(a) PROVE SchedulerQueued' \/ SchedulerHeld'
  <2>1. CASE UNCHANGED queue
    BY <1>1, <1>4, <2>1 DEF Schedule
  <2>2. CASE queue' = <<Scheduler>> \o queue
    <3>1. /\ Len(queue) \in Nat /\ Len(queue') = Len(queue) + 1
          /\ queue'[1] = Scheduler
      BY <2>2, PushedFront
    <3>2. 1 \in 1..Len(queue')
      BY <3>1
    <3> QED
      BY <3>1, <3>2 DEF SchedulerQueued
  <2> QED
    BY <1>4, <2>1, <2>2 DEF Schedule
<1>5. ASSUME NEW w \in Workers, Poll(w) PROVE SchedulerQueued' \/ SchedulerHeld'
  <2>1. SchedulerHeld => SchedulerHeld'
    BY <1>5, PoolAssumption DEF Poll, Holding, SchedulerHeld, TypeOK, PoolAssumption
  <2>2. CASE queue = <<>>
    BY <1>1, <1>5, <2>2 DEF Poll
  <2>3. CASE queue # <<>>
    <3>1. /\ Len(queue) \in Nat /\ Len(queue') = Len(queue) - 1
          /\ Head(queue) = queue[1] /\ held'[w] = Head(queue)
          /\ \A i \in 1..Len(queue) - 1 : queue'[i] = queue[i + 1]
      BY <1>5, <2>3, Popped DEF Poll, TypeOK
    <3>2. ASSUME NEW i \in 1..Len(queue), queue[i] = Scheduler
          PROVE  SchedulerQueued' \/ SchedulerHeld'
      <4>1. CASE i = 1
        BY <3>1, <3>2, <4>1 DEF SchedulerHeld
      <4>2. CASE i # 1
        <5>1. i - 1 \in 1..Len(queue') /\ i - 1 \in 1..Len(queue) - 1 /\ (i - 1) + 1 = i
          BY <3>1, <4>2
        <5>2. queue'[i - 1] = Scheduler
          BY <3>1, <3>2, <5>1
        <5> QED
          BY <5>1, <5>2 DEF SchedulerQueued
      <4> QED
        BY <4>1, <4>2
    <3> QED
      BY <2>1, <3>2 DEF SchedulerQueued
  <2> QED
    BY <2>2, <2>3
<1>6. ASSUME NEW w \in Workers, CallTask(w)
      PROVE  SchedulerQueued' \/ SchedulerHeld' \/ \E v \in Workers : pc'[v] = "sLoop"
  <2>1. CASE held[w] = Scheduler
    BY <1>6, <2>1 DEF CallTask, Goto, TypeOK
  <2>2. CASE held[w] # Scheduler
    BY <1>6, <2>2 DEF CallTask, SchedulerQueued, SchedulerHeld, TypeOK
  <2> QED
    BY <2>1, <2>2
<1>7. ASSUME NEW w \in Workers, SkipTask(w) PROVE FALSE
  BY <1>7 DEF SkipTask, closeVars
<1>8. ASSUME NEW w \in Workers, MoveDue(w) PROVE SchedulerQueued' \/ SchedulerHeld'
  <2>1. PICK n \in 0..Len(delayed) :
           /\ Len(delayed) \in Nat /\ Len(queue) \in Nat
           /\ Len(queue') = n + Len(queue)
           /\ \A i \in 1..Len(queue) : queue'[n + i] = queue[i]
    BY <1>8, Moved
  <2>2. n \in Nat /\ \A i \in 1..Len(queue) : n + i \in 1..Len(queue')
    BY <2>1
  <2> QED
    BY <1>2, <1>8, <2>1, <2>2 DEF MoveDue
<1>9. ASSUME NEW a \in Actors, Submit(a) \/ NotifyWork(a) \/ NotifyDelayed(a)
      PROVE  SchedulerQueued' \/ SchedulerHeld'
  BY <1>1, <1>9 DEF Submit, Refuse, RunAsync, ScheduleAsync, Enter, NotifyWork, NotifyDelayed
<1>10. ASSUME NEW w \in Workers,
              \/ FinishTask(w) \/ Again(w) \/ BeforeWait(w) \/ AfterWait(w) \/ Park(w)
              \/ SpuriousWakeup(w) \/ ScheduleLoop(w) \/ AfterMove(w) \/ Timeout(w)
              \/ NotifyReady(w) \/ WaitForNext(w)
       PROVE  SchedulerQueued' \/ SchedulerHeld'
  BY <1>1, <1>10 DEF FinishTask, Again, BeforeWait, AfterWait, Park, SpuriousWakeup,
          ScheduleLoop, AfterMove, Timeout, TestFlag, NotifyReady, WaitForNext
<1>11. CASE Close \/ Tick \/ UNCHANGED vars
  BY <1>1, <1>11 DEF Close, SetFlag, NotifyAllDelayed, NotifyAllWork, Join, Tick, vars
<1> QED
  BY <1>3, <1>4, <1>5, <1>6, <1>7, <1>8, <1>9, <1>10, <1>11 DEF Next, Continue, Step

\* A scheduler that is awake, and not at its end, or sleeps until the first time in
\* the list, still does when that stays.
LEMMA AwakeStays ==
    ASSUME Awake, delayed'[1] = delayed[1],
           \A w \in Workers : pc[w] \in SchedulerPcs =>
              \/ pc'[w] = "sleeping" /\ deadline'[w] <= delayed[1].when
              \/ pc'[w] \in SchedulerPcs \ {"sleeping"}
              \/ pc'[w] = pc[w] /\ deadline'[w] = deadline[w]
    PROVE  Awake'
BY DEF Awake, SchedulerPcs

\* Every step that ends the sleep of the scheduler, or sets an earlier first time, has
\* another scheduler awake, on its way or about to be notified.
LEMMA WokenStep == TypeOK /\ Holding /\ Present /\ Woken /\ [Next]_vars => Woken'
<1> SUFFICES ASSUME TypeOK, Holding, Present, Woken, [Next]_vars, delayed' # <<>>, ~shutdown'
             PROVE  SchedulerQueued' \/ SchedulerHeld' \/ Awake' \/ Announced'
  BY DEF Woken
<1> USE DEF closeVars, sleepVars
<1>1. ASSUME \E w \in Workers : pc'[w] \in SchedulerPcs \ {"sleeping"} PROVE Awake'
  BY <1>1 DEF Awake
<1>2. SchedulerQueued \/ SchedulerHeld =>
         SchedulerQueued' \/ SchedulerHeld' \/ \E w \in Workers : pc'[w] = "sLoop"
  BY OnItsWay
<1>3. SchedulerQueued \/ SchedulerHeld => SchedulerQueued' \/ SchedulerHeld' \/ Awake'
  BY <1>1, <1>2 DEF SchedulerPcs
<1>4. ASSUME Announced, UNCHANGED call PROVE Announced'
  BY <1>4 DEF Announced
<1>5. ASSUME UNCHANGED <<delayed, call, shutdown>>, Awake => Awake'
      PROVE  SchedulerQueued' \/ SchedulerHeld' \/ Awake' \/ Announced'
  BY <1>3, <1>4, <1>5 DEF Woken
<1>6. ASSUME NEW a \in Actors,
             \A b \in Actors : b # a => call'[b] = call[b], call[a].at # "notifyDelayed"
      PROVE  Announced => Announced'
  BY <1>6 DEF Announced
<1>7. ASSUME NEW a \in Actors, Submit(a) \/ Push(a) \/ NotifyWork(a)
      PROVE  SchedulerQueued' \/ SchedulerHeld' \/ Awake' \/ Announced'
  <2>1. /\ \A b \in Actors : b # a => call'[b] = call[b]
        /\ UNCHANGED <<delayed, shutdown, deadline>>
    BY <1>7 DEF Submit, Refuse, RunAsync, ScheduleAsync, Enter, MayCall, NoCall, Push,
                NotifyWork, Leave, TypeOK
  <2>2. Awake => Awake'
    <3>1. \A w \in Workers : pc[w] \in SchedulerPcs => pc'[w] = pc[w]
      BY <1>7 DEF Submit, Refuse, RunAsync, ScheduleAsync, Enter, Push, NotifyWork,
                  NotifyOne, Waiting, SchedulerPcs, TypeOK
    <3> QED
      BY <2>1, <3>1, AwakeStays
  <2>3. Announced => Announced'
    BY <1>4, <1>6, <1>7, <2>1 DEF Submit, Refuse, RunAsync, ScheduleAsync, Enter, MayCall,
                              NoCall, Push, NotifyWork
  <2> QED
    BY <1>3, <2>1, <2>2, <2>3 DEF Woken
<1>8. ASSUME NEW a \in Actors, Schedule(a)
      PROVE  SchedulerQueued' \/ SchedulerHeld' \/ Awake' \/ Announced'
  <2> DEFINE entry == [when |-> call[a].when, task |-> call[a].task]
  <2>1. entry \in DelayedTask /\ delayed' = InsertDelayed(entry)
    BY <1>8, CallTasks DEF Schedule, DelayedTask
  <2>2. CASE delayed = <<>>
    <3>1. queue' = <<Scheduler>> \o queue
      BY <1>8, <2>2 DEF Schedule
    <3>2. Len(queue) \in Nat /\ Len(queue') = Len(queue) + 1 /\ queue'[1] = Scheduler
      BY <3>1, PushedFront
    <3>3. 1 \in 1..Len(queue')
      BY <3>2
    <3> QED
      BY <3>2, <3>3 DEF SchedulerQueued
  <2>3. CASE delayed # <<>> /\ entry.when < delayed[1].when
    <3>1. call'[a].at = "notifyDelayed"
      BY <1>8, <2>3 DEF Schedule, Leave, TypeOK, NoCall
    <3> QED
      BY <3>1 DEF Announced
  <2>4. CASE delayed # <<>> /\ ~ (entry.when < delayed[1].when)
    <3>1. delayed'[1] = delayed[1]
      <4>1. PICK at \in 1..Len(delayed) + 1 :
               /\ at = InsertAt(entry.when)
               /\ Len(delayed) \in Nat
               /\ \A i \in 1..Len(delayed) + 1 :
                     delayed'[i] = IF i < at THEN delayed[i]
                                   ELSE IF i = at THEN entry ELSE delayed[i - 1]
        BY <2>1, Inserted
      <4>2. at # 1
        <5>1. entry.when \in Nat
          BY <2>1 DEF DelayedTask, Time
        <5> QED
          BY <2>4, <4>1, <5>1, InsertAtStops DEF TypeOK
      <4> QED
        BY <4>1, <4>2
    <3>2. UNCHANGED <<pc, deadline, shutdown>>
      BY <1>8 DEF Schedule
    <3>3. Awake => Awake'
      BY <3>1, <3>2, AwakeStays
    <3>4. Announced => Announced'
      <4>1. /\ \A b \in Actors : b # a => call'[b] = call[b]
            /\ call[a].at # "notifyDelayed"
        BY <1>8 DEF Schedule, Leave, TypeOK
      <4> QED
        BY <1>6, <4>1
    <3> QED
      BY <1>3, <2>4, <3>2, <3>3, <3>4 DEF Woken
  <2> QED
    BY <2>2, <2>3, <2>4
<1>9. ASSUME NEW a \in Actors, NotifyDelayed(a)
      PROVE  SchedulerQueued' \/ SchedulerHeld' \/ Awake' \/ Announced'
  <2>1. UNCHANGED <<delayed, queue, held, deadline, shutdown>> /\ NotifyOne("sleeping", "sLoop")
    BY <1>9 DEF NotifyDelayed
  <2>2. CASE \E w \in Workers : pc[w] = "sleeping"
    <3>1. PICK w \in Workers : pc' = [pc EXCEPT ![w] = "sLoop"]
      BY <2>1, <2>2 DEF NotifyOne, Waiting
    <3> QED
      BY <1>1, <3>1 DEF TypeOK, SchedulerPcs
  <2>3. CASE \A w \in Workers : pc[w] # "sleeping"
    <3>1. UNCHANGED pc
      BY <2>1, <2>3 DEF NotifyOne, Waiting
    <3>2. SchedulerRuns => Awake'
      BY <1>1, <2>3, <3>1 DEF SchedulerRuns
    <3> QED
      BY <1>3, <2>1, <3>2 DEF Present
  <2> QED
    BY <2>2, <2>3
<1>10. ASSUME NEW w \in Workers,
              \/ Poll(w) \/ CallTask(w) \/ FinishTask(w) \/ Again(w) \/ BeforeWait(w)
              \/ AfterWait(w) \/ Park(w)
       PROVE  SchedulerQueued' \/ SchedulerHeld' \/ Awake' \/ Announced'
  <2>1. /\ pc[w] \notin SchedulerPcs /\ UNCHANGED <<delayed, call, deadline, shutdown>>
        /\ \A v \in Workers : v # w => pc'[v] = pc[v]
    BY <1>10 DEF Poll, CallTask, FinishTask, Again, BeforeWait, AfterWait, Park, TestFlag,
                 Goto, SchedulerPcs, TypeOK
  <2>2. Awake => Awake'
    BY <2>1, AwakeStays
  <2> QED
    BY <1>5, <2>1, <2>2
<1>11. ASSUME NEW w \in Workers,
              \/ ScheduleLoop(w) \/ MoveDue(w) \/ AfterMove(w) \/ Timeout(w)
       PROVE  Awake'
  <2>1. pc'[w] \in SchedulerPcs \ {"sleeping"}
    BY <1>11 DEF ScheduleLoop, MoveDue, AfterMove, Timeout, TestFlag, Goto, SchedulerPcs,
                 TypeOK
  <2> QED
    BY <1>1, <2>1
<1>12. ASSUME NEW w \in Workers, WaitForNext(w) PROVE Awake'
  <2>1. \/ pc'[w] \in SchedulerPcs \ {"sleeping"}
        \/ pc'[w] = "sleeping" /\ deadline'[w] = delayed'[1].when
    BY <1>12 DEF WaitForNext, Goto, SchedulerPcs, TypeOK
  <2>2. delayed'[1].when \in Nat
    <3>1. delayed' = delayed /\ delayed[1] \in DelayedTask
      BY <1>12, ElementOfSeq, EmptySeq, LenProperties DEF WaitForNext, TypeOK
    <3> QED
      BY <3>1 DEF DelayedTask, Time
  <2> QED
    BY <1>1, <2>1, <2>2 DEF Awake, SchedulerPcs
<1>13. ASSUME NEW w \in Workers, NotifyReady(w)
       PROVE  SchedulerQueued' \/ SchedulerHeld' \/ Awake' \/ Announced'
  <2>1. \A v \in Workers : pc[v] \in SchedulerPcs =>
           pc'[v] = pc[v] \/ pc'[v] \in SchedulerPcs \ {"sleeping"}
    BY <1>13 DEF NotifyReady, NotifyOne, Waiting, Goto, SchedulerPcs, TypeOK
  <2>2. UNCHANGED <<delayed, call, deadline, shutdown>>
    BY <1>13 DEF NotifyReady
  <2>3. Awake => Awake'
    BY <2>1, <2>2, AwakeStays
  <2> QED
    BY <1>5, <2>2, <2>3
<1>14. ASSUME NEW w \in Workers, SpuriousWakeup(w)
       PROVE  SchedulerQueued' \/ SchedulerHeld' \/ Awake' \/ Announced'
  <2>1. \A v \in Workers : pc[v] \in SchedulerPcs =>
           pc'[v] = pc[v] \/ pc'[v] \in SchedulerPcs \ {"sleeping"}
    BY <1>14 DEF SpuriousWakeup, Goto, SchedulerPcs, TypeOK
  <2>2. UNCHANGED <<delayed, call, deadline, shutdown>>
    BY <1>14 DEF SpuriousWakeup
  <2>3. Awake => Awake'
    BY <2>1, <2>2, AwakeStays
  <2> QED
    BY <1>5, <2>2, <2>3
<1>15. ASSUME NotifyAllDelayed \/ NotifyAllWork \/ Join \/ Tick \/ UNCHANGED vars
       PROVE  SchedulerQueued' \/ SchedulerHeld' \/ Awake' \/ Announced'
  <2>1. \A v \in Workers : pc[v] \in SchedulerPcs =>
           pc'[v] = pc[v] \/ pc'[v] \in SchedulerPcs \ {"sleeping"}
    BY <1>15 DEF NotifyAllDelayed, NotifyAllWork, NotifyAll, Join, Tick, vars, SchedulerPcs,
                 TypeOK
  <2>2. UNCHANGED <<delayed, call, deadline, shutdown>>
    BY <1>15 DEF NotifyAllDelayed, NotifyAllWork, Join, Tick, vars
  <2>3. Awake => Awake'
    BY <2>1, <2>2, AwakeStays
  <2> QED
    BY <1>5, <2>2, <2>3
<1>16. ASSUME SetFlag \/ \E w \in Workers : SkipTask(w) PROVE FALSE
  BY <1>16 DEF SetFlag, SkipTask
<1> QED
  BY <1>7, <1>8, <1>9, <1>10, <1>11, <1>12, <1>13, <1>14, <1>15, <1>16
     DEF Next, Continue, Step, Close

\* ProcessDelayedTasks waits no longer than until the first task in the list, and is
\* told of one that ScheduleAsync puts in front of it.
THEOREM AlwaysWokenInTime == Spec => []WokenInTime
<1>1. Init => TypeOK /\ Holding /\ Present /\ Woken
  <2>1. Init => Present /\ Woken
    BY DEF Init, Present, Woken
  <2> QED
    BY <2>1, InitType, InitPlaced
<1>2. /\ TypeOK /\ Holding /\ Present /\ Woken /\ [Next]_vars
      => TypeOK' /\ Holding' /\ Present' /\ Woken'
  BY TypeStep, HoldingStep, PresentStep, WokenStep
<1>3. TypeOK /\ Woken => WokenInTime
  BY WokenIsWokenInTime
<1> QED
  BY <1>1, <1>2, <1>3, PTL DEF Spec

-----------------------------------------------------------------------------
(* The pool implements TaskService.                                         *)

\* A step that is not one of the five below leaves the service alone.
LEMMA Unseen ==
    ASSUME UNCHANGED <<fate, due, clock, shutdown>>
    PROVE  [Service!Next]_(Service!vars)
BY DEF Service!vars

LEMMA AcceptRefines ==
    ASSUME TypeOK, NEW a \in Actors, NEW t \in Tasks, RunAsync(a, t) \/ ScheduleAsync(a, t)
    PROVE  Service!Accept(t)
<1>1. PICK when \in clock..MaxTime : \E at : Enter(a, t, at, when)
  <2>1. clock \in Nat /\ clock <= MaxTime /\ MaxTime \in Nat
    BY PoolAssumption DEF TypeOK, Time, PoolAssumption
  <2>2. \A d \in Delays : clock + d <= MaxTime => clock + d \in clock..MaxTime
    BY <2>1, PoolAssumption DEF PoolAssumption
  <2> QED
    BY <2>1, <2>2 DEF RunAsync, ScheduleAsync
<1> QED
  BY <1>1 DEF Enter, Service!Accept, closeVars

\* A held task was accepted and is due.
LEMMA HeldIsDue ==
    ASSUME TasksInv, NEW w \in Workers, held[w] \in Tasks
    PROVE  fate[held[w]] = "accepted" /\ due[held[w]] <= clock
BY DEF TasksInv, Placed, Tracked, InHeld, Timed

LEMMA StartRefines ==
    ASSUME TasksInv, NEW w \in Workers, CallTask(w)
    PROVE  [Service!Next]_(Service!vars)
<1>1. CASE held[w] = Scheduler
  BY <1>1, Unseen DEF CallTask, closeVars
<1>2. CASE held[w] # Scheduler
  <2>1. held[w] \in Tasks
    BY <1>2 DEF CallTask, TasksInv, Holding, TypeOK, Work
  <2>2. Service!Start(held[w])
    BY <1>2, <2>1, HeldIsDue DEF CallTask, Service!Start, Service!Finish, closeVars
  <2> QED
    BY <2>1, <2>2 DEF Service!Next
<1> QED
  BY <1>1, <1>2

LEMMA DropRefines ==
    ASSUME TasksInv, NEW w \in Workers, SkipTask(w)
    PROVE  [Service!Next]_(Service!vars)
<1>1. /\ fate' = [t \in Tasks |-> IF t = held[w] THEN "dropped" ELSE fate[t]]
      /\ fate \in [Tasks -> {"new", "refused", "accepted", "started", "dropped"}]
      /\ shutdown /\ UNCHANGED <<due, clock, shutdown>>
  BY DEF SkipTask, TasksInv, TypeOK, closeVars
<1>2. CASE held[w] \in Tasks
  <2>1. fate' = [fate EXCEPT ![held[w]] = "dropped"]
    BY <1>1, <1>2
  <2>2. Service!Drop(held[w])
    BY <1>1, <1>2, <2>1, HeldIsDue DEF Service!Drop, Service!Finish
  <2> QED
    BY <1>2, <2>2 DEF Service!Next
<1>3. CASE held[w] \notin Tasks
  <2>1. fate' = fate
    BY <1>1, <1>3
  <2> QED
    BY <1>1, <2>1, Unseen
<1> QED
  BY <1>2, <1>3

\* Every step of the pool is a step of the service, or none of its business.
LEMMA ServiceStep == TasksInv /\ [Next]_vars => [Service!Next]_(Service!vars)
<1> SUFFICES ASSUME TasksInv, [Next]_vars PROVE [Service!Next]_(Service!vars)
  OBVIOUS
<1> USE DEF closeVars, sleepVars
<1>1. ASSUME NEW a \in Actors, NEW t \in Tasks, Refuse(a, t)
      PROVE  [Service!Next]_(Service!vars)
  BY <1>1 DEF Refuse, Service!Refuse, Service!Finish, Service!Next
<1>2. ASSUME NEW a \in Actors, NEW t \in Tasks, RunAsync(a, t) \/ ScheduleAsync(a, t)
      PROVE  [Service!Next]_(Service!vars)
  BY <1>2, AcceptRefines DEF Service!Next, TasksInv
<1>3. ASSUME NEW a \in Actors, Continue(a) PROVE [Service!Next]_(Service!vars)
  BY <1>3, Unseen DEF Continue, Push, Schedule, NotifyWork, NotifyDelayed
<1>4. ASSUME NEW w \in Workers, CallTask(w) \/ SkipTask(w)
      PROVE  [Service!Next]_(Service!vars)
  BY <1>4, StartRefines, DropRefines
<1>5. ASSUME NEW w \in Workers,
             \/ FinishTask(w) \/ Again(w) \/ BeforeWait(w) \/ AfterWait(w) \/ Park(w)
             \/ SpuriousWakeup(w) \/ ScheduleLoop(w) \/ AfterMove(w) \/ Timeout(w)
             \/ NotifyReady(w) \/ WaitForNext(w) \/ Poll(w) \/ MoveDue(w)
      PROVE  [Service!Next]_(Service!vars)
  BY <1>5, Unseen DEF FinishTask, Again, BeforeWait, AfterWait, Park, SpuriousWakeup,
          ScheduleLoop, AfterMove, Timeout, TestFlag, NotifyReady, WaitForNext, Poll, MoveDue
<1>6. CASE SetFlag
  BY <1>6 DEF SetFlag, Service!Close, Service!Next
<1>7. CASE NotifyAllDelayed \/ NotifyAllWork \/ Join \/ UNCHANGED vars
  BY <1>7, Unseen DEF NotifyAllDelayed, NotifyAllWork, Join, vars
<1>8. CASE Tick
  BY <1>8 DEF Tick, Service!Tick, Service!Next
<1> QED
  BY <1>1, <1>2, <1>3, <1>4, <1>5, <1>6, <1>7, <1>8 DEF Next, Submit, Step, Close

\* IThreadPool: whatever the threads do, an accepted task is started at most once, not
\* before its time and not after the flag was set, and dropped only after that.
THEOREM Refinement == Spec => ImplementsService
<1>1. Init => Service!Init
  BY DEF Init, Service!Init
<1>2. TasksInv /\ [Next]_vars => [Service!Next]_(Service!vars)
  BY ServiceStep
<1> QED
  BY <1>1, <1>2, TasksInvariant, PTL DEF Spec, ImplementsService, Service!Spec
=============================================================================
