----------------------------- MODULE ThreadPool -----------------------------
(***************************************************************************)
(* The worker threads of services/impl/ThreadPool: a work queue, a list of *)
(* delayed tasks that one of the workers (the scheduler) is lent to, two   *)
(* condition variables and a shutdown flag that is read and written        *)
(* without the mutex.                                                      *)
(*                                                                         *)
(* A step is what a thread does up to the next point where another thread  *)
(* can be seen to run: a critical section of m_oMutex is one step, a read  *)
(* of m_bShutdownInitiated is one step, a notify is one step.              *)
(***************************************************************************)
EXTENDS Integers, Sequences, FiniteSets

CONSTANTS
    Workers,    \* the threads of m_vThreads
    Clients,    \* threads outside the pool that submit tasks
    Tasks,      \* the functions submitted, each of them once
    Scheduler,  \* the lambda that calls ProcessDelayedTasks
    None,       \* no task
    Delays,     \* the delays that ScheduleAsync is called with
    MaxTime,    \* bound on the clock and on tWhen
    MaxRounds   \* bound on the calls of Shutdown, of which the program makes two

ASSUME PoolAssumption ==
    /\ IsFiniteSet(Workers)
    /\ Cardinality(Workers) >= 2
    /\ Workers \cap Clients = {}
    /\ Scheduler \notin Tasks
    /\ None \notin Tasks \cup {Scheduler}
    /\ MaxTime \in Nat
    /\ Delays \subseteq 0..MaxTime
    /\ MaxRounds \in 0..2

VARIABLES
    queue,      \* m_vQueue
    delayed,    \* m_vDelayedTasks
    shutdown,   \* m_bShutdownInitiated
    clock,      \* IClock::UpTime
    pc,         \* where each worker is in RunThread or ProcessDelayedTasks
    held,       \* pNext of each worker
    ready,      \* nReadyTasks of each worker
    deadline,   \* when the wait_for of each worker times out
    call,       \* the RunAsync or ScheduleAsync each thread is in
    closer,     \* where the thread that shuts the pool down is
    round,      \* how many times it has called Shutdown
    fate,       \* history: what became of each task
    due         \* history: the earliest time at which each task may start

sleepVars == <<ready, deadline>>
closeVars == <<shutdown, closer, round>>
vars == <<queue, delayed, shutdown, clock, pc, held, ready, deadline, call,
          closer, round, fate, due>>

Actors == Workers \cup Clients
Work == Tasks \cup {Scheduler}
Time == 0..MaxTime
DelayedTask == [when : Time, task : Tasks]

NoCall == [at |-> "none", task |-> None, when |-> 0]
Calls == {NoCall}
         \cup [at : {"push", "schedule"}, task : Tasks, when : Time]
         \cup [at : {"notifyWork", "notifyDelayed"}, task : {None}, when : {0}]

RunThreadPcs == {"poll", "popped", "body", "again", "idle", "park", "parked",
                 "woken", "done"}
SchedulerPcs == {"sLoop", "sMove", "sTest", "sNotify", "sSleep", "sleeping"}

Init ==
    /\ queue = <<>> /\ delayed = <<>>
    /\ shutdown = FALSE /\ clock = 0
    /\ pc = [w \in Workers |-> "poll"]
    /\ held = [w \in Workers |-> None]
    /\ ready = [w \in Workers |-> 0]
    /\ deadline = [w \in Workers |-> 0]
    /\ call = [a \in Actors |-> NoCall]
    /\ closer = "out" /\ round = 0
    /\ fate = [t \in Tasks |-> "new"]
    /\ due = [t \in Tasks |-> 0]

-----------------------------------------------------------------------------
(* Condition variables: notify_one wakes one of the threads that wait when  *)
(* it is called, and nobody when none does.                                 *)

Waiting(where) == {w \in Workers : pc[w] = where}

NotifyOne(where, to) ==
    IF Waiting(where) = {}
    THEN UNCHANGED pc
    ELSE \E w \in Waiting(where) : pc' = [pc EXCEPT ![w] = to]

NotifyAll(where, to) ==
    pc' = [w \in Workers |-> IF pc[w] = where THEN to ELSE pc[w]]

Goto(w, to) == pc' = [pc EXCEPT ![w] = to]

-----------------------------------------------------------------------------
(* RunAsync and ScheduleAsync, called by a thread outside the pool or by a  *)
(* task that a worker runs.                                                 *)

MayCall(a) ==
    /\ call[a] = NoCall
    /\ a \in Workers => pc[a] = "body"

Refuse(a, t) ==
    /\ MayCall(a) /\ fate[t] = "new" /\ shutdown
    /\ fate' = [fate EXCEPT ![t] = "refused"]
    /\ UNCHANGED <<queue, delayed, clock, pc, held, sleepVars, call, closeVars, due>>

Enter(a, t, at, when) ==
    /\ MayCall(a) /\ fate[t] = "new" /\ ~shutdown
    /\ call' = [call EXCEPT ![a] = [at |-> at, task |-> t, when |-> when]]
    /\ fate' = [fate EXCEPT ![t] = "accepted"]
    /\ due' = [due EXCEPT ![t] = when]
    /\ UNCHANGED <<queue, delayed, clock, pc, held, sleepVars, closeVars>>

RunAsync(a, t) == Enter(a, t, "push", clock)

ScheduleAsync(a, t) ==
    \E d \in Delays : clock + d <= MaxTime /\ Enter(a, t, "schedule", clock + d)

Leave(a, at) == call' = [call EXCEPT ![a] = IF at = "none" THEN NoCall
                                            ELSE [NoCall EXCEPT !.at = at]]

Push(a) ==
    /\ call[a].at = "push"
    /\ queue' = Append(queue, call[a].task)
    /\ Leave(a, "notifyWork")
    /\ UNCHANGED <<delayed, clock, pc, held, sleepVars, closeVars, fate, due>>

\* faulty variant: the search for the insertion point is left out
InsertAtFront(when) == 1

\* iter starts at the first element and is advanced before it is compared
InsertAt(when) ==
    IF delayed = <<>> \/ when < delayed[1].when
    THEN 1
    ELSE CHOOSE i \in 2..Len(delayed) + 1 :
            /\ \A j \in 2..i - 1 : delayed[j].when < when
            /\ i <= Len(delayed) => delayed[i].when >= when

InsertDelayed(entry) ==
    LET at == InsertAt(entry.when)
    IN [i \in 1..Len(delayed) + 1 |->
            IF i < at THEN delayed[i] ELSE IF i = at THEN entry ELSE delayed[i - 1]]

\* faulty variant: a sooner task does not wake the scheduler (no bNewPriority)
ScheduleWithoutWake(a) ==
    /\ call[a].at = "schedule"
    /\ delayed' = InsertDelayed([when |-> call[a].when, task |-> call[a].task])
    /\ queue' = IF delayed = <<>> THEN <<Scheduler>> \o queue ELSE queue
    /\ Leave(a, IF delayed = <<>> THEN "notifyWork" ELSE "none")
    /\ UNCHANGED <<clock, pc, held, sleepVars, closeVars, fate, due>>

Schedule(a) ==
    LET entry == [when |-> call[a].when, task |-> call[a].task]
    IN /\ call[a].at = "schedule"
       /\ delayed' = InsertDelayed(entry)
       /\ \/ /\ delayed = <<>>
             /\ queue' = <<Scheduler>> \o queue
             /\ Leave(a, "notifyWork")
          \/ /\ delayed # <<>>
             /\ UNCHANGED queue
             /\ Leave(a, IF entry.when < delayed[1].when THEN "notifyDelayed" ELSE "none")
       /\ UNCHANGED <<clock, pc, held, sleepVars, closeVars, fate, due>>

NotifyWork(a) ==
    /\ call[a].at = "notifyWork"
    /\ NotifyOne("parked", "woken")
    /\ Leave(a, "none")
    /\ UNCHANGED <<queue, delayed, clock, held, sleepVars, closeVars, fate, due>>

NotifyDelayed(a) ==
    /\ call[a].at = "notifyDelayed"
    /\ NotifyOne("sleeping", "sLoop")
    /\ Leave(a, "none")
    /\ UNCHANGED <<queue, delayed, clock, held, sleepVars, closeVars, fate, due>>

-----------------------------------------------------------------------------
(* RunThread.                                                               *)

Poll(w) ==
    /\ pc[w] = "poll"
    /\ \/ /\ queue = <<>>
          /\ Goto(w, "idle")
          /\ UNCHANGED <<queue, held>>
       \/ /\ queue # <<>>
          /\ held' = [held EXCEPT ![w] = Head(queue)]
          /\ queue' = Tail(queue)
          /\ Goto(w, "popped")
    /\ UNCHANGED <<delayed, clock, sleepVars, call, closeVars, fate, due>>

\* faulty variant: the task is called without testing the flag
CallTaskUntested(w) ==
    /\ pc[w] = "popped"
    /\ held' = [held EXCEPT ![w] = None]
    /\ Goto(w, IF held[w] = Scheduler THEN "sLoop" ELSE "body")
    /\ fate' = [t \in Tasks |-> IF t = held[w] THEN "started" ELSE fate[t]]
    /\ UNCHANGED <<queue, delayed, clock, sleepVars, call, closeVars, due>>

\* the flag is tested and, when it is clear, the task is called
CallTask(w) ==
    /\ pc[w] = "popped" /\ ~shutdown
    /\ held' = [held EXCEPT ![w] = None]
    /\ \/ /\ held[w] = Scheduler
          /\ Goto(w, "sLoop")
          /\ UNCHANGED fate
       \/ /\ held[w] # Scheduler
          /\ Goto(w, "body")
          /\ fate' = [fate EXCEPT ![held[w]] = "started"]
    /\ UNCHANGED <<queue, delayed, clock, sleepVars, call, closeVars, due>>

SkipTask(w) ==
    /\ pc[w] = "popped" /\ shutdown
    /\ held' = [held EXCEPT ![w] = None]
    /\ fate' = [t \in Tasks |-> IF t = held[w] THEN "dropped" ELSE fate[t]]
    /\ Goto(w, "again")
    /\ UNCHANGED <<queue, delayed, clock, sleepVars, call, closeVars, due>>

\* the task returns, or throws an exception that RunThread logs
FinishTask(w) ==
    /\ pc[w] = "body" /\ call[w] = NoCall
    /\ Goto(w, "again")
    /\ UNCHANGED <<queue, delayed, clock, held, sleepVars, call, closeVars, fate, due>>

TestFlag(w, at, ifSet, ifClear) ==
    /\ pc[w] = at
    /\ Goto(w, IF shutdown THEN ifSet ELSE ifClear)
    /\ UNCHANGED <<queue, delayed, clock, held, sleepVars, call, closeVars, fate, due>>

Again(w) == TestFlag(w, "again", "idle", "poll")
BeforeWait(w) == TestFlag(w, "idle", "done", "park")
AfterWait(w) == TestFlag(w, "woken", "done", "poll")

\* m_cvWork.wait(lock) has no predicate: the queue is not looked at again
Park(w) ==
    /\ pc[w] = "park"
    /\ Goto(w, "parked")
    /\ UNCHANGED <<queue, delayed, clock, held, sleepVars, call, closeVars, fate, due>>

\* a condition variable may also return without having been notified
SpuriousWakeup(w) ==
    /\ \/ pc[w] = "parked" /\ Goto(w, "woken")
       \/ pc[w] = "sleeping" /\ Goto(w, "sLoop")
    /\ UNCHANGED <<queue, delayed, clock, held, sleepVars, call, closeVars, fate, due>>

-----------------------------------------------------------------------------
(* ProcessDelayedTasks.                                                     *)

ScheduleLoop(w) == TestFlag(w, "sLoop", "again", "sMove")
AfterMove(w) == TestFlag(w, "sTest", "again", "sNotify")

\* the length of the longest prefix of m_vDelayedTasks that is due at a time
DueBy(time) ==
    CHOOSE n \in 0..Len(delayed) :
        /\ \A i \in 1..n : delayed[i].when <= time
        /\ n < Len(delayed) => delayed[n + 1].when > time

\* faulty variant: a task is taken to be due one tick early
DueCountOffByOne == DueBy(clock + 1)

DueCount == DueBy(clock)

\* faulty variant: one pop_front too many
MoveDuePopsTwice(w) ==
    /\ pc[w] = "sMove"
    /\ queue' = [i \in 1..DueCount |-> delayed[DueCount + 1 - i].task] \o queue
    /\ delayed' = SubSeq(delayed, DueCount + 2, Len(delayed))
    /\ ready' = [ready EXCEPT ![w] = DueCount]
    /\ Goto(w, "sTest")
    /\ UNCHANGED <<clock, held, deadline, call, closeVars, fate, due>>

\* each due task goes to the FRONT of the queue, so the last one ends up first
MoveDue(w) ==
    /\ pc[w] = "sMove"
    /\ queue' = [i \in 1..DueCount |-> delayed[DueCount + 1 - i].task] \o queue
    /\ delayed' = SubSeq(delayed, DueCount + 1, Len(delayed))
    /\ ready' = [ready EXCEPT ![w] = DueCount]
    /\ Goto(w, "sTest")
    /\ UNCHANGED <<clock, held, deadline, call, closeVars, fate, due>>

\* faulty variant: the counter is decremented past zero
NotifyReadyUnguarded(w) ==
    /\ pc[w] = "sNotify"
    /\ \/ NotifyOne("parked", "woken") /\ ready' = [ready EXCEPT ![w] = @ - 1]
       \/ Goto(w, "sSleep") /\ UNCHANGED ready
    /\ UNCHANGED <<queue, delayed, clock, held, deadline, call, closeVars, fate, due>>

\* m_nThreads stays 0, so m_nThreads - 1 wraps to the largest size_t and the test
\* "nReadyTasks >= m_nThreads - 1" fails: the ready tasks are announced one by one
NotifyReady(w) ==
    /\ pc[w] = "sNotify"
    /\ \/ /\ ready[w] > 0
          /\ NotifyOne("parked", "woken")
          /\ ready' = [ready EXCEPT ![w] = @ - 1]
       \/ /\ ready[w] = 0
          /\ Goto(w, "sSleep")
          /\ UNCHANGED ready
    /\ UNCHANGED <<queue, delayed, clock, held, deadline, call, closeVars, fate, due>>

\* faulty variant: the scheduler returns while one task is left
WaitForNextLeavesOne(w) ==
    /\ pc[w] = "sSleep"
    /\ Goto(w, IF Len(delayed) <= 1 THEN "again" ELSE "sLoop")
    /\ UNCHANGED <<queue, delayed, clock, held, sleepVars, call, closeVars, fate, due>>

\* faulty variant: wait instead of wait_for
WaitForNextForever(w) ==
    /\ pc[w] = "sSleep"
    /\ Goto(w, IF delayed = <<>> THEN "again" ELSE "sleeping")
    /\ deadline' = [deadline EXCEPT ![w] = MaxTime + 1]
    /\ UNCHANGED <<queue, delayed, clock, held, ready, call, closeVars, fate, due>>

WaitForNext(w) ==
    /\ pc[w] = "sSleep"
    /\ \/ /\ delayed = <<>>
          /\ Goto(w, "again")
          /\ UNCHANGED deadline
       \/ /\ delayed # <<>> /\ delayed[1].when > clock
          /\ Goto(w, "sleeping")
          /\ deadline' = [deadline EXCEPT ![w] = delayed[1].when]
       \/ /\ delayed # <<>> /\ delayed[1].when <= clock
          /\ Goto(w, "sLoop")
          /\ UNCHANGED deadline
    /\ UNCHANGED <<queue, delayed, clock, held, ready, call, closeVars, fate, due>>

Timeout(w) ==
    /\ pc[w] = "sleeping" /\ clock >= deadline[w]
    /\ Goto(w, "sLoop")
    /\ UNCHANGED <<queue, delayed, clock, held, sleepVars, call, closeVars, fate, due>>

-----------------------------------------------------------------------------
(* Shutdown. The program calls Shutdown(false) when it starts to close and  *)
(* Shutdown(true) once its windows are gone; the flag is set and the        *)
(* condition variables are notified without the mutex.                      *)

SetFlag ==
    /\ closer = "out" /\ round < MaxRounds
    /\ shutdown' = TRUE
    /\ round' = round + 1
    /\ closer' = "notifyDelayed"
    /\ UNCHANGED <<queue, delayed, clock, pc, held, sleepVars, call, fate, due>>

NotifyAllDelayed ==
    /\ closer = "notifyDelayed"
    /\ NotifyAll("sleeping", "sLoop")
    /\ closer' = "notifyWork"
    /\ UNCHANGED <<queue, delayed, shutdown, clock, held, sleepVars, call, round, fate, due>>

NotifyAllWork ==
    /\ closer = "notifyWork"
    /\ NotifyAll("parked", "woken")
    /\ closer' = IF round = 1 THEN "out" ELSE "join"
    /\ UNCHANGED <<queue, delayed, shutdown, clock, held, sleepVars, call, round, fate, due>>

Join ==
    /\ closer = "join" /\ \A w \in Workers : pc[w] = "done"
    /\ closer' = "joined"
    /\ UNCHANGED <<queue, delayed, shutdown, clock, pc, held, sleepVars, call, round,
                   fate, due>>

Tick ==
    /\ clock < MaxTime
    /\ clock' = clock + 1
    /\ UNCHANGED <<queue, delayed, pc, held, sleepVars, call, closeVars, fate, due>>

-----------------------------------------------------------------------------
\* The functions handed to the pool have no names: whichever is handed in next
\* is the next one of Tasks.
NextNew == CHOOSE t \in Tasks : fate[t] = "new"

Submit(a) == \E t \in Tasks :
    /\ fate[t] = "new" /\ t = NextNew
    /\ Refuse(a, t) \/ RunAsync(a, t) \/ ScheduleAsync(a, t)

Continue(a) == Push(a) \/ Schedule(a) \/ NotifyWork(a) \/ NotifyDelayed(a)

Step(w) ==
    \/ Poll(w) \/ CallTask(w) \/ SkipTask(w) \/ FinishTask(w)
    \/ Again(w) \/ BeforeWait(w) \/ Park(w) \/ AfterWait(w)
    \/ ScheduleLoop(w) \/ MoveDue(w) \/ AfterMove(w) \/ NotifyReady(w)
    \/ WaitForNext(w) \/ Timeout(w)

Close == SetFlag \/ NotifyAllDelayed \/ NotifyAllWork \/ Join

Next ==
    \/ \E a \in Actors : Submit(a) \/ Continue(a)
    \/ \E w \in Workers : Step(w) \/ SpuriousWakeup(w)
    \/ Close
    \/ Tick

Spec == Init /\ [][Next]_vars

\* Every thread that can take a step does so eventually: no thread of the pool
\* holds the mutex for ever and tasks return. Nobody has to submit a task, to
\* shut the pool down, or to be woken without a notification; a Shutdown that
\* has begun runs to its join.
Fairness ==
    /\ \A a \in Actors : WF_vars(Continue(a))
    /\ \A w \in Workers : WF_vars(Step(w))
    /\ WF_vars(Tick)
    /\ WF_vars(NotifyAllDelayed \/ NotifyAllWork \/ Join)

FairSpec == Spec /\ Fairness

-----------------------------------------------------------------------------
TypeOK ==
    /\ queue \in Seq(Work)
    /\ delayed \in Seq(DelayedTask)
    /\ shutdown \in BOOLEAN
    /\ clock \in Time
    /\ pc \in [Workers -> RunThreadPcs \cup SchedulerPcs]
    /\ held \in [Workers -> Work \cup {None}]
    /\ ready \in [Workers -> Nat]
    /\ deadline \in [Workers -> Time]
    /\ call \in [Actors -> Calls]
    /\ closer \in {"out", "notifyDelayed", "notifyWork", "join", "joined"}
    /\ round \in 0..2
    /\ fate \in [Tasks -> {"new", "refused", "accepted", "started", "dropped"}]
    /\ due \in [Tasks -> Time]

\* Where a task can be between its submission and its start.
QueuedAt(t) == {i \in DOMAIN queue : queue[i] = t}
DelayedAt(t) == {i \in DOMAIN delayed : delayed[i].task = t}
HeldBy(t) == {w \in Workers : held[w] = t}
SubmittedBy(t) == {a \in Actors : call[a].task = t}
Copies(t) ==
    Cardinality(QueuedAt(t)) + Cardinality(DelayedAt(t))
        + Cardinality(HeldBy(t)) + Cardinality(SubmittedBy(t))

\* A task that was accepted and has neither started nor been dropped is in
\* exactly one place, and any other task is nowhere: the hand-overs between
\* ScheduleAsync, ProcessDelayedTasks, RunAsync and RunThread lose no task and
\* run none twice, whatever the interleaving.
Custody == \A t \in Tasks : Copies(t) = (IF fate[t] = "accepted" THEN 1 ELSE 0)

\* m_vDelayedTasks stays ordered by tWhen, which is what lets ProcessDelayedTasks
\* stop at the first task that is not due and sleep until its time.
DelayedSorted ==
    \A i, j \in 1..Len(delayed) : i < j => delayed[i].when <= delayed[j].when

\* No task is handed to the workers before its delay has passed.
NeverEarly ==
    \A t \in Tasks : due[t] > clock =>
        fate[t] # "started" /\ QueuedAt(t) = {} /\ HeldBy(t) = {}

\* Workers that are in ProcessDelayedTasks.
Scheduling == {w \in Workers : pc[w] \in SchedulerPcs}

\* While a task waits for its time there is a scheduler: one that a worker runs,
\* has popped or can pop. The test of ScheduleAsync for an empty list and the one
\* that makes ProcessDelayedTasks return must agree for this to hold.
SchedulerPresent ==
    delayed # <<>> /\ ~shutdown =>
        \/ Scheduling # {}
        \/ QueuedAt(Scheduler) # {}
        \/ HeldBy(Scheduler) # {}

\* The first delayed task is not slept through: some scheduler is awake or about
\* to run, or sleeps no longer than until its time, or is about to be notified.
WokenInTime ==
    delayed # <<>> /\ ~shutdown =>
        \/ QueuedAt(Scheduler) # {}
        \/ HeldBy(Scheduler) # {}
        \/ \E w \in Scheduling : pc[w] = "sleeping" => deadline[w] <= delayed[1].when
        \/ \E a \in Actors : call[a].at = "notifyDelayed"

\* A delayed task leaves the list once its time has come, provided a worker runs
\* the scheduler when it is inserted or later and the pool is not shut down.
DueTaskMoved ==
    \A t \in Tasks :
        DelayedAt(t) # {} /\ Scheduling # {} ~> DelayedAt(t) = {} \/ shutdown

\* IThreadPool: RunAsync queues work for a background thread. Queued work that is
\* not overtaken by a shutdown is started.
QueuedWorkStarts ==
    \A t \in Tasks : QueuedAt(t) # {} ~> QueuedAt(t) = {} \/ shutdown

\* IThreadPool: Shutdown(true) waits for the threads to finish and then returns.
ShutdownReturns == closer = "join" ~> closer = "joined"

\* The pool implements the service: whatever the threads do, each task is started
\* at most once, not early, and neither started once the flag is set nor dropped
\* before it is.
Service == INSTANCE TaskService WITH closing <- shutdown
ImplementsService == Service!Spec
=============================================================================
