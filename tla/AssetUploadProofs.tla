------------------------- MODULE AssetUploadProofs -------------------------
(***************************************************************************)
(* Proofs about AssetUpload for any assets, notes, images, any number of   *)
(* threads and any size of a request.                                      *)
(***************************************************************************)
EXTENDS AssetUpload, NatLemmas, SequenceTheorems, FiniteSetTheorems

Places == {"none", "queued", "pick", "send", "receive", "leave", "done"}
Working(t) == thread[t].at \in {"pick", "send", "receive", "leave"}

\* The mutex of the keep-alive is held exactly while a thread uses the view
\* model, and m_vActiveThreads, which it happens to guard, is 0 or 1.
Exclusive ==
    /\ thread \in [Threads -> [at : Places, task : Nat]]
    /\ owner \in Threads \cup {Nobody}
    /\ ui \in {"queueing", "modal", "over", "results", "gone"}
    /\ result \in {"None", "OK", "Cancel"}
    /\ \A t \in Threads : Working(t) <=> owner = t
    /\ active = IF owner = Nobody THEN 0 ELSE 1
    /\ destroyed => owner = Nobody
    /\ ui = "gone" => destroyed
    /\ ui = "queueing" => \A t \in Threads : thread[t].at = "none"

Task == [of : Items \cup Badges, state : {"None", "Running", "Done"}]
Calls == {<< >>} \cup UNION {[set -> Versions] : set \in SUBSET Items}

Typed ==
    /\ tasks \in Seq(Task)
    /\ item \in [Items -> ItemStates]
    /\ complete \in BOOLEAN /\ destroyed \in BOOLEAN /\ cancelled \in BOOLEAN
    /\ call \in [Threads -> Calls]
    /\ model \in [Items -> [now : Versions, local : Versions, server : Versions]]
    /\ held \in [Items -> Versions]
    /\ accepted \in [Items \cup Badges -> Nat]
    /\ lost \subseteq Items \cup Badges
    /\ \A t \in Threads : thread[t].task \in 0..Len(tasks)

LEMMA InitExclusive == Init => Exclusive
BY DEF Init, Exclusive, Working, Places, Threads, Nobody

\* A thread that moves among the places where it works keeps what it holds.
LEMMA WorksOn ==
    ASSUME Exclusive, NEW t \in Threads, Working(t),
           NEW p \in {"pick", "send", "receive", "leave"}, NEW k \in Nat,
           thread' = [thread EXCEPT ![t] = [at |-> p, task |-> k]],
           UNCHANGED <<owner, ui, result, active, destroyed>>
    PROVE  Exclusive'
<1>1. thread' \in [Threads -> [at : Places, task : Nat]]
  BY DEF Exclusive, Places
<1>2. \A s \in Threads : Working(s)' <=> owner = s
  BY DEF Exclusive, Working
<1>3. ui # "queueing"
  BY DEF Exclusive, Working
<1> QED
  BY <1>1, <1>2, <1>3 DEF Exclusive

LEMMA Went ==
    ASSUME Exclusive, NEW t \in Threads, NEW p, Go(t, p)
    PROVE  /\ thread[t].task \in Nat
           /\ thread' = [thread EXCEPT ![t] = [at |-> p, task |-> thread[t].task]]
<1>1. thread[t] \in [at : Places, task : Nat]
  BY DEF Exclusive
<1>2. [thread[t] EXCEPT !.at = p] = [at |-> p, task |-> thread[t].task]
  BY <1>1
<1>3. thread' = [thread EXCEPT ![t] = [thread[t] EXCEPT !.at = p]]
  BY DEF Go
<1> QED
  BY <1>1, <1>2, <1>3

LEMMA FirstWaits ==
    ASSUME tasks \in Seq(Task), Waiting # {}
    PROVE  LET k == CHOOSE k \in Waiting : \A j \in Waiting : k <= j
           IN  k \in 1..Len(tasks) /\ tasks[k].state = "None"
<1>1. Waiting \subseteq 1..Len(tasks) /\ Waiting \subseteq Nat
  BY DEF Waiting
<1>2. \E m \in Waiting : \A j \in Waiting : m <= j
  BY <1>1, LeastNat
<1>3. (CHOOSE k \in Waiting : \A j \in Waiting : k <= j) \in Waiting
  BY <1>2
<1> QED
  BY <1>1, <1>3 DEF Waiting

LEMMA ExclusiveStep == Exclusive /\ Typed /\ [Next]_vars => Exclusive'
<1> SUFFICES ASSUME Exclusive, Typed, [Next]_vars PROVE Exclusive'
  OBVIOUS
<1> DEFINE Same == UNCHANGED <<thread, owner, ui, result, active, destroyed>>
<1>1. CASE Same
  BY <1>1 DEF Exclusive, Working
<1>2. CASE BeginTasks
  <2>1. \A t \in Threads : thread'[t].at \in {"none", "queued"}
    BY <1>2 DEF BeginTasks, Exclusive
  <2>2. thread' \in [Threads -> [at : Places, task : Nat]]
    BY <1>2 DEF BeginTasks, Exclusive, Places
  <2>3. result' \in {"None", "OK", "Cancel"}
    BY <1>2 DEF BeginTasks, Exclusive
  <2>4. \A t \in Threads : owner # t
    BY <1>2 DEF BeginTasks, Exclusive, Working
  <2> QED
    BY <1>2, <2>1, <2>2, <2>3, <2>4 DEF BeginTasks, Exclusive, Working
<1>3. CASE \E t \in Threads : Enter(t)
  <2>1. PICK t \in Threads : Enter(t)
    BY <1>3
  <2>2. thread' = [thread EXCEPT ![t] = [at |-> "pick", task |-> thread[t].task]]
        /\ thread[t].task \in Nat
    BY <2>1, Went DEF Enter
  <2>3. thread' \in [Threads -> [at : Places, task : Nat]]
    BY <2>2 DEF Exclusive, Places
  <2>4. t # Nobody
    BY DEF Threads, Nobody
  <2>5. \A s \in Threads : Working(s)' <=> owner' = s
    BY <2>1, <2>2, <2>4 DEF Enter, Exclusive, Working, Threads, Nobody
  <2>6. ui # "queueing" /\ active' = 1
    BY <2>1 DEF Enter, At, Exclusive
  <2> QED
    BY <2>1, <2>3, <2>4, <2>5, <2>6 DEF Enter, Exclusive
<1>4. CASE \E t \in Threads : Late(t)
  <2>1. PICK t \in Threads : Late(t)
    BY <1>4
  <2>2. thread' = [thread EXCEPT ![t] = [at |-> "done", task |-> thread[t].task]]
        /\ thread[t].task \in Nat
    BY <2>1, Went DEF Late
  <2>3. thread' \in [Threads -> [at : Places, task : Nat]]
    BY <2>2 DEF Exclusive, Places
  <2>4. \A s \in Threads : Working(s)' <=> owner = s
    BY <2>1, <2>2 DEF Late, At, Exclusive, Working
  <2>5. ui # "queueing"
    BY <2>1 DEF Late, At, Exclusive
  <2> QED
    BY <2>1, <2>3, <2>4, <2>5 DEF Late, dialog, Exclusive
<1>5. CASE \E t \in Threads : Leave(t)
  <2>1. PICK t \in Threads : Leave(t)
    BY <1>5
  <2>2. thread' = [thread EXCEPT ![t] = [at |-> "done", task |-> thread[t].task]]
        /\ thread[t].task \in Nat
    BY <2>1, Went DEF Leave
  <2>3. thread' \in [Threads -> [at : Places, task : Nat]]
    BY <2>2 DEF Exclusive, Places
  <2>4. owner = t /\ t # Nobody
    BY <2>1 DEF Leave, At, Exclusive, Working, Threads, Nobody
  <2>5. \A s \in Threads : Working(s)' <=> owner' = s
    BY <2>1, <2>2, <2>4 DEF Leave, Exclusive, Working, Threads, Nobody
  <2>6. ui # "queueing" /\ active' = 0 /\ result' \in {"None", "OK", "Cancel"}
    BY <2>1, <2>4 DEF Leave, At, Exclusive
  <2> QED
    BY <2>1, <2>3, <2>5, <2>6 DEF Leave, Exclusive
<1>6. CASE Cancel \/ Close \/ RestoreLocalCheckpoints \/ Destroy
  BY <1>6 DEF Cancel, Close, RestoreLocalCheckpoints, Destroy, Exclusive, Working
<1>7. ASSUME NEW t \in Threads, Pick(t) PROVE Exclusive'
  <2>1. Working(t)
    BY <1>7 DEF Pick, At, Working
  <2>2. UNCHANGED <<owner, ui, result, active, destroyed>>
    BY <1>7 DEF Pick
  <2>3. CASE Go(t, "leave")
    BY <2>1, <2>2, <2>3, Went, WorksOn
  <2>4. CASE UNCHANGED thread
    BY <2>2, <2>4, <1>1
  <2>5. CASE Waiting # {} /\ thread' = [thread EXCEPT ![t] =
              [at |-> "send",
               task |-> CHOOSE k \in Waiting : \A j \in Waiting : k <= j]]
    <3>1. (CHOOSE k \in Waiting : \A j \in Waiting : k <= j) \in Nat
      BY <2>5, FirstWaits DEF Typed
    <3> QED
      BY <2>1, <2>2, <2>5, <3>1, WorksOn
  <2> QED
    BY <1>7, <2>3, <2>4, <2>5 DEF Pick
<1>8. ASSUME NEW t \in Threads,
             SendBadge(t) \/ SendAsset(t) \/ SendNotes(t) \/ Settle(t)
             \/ Busy(t) \/ Lose(t)
      PROVE  Exclusive'
  <2>1. Working(t)
    BY <1>8 DEF SendBadge, SendAsset, SendNotes, Settle, BadgeUploaded, BadgeRefused,
                AssetUploaded, AssetRefused, NotesUploaded, Busy, Lose, Retry, Sending,
                Receiving, At, Working
  <2>2. UNCHANGED <<owner, ui, result, active, destroyed>>
    BY <1>8 DEF SendBadge, SendAsset, SendNotes, Settle, BadgeUploaded, BadgeRefused,
                AssetUploaded, AssetRefused, NotesUploaded, Busy, Lose, dialog
  <2>3. \E p \in {"pick", "send", "receive"} : Go(t, p)
    BY <1>8 DEF SendBadge, SendAsset, SendNotes, Settle, BadgeUploaded, BadgeRefused,
                AssetUploaded, AssetRefused, NotesUploaded, Busy, Lose, Retry, TaskDone
  <2> QED
    BY <2>1, <2>2, <2>3, Went, WorksOn
<1>9. Same \/ BeginTasks \/ (\E t \in Threads : Enter(t)) \/ (\E t \in Threads : Late(t))
      \/ (\E t \in Threads : Leave(t))
      \/ Cancel \/ Close \/ RestoreLocalCheckpoints \/ Destroy
      \/ (\E t \in Threads : Pick(t))
      \/ \E t \in Threads : \/ SendBadge(t) \/ SendAsset(t) \/ SendNotes(t)
                            \/ Settle(t) \/ Busy(t) \/ Lose(t)
  BY DEF Next, Finish, Work, QueueAsset, QueueMemoryNote, vars, queue, dialog
<1> QED
  BY <1>1, <1>2, <1>3, <1>4, <1>5, <1>6, <1>7, <1>8, <1>9
-----------------------------------------------------------------------------
(* What the tasks, requests and contents have to do with each other        *)

InTask(t) == thread[t].at \in {"send", "receive"}
Open == ui \in {"queueing", "modal"}

\* A task that a thread works on is running; what is uploaded has one task, which
\* is over when it succeeded; an asset waits for its image or has a task.
TasksOK ==
    /\ \A t \in Threads : InTask(t) =>
          thread[t].task \in DOMAIN tasks /\ tasks[thread[t].task].state = "Running"
    /\ \A j, k \in DOMAIN tasks : tasks[j].of = tasks[k].of => j = k
    /\ \A k \in DOMAIN tasks : tasks[k].of \in Items =>
          /\ item[tasks[k].of] # "unqueued"
          /\ item[tasks[k].of] = "Success" /\ tasks[k].of \in Assets =>
                tasks[k].state = "Done"
          /\ Open /\ tasks[k].of \in Assets =>
                item[tasks[k].of] # "WaitingForImage" \/ ~HasLocalBadge(tasks[k].of)
    /\ \A k \in DOMAIN tasks : tasks[k].of \in Badges =>
          \E a \in Assets : BadgeOf[a] = tasks[k].of /\ item[a] # "unqueued"
    /\ ~Open => result # "None" /\ \A t \in Threads : ~InTask(t)

\* A request holds what is there now of what it uploads.
CallsOK ==
    \A t \in Threads : thread[t].at = "receive" =>
        /\ Of(t) \in Assets =>
              DOMAIN call[t] = {Of(t)} /\ call[t][Of(t)] = model[Of(t)].now
        /\ Of(t) \in Notes =>
              /\ DOMAIN call[t] \subseteq Notes
              /\ \A n \in DOMAIN call[t] :
                    item[n] = "Uploading" /\ call[t][n] = model[n].now

\* What succeeded is the server's; everything else is as it was but for its
\* image, until that is reverted.
ModelsOK ==
    \A i \in Items :
        IF item[i] = "Success"
        THEN /\ model[i].now = held[i] /\ model[i].local = held[i]
             /\ model[i].server = held[i]
        ELSE /\ model[i].local = "mine" /\ model[i].server = "old"
             /\ model[i].now \in {"mine", "badged"}
             /\ i \in Notes \/ item[i] = "unqueued" \/ Over => model[i].now = "mine"

\* What the server took it took once, and it is done, or the answer was lost.
AcceptedOK ==
    \A x \in (Items \cup Badges) \ lost :
        /\ accepted[x] <= 1
        /\ ui = "queueing" => accepted[x] = 0
        /\ accepted[x] = 1 /\ x \in Items => item[x] = "Success"
        /\ accepted[x] = 1 /\ x \in Badges =>
              \A k \in DOMAIN tasks : tasks[k].of = x => tasks[k].state = "Done"

IInv == Exclusive /\ Typed /\ TasksOK /\ CallsOK /\ ModelsOK /\ AcceptedOK

LEMMA InitIInv == Init => IInv
<1> SUFFICES ASSUME Init PROVE IInv
  OBVIOUS
<1>1. Exclusive
  BY InitExclusive
<1>2. tasks = << >> /\ DOMAIN tasks = {} /\ Len(tasks) = 0 /\ tasks \in Seq(Task)
  BY DEF Init
<1>3. Typed
  <2>1. call \in [Threads -> Calls]
    BY DEF Init, Calls
  <2>2. \A t \in Threads : thread[t].task = 0
    BY DEF Init
  <2>3. accepted \in [Items \cup Badges -> Nat] /\ lost \subseteq Items \cup Badges
    BY DEF Init
  <2>4. model \in [Items -> [now : Versions, local : Versions, server : Versions]]
    BY DEF Init, Committed, Versions
  <2>5. held \in [Items -> Versions] /\ item \in [Items -> ItemStates]
    BY DEF Init, Versions, ItemStates
  <2>6. \A t \in Threads : thread[t].task \in 0..Len(tasks)
    BY <1>2, <2>2
  <2>7. complete \in BOOLEAN /\ destroyed \in BOOLEAN /\ cancelled \in BOOLEAN
    BY DEF Init
  <2> QED
    BY <1>2, <2>1, <2>3, <2>4, <2>5, <2>6, <2>7 DEF Typed
<1>4. TasksOK
  BY <1>2 DEF Init, TasksOK, Open, InTask
<1>5. CallsOK
  BY DEF Init, CallsOK
<1>6. ModelsOK
  BY DEF Init, ModelsOK, Committed, Over
<1>7. AcceptedOK
  BY DEF Init, AcceptedOK
<1> QED
  BY <1>1, <1>3, <1>4, <1>5, <1>6, <1>7 DEF IInv

-----------------------------------------------------------------------------
(* What the steps do to single variables                                   *)

\* A thread that is in a task is the only one that works.
LEMMA InTaskFacts ==
    ASSUME IInv, NEW t \in Threads, InTask(t)
    PROVE  /\ thread[t].task \in 1..Len(tasks)
           /\ tasks[thread[t].task] \in Task /\ tasks[thread[t].task].state = "Running"
           /\ Of(t) \in Items \cup Badges
           /\ Open /\ ui # "queueing"
           /\ \A s \in Threads : Working(s) => s = t
           /\ Assets \cap Notes = {} /\ Assets \cap Badges = {} /\ Notes \cap Badges = {}
<1>1. /\ thread[t].task \in 1..Len(tasks)
      /\ tasks[thread[t].task].state = "Running"
  BY DEF IInv, TasksOK, Typed
<1>2. tasks[thread[t].task] \in Task
  BY <1>1, ElementOfSeq DEF IInv, Typed
<1>3. Open /\ ui # "queueing"
  BY DEF IInv, TasksOK, Exclusive, InTask
<1>4. \A s \in Threads : Working(s) => s = t
  BY DEF IInv, Exclusive, Working, InTask
<1>5. Assets \cap Notes = {} /\ Assets \cap Badges = {} /\ Notes \cap Badges = {}
  BY UploadAssumption DEF Items
<1> QED
  BY <1>1, <1>2, <1>3, <1>4, <1>5 DEF Of, Task

\* The end of a task, and what it queues.
LEMMA DoneFacts ==
    ASSUME IInv, NEW t \in Threads, InTask(t), NEW more \in Seq(Task), TaskDone(t, more)
    PROVE  /\ tasks' \in Seq(Task) /\ Len(tasks') = Len(tasks) + Len(more)
           /\ \A j \in 1..Len(tasks) :
                 /\ tasks'[j].of = tasks[j].of
                 /\ tasks'[j].state = IF j = thread[t].task THEN "Done" ELSE tasks[j].state
           /\ \A j \in 1..Len(more) : tasks'[Len(tasks) + j] = more[j]
           /\ thread' = [thread EXCEPT ![t] = [at |-> "pick", task |-> thread[t].task]]
           /\ call' \in [Threads -> Calls]
<1> DEFINE k == thread[t].task
           done == [tasks EXCEPT ![k].state = "Done"]
<1>1. k \in 1..Len(tasks) /\ tasks \in Seq(Task) /\ tasks[k] \in Task /\ Len(tasks) \in Nat
  BY InTaskFacts, LenProperties DEF IInv, Typed
<1>2. [tasks[k] EXCEPT !.state = "Done"] = [of |-> tasks[k].of, state |-> "Done"]
      /\ [of |-> tasks[k].of, state |-> "Done"] \in Task
  BY <1>1 DEF Task
<1>3. done = [tasks EXCEPT ![k] = [of |-> tasks[k].of, state |-> "Done"]]
  BY <1>2
<1>4. /\ done \in Seq(Task) /\ Len(done) = Len(tasks)
      /\ \A j \in 1..Len(tasks) :
            done[j] = IF j = k THEN [of |-> tasks[k].of, state |-> "Done"] ELSE tasks[j]
  <2>1. /\ done \in Seq(Task) /\ Len(done) = Len(tasks)
    BY <1>1, <1>2, <1>3, ExceptSeq
  <2> QED
    BY <1>1, <1>3, <2>1
<1>5. tasks' = done \o more
  BY DEF TaskDone
<1>6. /\ tasks' \in Seq(Task) /\ Len(tasks') = Len(tasks) + Len(more)
      /\ \A j \in 1..Len(tasks) : tasks'[j] = done[j]
      /\ \A j \in 1..Len(more) : tasks'[Len(tasks) + j] = more[j]
  <2>1. Len(more) \in Nat
    BY LenProperties
  <2>2. /\ tasks' \in Seq(Task) /\ Len(tasks') = Len(done) + Len(more)
        /\ \A j \in 1..(Len(done) + Len(more)) :
              tasks'[j] = IF j <= Len(done) THEN done[j] ELSE more[j - Len(done)]
    BY <1>4, <1>5, ConcatProperties
  <2>3. \A j \in 1..Len(tasks) : tasks'[j] = done[j]
    BY <1>1, <1>4, <2>1, <2>2, SMTT(30)
  <2>4. ASSUME NEW j \in 1..Len(more) PROVE tasks'[Len(tasks) + j] = more[j]
    <3> HIDE DEF done, k
    <3>1. /\ Len(tasks) + j \in 1..(Len(done) + Len(more))
          /\ ~ (Len(tasks) + j <= Len(done)) /\ Len(tasks) + j - Len(done) = j
      BY <1>1, <1>4, <2>1
    <3> QED
      BY <2>2, <3>1
  <2> QED
    BY <1>4, <2>2, <2>3, <2>4
<1>7. thread' = [thread EXCEPT ![t] = [at |-> "pick", task |-> thread[t].task]]
  BY Went DEF TaskDone, IInv
<1>8. call' \in [Threads -> Calls]
  BY DEF TaskDone, IInv, Typed, Calls
<1>9. ASSUME NEW j \in 1..Len(tasks)
      PROVE  /\ tasks'[j].of = tasks[j].of
             /\ tasks'[j].state = IF j = k THEN "Done" ELSE tasks[j].state
  <2> HIDE DEF done, k
  <2>1. tasks'[j] = IF j = k THEN [of |-> tasks[k].of, state |-> "Done"] ELSE tasks[j]
    BY <1>4, <1>6
  <2> QED
    BY <2>1
<1> QED
  BY <1>6, <1>7, <1>8, <1>9

LEMMA NothingMore == << >> \in Seq(Task) /\ Len(<< >>) = 0
OBVIOUS

\* A new task comes last.
LEMMA QueueFacts ==
    ASSUME IInv, NEW x \in Items \cup Badges, QueueTask(x)
    PROVE  /\ tasks' \in Seq(Task) /\ Len(tasks') = Len(tasks) + 1
           /\ \A j \in 1..Len(tasks) : tasks'[j] = tasks[j]
           /\ tasks'[Len(tasks) + 1] = [of |-> x, state |-> "None"]
           /\ Len(tasks) \in Nat
<1>1. [of |-> x, state |-> "None"] \in Task /\ tasks \in Seq(Task)
  BY DEF Task, IInv, Typed
<1>2. tasks' = Append(tasks, [of |-> x, state |-> "None"])
  BY DEF QueueTask
<1> QED
  BY <1>1, <1>2, AppendProperties, LenProperties

\* What the server takes.
LEMMA AcceptFacts ==
    ASSUME IInv, NEW taken \in SUBSET Items, NEW version,
           \A i \in taken : version[i] \in Versions, Accept(taken, version)
    PROVE  /\ held' \in [Items -> Versions]
           /\ accepted' \in [Items \cup Badges -> Nat]
           /\ \A i \in Items : held'[i] = IF i \in taken THEN version[i] ELSE held[i]
           /\ \A x \in Items \cup Badges :
                 accepted'[x] = IF x \in taken THEN accepted[x] + 1 ELSE accepted[x]
<1>1. DOMAIN accepted = Items \cup Badges
  BY DEF IInv, Typed
<1> QED
  BY <1>1 DEF Accept, IInv, Typed

\* What a request holds.
LEMMA CallFacts ==
    ASSUME IInv, NEW t \in Threads, thread[t].at = "receive", Of(t) \in Items
    PROVE  /\ DOMAIN call[t] \in SUBSET Items
           /\ \A i \in DOMAIN call[t] :
                 /\ call[t][i] \in Versions /\ call[t][i] = model[i].now
                 /\ item[i] # "Success"
<1>1. InTask(t)
  BY DEF InTask
<1>2. CASE Of(t) \in Assets
  <2>1. item[Of(t)] # "Success"
    BY <1>1, <1>2, InTaskFacts DEF IInv, TasksOK, Of, Items
  <2> QED
    BY <1>2, <2>1 DEF IInv, CallsOK, Typed, Items
<1>3. CASE Of(t) \in Notes
  BY <1>3 DEF IInv, CallsOK, Typed, Items
<1> QED
  BY <1>2, <1>3 DEF Items
-----------------------------------------------------------------------------
(* Every step keeps the invariant                                          *)

\* Steps of threads and of the dialog that touch no task and no item.
LEMMA StillStep ==
    ASSUME IInv, Exclusive', UNCHANGED <<tasks, item, call, model, server>>,
           complete' \in BOOLEAN, destroyed' \in BOOLEAN, cancelled' \in BOOLEAN,
           \A t \in Threads :
              /\ thread'[t].task = thread[t].task
              /\ InTask(t)' => InTask(t)
              /\ thread'[t].at = "receive" => thread[t].at = "receive" \/ Of(t) \in Badges,
           Over' => Over, Open' => Open, ui' = "queueing" => ui = "queueing",
           ~Open' => result' # "None" /\ \A t \in Threads : ~InTask(t)'
    PROVE  IInv'
<1>1. \A t \in Threads : Of(t)' = Of(t)
  BY DEF Of
<1>2. Typed'
  BY DEF IInv, Typed, server
<1>3. TasksOK'
  <2>1. \A t \in Threads : InTask(t)' =>
           thread'[t].task \in DOMAIN tasks /\ tasks[thread'[t].task].state = "Running"
    BY DEF IInv, TasksOK
  <2> QED
    BY <2>1 DEF IInv, TasksOK, HasLocalBadge
<1>4. CallsOK'
  <2>1. SUFFICES ASSUME NEW t \in Threads, thread'[t].at = "receive", Of(t) \notin Badges
                 PROVE  /\ Of(t) \in Assets =>
                              DOMAIN call[t] = {Of(t)} /\ call[t][Of(t)] = model[Of(t)].now
                        /\ Of(t) \in Notes =>
                              /\ DOMAIN call[t] \subseteq Notes
                              /\ \A n \in DOMAIN call[t] :
                                    item[n] = "Uploading" /\ call[t][n] = model[n].now
    BY <1>1, UploadAssumption DEF CallsOK, Items
  <2> QED
    BY <2>1 DEF IInv, CallsOK
<1>5. ModelsOK'
  BY DEF IInv, ModelsOK, server
<1>6. AcceptedOK'
  BY DEF IInv, AcceptedOK, server
<1> QED
  BY <1>2, <1>3, <1>4, <1>5, <1>6 DEF IInv

\* A list of tasks that grows by others has each one once.
LEMMA GrowOnce ==
    ASSUME NEW s, NEW r, NEW n \in Nat, NEW m \in Nat,
           DOMAIN s = 1..n, DOMAIN r = 1..(n + m),
           \A j, k \in 1..n : s[j].of = s[k].of => j = k,
           \A j \in 1..n : r[j].of = s[j].of,
           \A j, k \in 1..m : r[n + j].of = r[n + k].of => j = k,
           \A j \in 1..n, k \in 1..m : s[j].of # r[n + k].of
    PROVE  \A j, k \in DOMAIN r : r[j].of = r[k].of => j = k
<1>1. SUFFICES ASSUME NEW j \in 1..(n + m), NEW k \in 1..(n + m), r[j].of = r[k].of
               PROVE  j = k
  OBVIOUS
<1>2. ASSUME NEW i \in 1..(n + m), i \notin 1..n
      PROVE  i - n \in 1..m /\ n + (i - n) = i
  BY <1>2
<1>3. CASE j \in 1..n /\ k \in 1..n
  BY <1>1, <1>3
<1>4. CASE j \in 1..n /\ k \notin 1..n
  <2>1. k - n \in 1..m /\ r[n + (k - n)] = r[k]
    BY <1>2, <1>4
  <2>2. s[j].of # r[n + (k - n)].of
    BY <1>4, <2>1
  <2> QED
    BY <1>1, <1>4, <2>1, <2>2
<1>5. CASE j \notin 1..n /\ k \in 1..n
  <2>1. j - n \in 1..m /\ r[n + (j - n)] = r[j]
    BY <1>2, <1>5
  <2>2. s[k].of # r[n + (j - n)].of
    BY <1>5, <2>1
  <2> QED
    BY <1>1, <1>5, <2>1, <2>2
<1>6. CASE j \notin 1..n /\ k \notin 1..n
  <2>1. /\ j - n \in 1..m /\ r[n + (j - n)] = r[j]
        /\ k - n \in 1..m /\ r[n + (k - n)] = r[k]
    BY <1>2, <1>6
  <2>2. j - n = k - n
    BY <1>1, <2>1
  <2> QED
    BY <1>1, <2>2
<1> QED
  BY <1>3, <1>4, <1>5, <1>6

\* Queueing: an item is taken into the queue, with or without a task.
LEMMA ItemQueued ==
    ASSUME IInv, Exclusive', TasksOK', NEW a \in Items, NEW s \in {"None", "WaitingForImage"},
           ui = "queueing", item[a] = "unqueued", item' = [item EXCEPT ![a] = s],
           UNCHANGED <<dialog, thread, call, model, server>>,
           tasks' \in Seq(Task), Len(tasks') \in Nat, Len(tasks') >= Len(tasks)
    PROVE  IInv'
<1>1. Len(tasks) \in Nat
  BY LenProperties DEF IInv, Typed
<1>2. item' \in [Items -> ItemStates]
  BY DEF IInv, Typed, ItemStates
<1>3. \A t \in Threads : thread'[t].task \in 0..Len(tasks')
  BY <1>1 DEF IInv, Typed
<1>4. Typed'
  BY <1>2, <1>3 DEF IInv, Typed, dialog, server
<1>5. CallsOK'
  BY DEF CallsOK, IInv, Exclusive
<1>6. ModelsOK'
  BY DEF IInv, ModelsOK, Typed, dialog, server, Over
<1>7. AcceptedOK'
  BY DEF IInv, AcceptedOK, server, dialog
<1> QED
  BY <1>4, <1>5, <1>6, <1>7 DEF IInv

LEMMA QueuedWithoutTask ==
    ASSUME IInv, NEW a \in Assets, ui = "queueing", item[a] = "unqueued",
           item' = [item EXCEPT ![a] = "WaitingForImage"],
           UNCHANGED <<tasks, dialog, thread, model>>
    PROVE  TasksOK'
<1>1. \A k \in DOMAIN tasks : tasks[k].of # a
  BY DEF IInv, TasksOK, Items
<1>2. \A i \in Items \ {a} : item'[i] = item[i]
  BY DEF IInv, Typed
<1>3. item'[a] = "WaitingForImage"
  BY DEF IInv, Typed, Items
<1>4. ASSUME NEW k \in DOMAIN tasks, tasks[k].of \in Badges
      PROVE  \E b \in Assets : BadgeOf[b] = tasks[k].of /\ item'[b] # "unqueued"
  <2>1. PICK b \in Assets : BadgeOf[b] = tasks[k].of /\ item[b] # "unqueued"
    BY <1>4 DEF IInv, TasksOK
  <2> QED
    BY <1>2, <2>1 DEF Items
<1>5. /\ Open /\ Open'
      /\ \A t \in Threads : ~InTask(t)'
  BY DEF Open, dialog, InTask, IInv, Exclusive
<1>6. ASSUME NEW k \in DOMAIN tasks, tasks[k].of \in Items
      PROVE  item'[tasks[k].of] = item[tasks[k].of]
  BY <1>1, <1>2, <1>6
<1> QED
  BY <1>4, <1>5, <1>6 DEF IInv, TasksOK, HasLocalBadge

LEMMA QueuedWithTask ==
    ASSUME IInv, NEW a \in Items, NEW s \in {"None", "WaitingForImage"},
           ui = "queueing", item[a] = "unqueued", item' = [item EXCEPT ![a] = s],
           UNCHANGED <<dialog, thread, model>>,
           NEW x \in Items \cup Badges, QueueTask(x),
           \A k \in DOMAIN tasks : tasks[k].of # x,
           \/ x = a /\ s = "None"
           \/ x \in Badges /\ a \in Assets /\ x = BadgeOf[a]
    PROVE  TasksOK'
<1> DEFINE n == Len(tasks)
<1>1. /\ tasks' \in Seq(Task) /\ Len(tasks') = n + 1
      /\ \A j \in 1..n : tasks'[j] = tasks[j]
      /\ tasks'[n + 1] = [of |-> x, state |-> "None"]
      /\ n \in Nat /\ DOMAIN tasks = 1..n /\ DOMAIN tasks' = 1..(n + 1)
  <2>1. tasks \in Seq(Task)
    BY DEF IInv, Typed
  <2> QED
    BY <2>1, QueueFacts, LenProperties
<1> HIDE DEF n
<1>2. \A j, k \in DOMAIN tasks' : tasks'[j].of = tasks'[k].of => j = k
  <2>1. \A j, k \in 1..n : tasks[j].of = tasks[k].of => j = k
    BY <1>1 DEF IInv, TasksOK
  <2>2. \A j \in 1..n, k \in 1..1 : tasks[j].of # tasks'[n + k].of
    BY <1>1
  <2>3. \A j, k \in 1..1 : tasks'[n + j].of = tasks'[n + k].of => j = k
    OBVIOUS
  <2> QED
    BY <1>1, <2>1, <2>2, <2>3, GrowOnce, SMTT(30)
<1>3. \A i \in Items \ {a} : item'[i] = item[i]
  BY DEF IInv, Typed
<1>4. item'[a] = s
  BY DEF IInv, Typed
<1>5. \A k \in 1..n : tasks[k].of # a
  BY <1>1 DEF IInv, TasksOK
<1>6. Open /\ Open' /\ \A t \in Threads : ~InTask(t)'
  BY DEF Open, dialog, InTask, IInv, Exclusive
<1>7. ASSUME NEW k \in 1..(n + 1)
      PROVE  k \in 1..n \/ k = n + 1
  BY <1>1, <1>7
<1>8. ASSUME NEW k \in DOMAIN tasks', tasks'[k].of \in Badges
      PROVE  \E b \in Assets : BadgeOf[b] = tasks'[k].of /\ item'[b] # "unqueued"
  <2>1. CASE k \in 1..n
    <3>1. PICK b \in Assets : BadgeOf[b] = tasks[k].of /\ item[b] # "unqueued"
      BY <1>1, <1>8, <2>1 DEF IInv, TasksOK
    <3> QED
      BY <1>1, <1>3, <2>1, <3>1 DEF Items
  <2>2. CASE k = n + 1
    <3>1. tasks'[k].of = x
      BY <1>1, <2>2
    <3>2. a \in Assets /\ x = BadgeOf[a]
      BY <1>8, <3>1, UploadAssumption
    <3> QED
      BY <1>4, <3>1, <3>2
  <2> QED
    BY <1>1, <1>7, <2>1, <2>2
<1>9. ASSUME NEW k \in DOMAIN tasks', tasks'[k].of \in Items
      PROVE  /\ item'[tasks'[k].of] # "unqueued"
             /\ item'[tasks'[k].of] = "Success" /\ tasks'[k].of \in Assets =>
                   tasks'[k].state = "Done"
             /\ tasks'[k].of \in Assets =>
                   \/ item'[tasks'[k].of] # "WaitingForImage"
                   \/ ~(BadgeOf[tasks'[k].of] # NoBadge /\ model[tasks'[k].of].now # "badged")
  <2>1. CASE k \in 1..n
    <3>1. tasks'[k] = tasks[k] /\ k \in DOMAIN tasks
          /\ item'[tasks[k].of] = item[tasks[k].of]
      BY <1>1, <1>3, <1>5, <1>9, <2>1
    <3> QED
      BY <1>6, <1>9, <3>1 DEF IInv, TasksOK, HasLocalBadge
  <2>2. CASE k = n + 1
    <3>1. tasks'[k].of = x
      BY <1>1, <2>2
    <3>2. x = a /\ s = "None"
      BY <1>9, <3>1, UploadAssumption
    <3> QED
      BY <1>4, <3>1, <3>2
  <2> QED
    BY <1>1, <1>7, <2>1, <2>2
<1> QED
  BY <1>2, <1>6, <1>8, <1>9 DEF TasksOK, HasLocalBadge

LEMMA QueueGrows ==
    ASSUME IInv, NEW x \in Items \cup Badges, QueueTask(x)
    PROVE  /\ tasks' \in Seq(Task) /\ Len(tasks') \in Nat
           /\ Len(tasks') >= Len(tasks)
<1> DEFINE n == Len(tasks)
           m == Len(tasks')
<1>1. tasks' \in Seq(Task) /\ m = n + 1 /\ n \in Nat
  BY QueueFacts
<1> HIDE DEF n, m
<1>2. m \in Nat /\ m >= n
  BY <1>1
<1> QED
  BY <1>1, <1>2 DEF n, m

LEMMA QueueAssetStep ==
    ASSUME IInv, Exclusive', NEW a \in Assets, QueueAsset(a)
    PROVE  IInv'
<1>1. /\ ui = "queueing" /\ item[a] = "unqueued" /\ a \in Items
      /\ UNCHANGED <<dialog, thread, call, model, server>>
  BY DEF QueueAsset, Items
<1>2. tasks \in Seq(Task) /\ Len(tasks) \in Nat
  BY LenProperties DEF IInv, Typed
<1>3. CASE ~HasLocalBadge(a)
  <2>1. item' = [item EXCEPT ![a] = "None"] /\ QueueTask(a)
    BY <1>3 DEF QueueAsset
  <2>2. \A k \in DOMAIN tasks : tasks[k].of # a
    BY <1>1 DEF IInv, TasksOK
  <2>3. TasksOK'
    BY <1>1, <2>1, <2>2, QueuedWithTask
  <2>4. tasks' \in Seq(Task) /\ Len(tasks') \in Nat /\ Len(tasks') >= Len(tasks)
    BY <1>1, <2>1, QueueGrows DEF Items
  <2> QED
    BY <1>1, <2>1, <2>3, <2>4, ItemQueued
<1>4. CASE HasLocalBadge(a)
  <2>1. BadgeOf[a] \in Badges /\ item' = [item EXCEPT ![a] = "WaitingForImage"]
    BY <1>4 DEF QueueAsset, HasLocalBadge, Badges
  <2>2. CASE \E b \in Assets : item[b] # "unqueued" /\ BadgeOf[b] = BadgeOf[a]
    <3>1. UNCHANGED tasks
      BY <1>4, <2>2 DEF QueueAsset
    <3>2. TasksOK'
      BY <1>1, <2>1, <3>1, QueuedWithoutTask
    <3>3. tasks' \in Seq(Task) /\ Len(tasks') \in Nat /\ Len(tasks') >= Len(tasks)
      BY <1>2, <3>1
    <3> QED
      BY <1>1, <2>1, <3>2, <3>3, ItemQueued
  <2>3. CASE ~ \E b \in Assets : item[b] # "unqueued" /\ BadgeOf[b] = BadgeOf[a]
    <3>1. QueueTask(BadgeOf[a])
      BY <1>4, <2>3 DEF QueueAsset
    <3>2. \A k \in DOMAIN tasks : tasks[k].of # BadgeOf[a]
      BY <2>1, <2>3 DEF IInv, TasksOK
    <3>3. TasksOK'
      BY <1>1, <2>1, <3>1, <3>2, QueuedWithTask
    <3>4. tasks' \in Seq(Task) /\ Len(tasks') \in Nat /\ Len(tasks') >= Len(tasks)
      BY <2>1, <3>1, QueueGrows
    <3> QED
      BY <1>1, <2>1, <3>3, <3>4, ItemQueued
  <2> QED
    BY <2>2, <2>3
<1> QED
  BY <1>3, <1>4

LEMMA QueueMemoryNoteStep ==
    ASSUME IInv, Exclusive', NEW n \in Notes, QueueMemoryNote(n)
    PROVE  IInv'
<1>1. n \in Items /\ n \notin Assets /\ n >= n
  BY UploadAssumption DEF Items
<1>2. /\ ui = "queueing" /\ item[n] = "unqueued"
      /\ item' = [item EXCEPT ![n] = "None"] /\ QueueTask(n)
      /\ UNCHANGED <<dialog, thread, call, model, server>>
  BY <1>1 DEF QueueMemoryNote
<1>3. \A k \in DOMAIN tasks : tasks[k].of # n
  BY <1>1, <1>2 DEF IInv, TasksOK
<1>4. TasksOK'
  BY <1>1, <1>2, <1>3, QueuedWithTask
<1>5. tasks \in Seq(Task) /\ Len(tasks) \in Nat
  BY LenProperties DEF IInv, Typed
<1>6. tasks' \in Seq(Task) /\ Len(tasks') \in Nat /\ Len(tasks') >= Len(tasks)
  BY <1>1, <1>2, QueueGrows
<1> QED
  BY <1>1, <1>2, <1>4, <1>6, ItemQueued

-----------------------------------------------------------------------------
(* Steps that touch no task: the dialog, and threads that come, rest and go  *)

LEMMA DialogStep ==
    ASSUME IInv, Exclusive', BeginTasks \/ Cancel \/ Close \/ Destroy
    PROVE  IInv'
<1>1. UNCHANGED <<tasks, item, call, model, server>>
  BY DEF BeginTasks, Cancel, Close, Destroy, queue
<1>2. complete' \in BOOLEAN /\ destroyed' \in BOOLEAN /\ cancelled' \in BOOLEAN
  BY DEF BeginTasks, Cancel, Close, Destroy, IInv, Typed
<1>3. ASSUME NEW t \in Threads
      PROVE  /\ thread'[t].task = thread[t].task
             /\ InTask(t)' => InTask(t)
             /\ thread'[t].at = "receive" => thread[t].at = "receive"
  <2>1. thread[t] \in [at : Places, task : Nat]
    BY DEF IInv, Exclusive
  <2>2. CASE thread'[t] = thread[t]
    BY <2>2 DEF InTask
  <2>3. CASE thread'[t] = [thread[t] EXCEPT !.at = "queued"]
    BY <2>1, <2>3 DEF InTask
  <2> QED
    BY <2>2, <2>3 DEF BeginTasks, Cancel, Close, Destroy
<1>4. /\ Over' => Over
      /\ Open' => Open
      /\ ui' = "queueing" => ui = "queueing"
  BY DEF BeginTasks, Cancel, Close, Destroy, Over, Open
<1>5. ~Open' => result' # "None" /\ \A t \in Threads : ~InTask(t)'
  <2>1. CASE BeginTasks \/ Cancel
    BY <2>1 DEF BeginTasks, Cancel, Open
  <2>2. CASE Close
    <3>1. CASE active # 0
      BY <2>2, <3>1 DEF Close, Open
    <3>2. CASE active = 0
      <4>1. \A t \in Threads : ~Working(t)
        BY <3>2 DEF IInv, Exclusive, Threads, Nobody
      <4> QED
        BY <2>2, <3>2, <4>1 DEF Close, InTask, Working
    <3> QED
      BY <3>1, <3>2
  <2>3. CASE Destroy
    BY <1>3, <2>3 DEF Destroy, Open, IInv, TasksOK
  <2> QED
    BY <2>1, <2>2, <2>3
<1> QED
  BY <1>1, <1>2, <1>3, <1>4, <1>5, StillStep

LEMMA GoStep ==
    ASSUME IInv, Exclusive', NEW t \in Threads, NEW p, Go(t, p),
           UNCHANGED <<tasks, item, call, model, server, ui, destroyed, cancelled>>,
           complete' \in BOOLEAN, result # "None" => result' # "None",
           p \in {"send", "receive"} => InTask(t),
           p = "receive" => thread[t].at = "receive" \/ Of(t) \in Badges
    PROVE  IInv'
<1>1. /\ thread[t].task \in Nat
      /\ thread' = [thread EXCEPT ![t] = [at |-> p, task |-> thread[t].task]]
  BY Went DEF IInv
<1>2. \A s \in Threads : /\ thread'[s].task = thread[s].task
                         /\ thread'[s].at = IF s = t THEN p ELSE thread[s].at
  BY <1>1 DEF IInv, Exclusive
<1>3. \A s \in Threads : InTask(s)' => InTask(s)
  BY <1>2 DEF InTask
<1>4. Open' = Open /\ Over' = Over
  BY DEF Open, Over
<1>5. ~Open' => result' # "None" /\ \A s \in Threads : ~InTask(s)'
  BY <1>3, <1>4 DEF IInv, TasksOK
<1>6. destroyed' \in BOOLEAN /\ cancelled' \in BOOLEAN
  BY DEF IInv, Typed
<1> QED
  BY <1>2, <1>3, <1>4, <1>5, <1>6, StillStep

LEMMA RestStep ==
    ASSUME IInv, Exclusive', NEW t \in Threads,
           Enter(t) \/ Late(t) \/ Leave(t) \/ SendBadge(t) \/ Busy(t)
    PROVE  IInv'
<1>1. complete \in BOOLEAN
  BY DEF IInv, Typed
<1>2. CASE Enter(t)
  BY <1>1, <1>2, GoStep DEF Enter, queue
<1>3. CASE Late(t)
  BY <1>1, <1>3, GoStep DEF Late, queue, dialog
<1>4. CASE Leave(t)
  BY <1>1, <1>4, GoStep DEF Leave, queue
<1>5. CASE SendBadge(t)
  <2>1. InTask(t) /\ Of(t) \in Badges
    BY <1>5 DEF SendBadge, Sending, At, InTask
  <2> QED
    BY <1>1, <1>5, <2>1, GoStep DEF SendBadge, queue, dialog
<1>6. CASE Busy(t)
  <2>1. InTask(t) /\ thread[t].at = "receive"
    BY <1>6 DEF Busy, Retry, At, InTask
  <2> QED
    BY <1>1, <1>6, <2>1, GoStep DEF Busy, Retry, queue, dialog
<1> QED
  BY <1>2, <1>3, <1>4, <1>5, <1>6

LEMMA PickSend ==
    ASSUME IInv, Exclusive', NEW t \in Threads, At(t, "pick"), result = "None",
           NEW k \in 1..Len(tasks), tasks[k].state = "None",
           tasks' = [tasks EXCEPT ![k].state = "Running"],
           thread' = [thread EXCEPT ![t] = [at |-> "send", task |-> k]],
           UNCHANGED <<item, dialog, call, model, server>>
    PROVE  IInv'
<1>1. /\ tasks \in Seq(Task) /\ Len(tasks) \in Nat /\ DOMAIN tasks = 1..Len(tasks)
      /\ tasks[k] \in Task
  BY LenProperties, ElementOfSeq DEF IInv, Typed
<1>2. /\ [tasks[k] EXCEPT !.state = "Running"] = [of |-> tasks[k].of, state |-> "Running"]
      /\ [of |-> tasks[k].of, state |-> "Running"] \in Task
  BY <1>1 DEF Task
<1>3. tasks' = [tasks EXCEPT ![k] = [of |-> tasks[k].of, state |-> "Running"]]
  BY <1>2
<1>4. /\ tasks' \in Seq(Task) /\ Len(tasks') = Len(tasks)
      /\ \A j \in 1..Len(tasks) :
            tasks'[j] = IF j = k THEN [of |-> tasks[k].of, state |-> "Running"]
                                 ELSE tasks[j]
  BY <1>1, <1>2, <1>3, ExceptSeq
<1>5. /\ DOMAIN tasks' = 1..Len(tasks)
      /\ \A j \in 1..Len(tasks) :
            /\ tasks'[j].of = tasks[j].of
            /\ tasks'[j].state = IF j = k THEN "Running" ELSE tasks[j].state
  BY <1>4, LenProperties
<1>6. Open /\ Open' /\ ui' = ui /\ (Over' <=> Over)
  BY DEF IInv, TasksOK, Open, Over, dialog
<1>7. ASSUME NEW s \in Threads, s # t
      PROVE  ~InTask(s) /\ thread'[s] = thread[s] /\ ~InTask(s)' /\ thread'[s].at # "receive"
  BY <1>7 DEF IInv, Exclusive, Working, InTask, At
<1>8. thread'[t].at = "send" /\ thread'[t].task = k
  BY DEF IInv, Exclusive
<1>9. Typed'
  <2>1. \A s \in Threads : thread'[s].task \in 0..Len(tasks')
    BY <1>1, <1>4, <1>7, <1>8 DEF IInv, Typed
  <2> QED
    BY <1>4, <2>1 DEF IInv, Typed, dialog, server
<1>10. TasksOK'
  <2>1. \A s \in Threads : InTask(s)' =>
            thread'[s].task \in DOMAIN tasks' /\ tasks'[thread'[s].task].state = "Running"
    BY <1>5, <1>7, <1>8
  <2>2. \A i, j \in DOMAIN tasks' : tasks'[i].of = tasks'[j].of => i = j
    BY <1>1, <1>5 DEF IInv, TasksOK
  <2>3. ASSUME NEW j \in DOMAIN tasks', tasks'[j].of \in Items
        PROVE  /\ item[tasks[j].of] # "unqueued" /\ tasks[j].of \in Items
               /\ item[tasks[j].of] = "Success" /\ tasks[j].of \in Assets =>
                     tasks'[j].state = "Done"
               /\ tasks[j].of \in Assets =>
                     item[tasks[j].of] # "WaitingForImage" \/ ~HasLocalBadge(tasks[j].of)
    <3>1. tasks[j].of \in Items /\ j \in DOMAIN tasks
      BY <1>1, <1>5, <2>3
    <3>2. item[tasks[j].of] = "Success" /\ tasks[j].of \in Assets => j # k
      BY <3>1 DEF IInv, TasksOK
    <3> QED
      BY <1>1, <1>5, <1>6, <3>1, <3>2 DEF IInv, TasksOK
  <2>4. ASSUME NEW j \in DOMAIN tasks', tasks'[j].of \in Badges
        PROVE  \E a \in Assets : BadgeOf[a] = tasks'[j].of /\ item[a] # "unqueued"
    BY <1>1, <1>5, <2>4 DEF IInv, TasksOK
  <2> QED
    BY <1>5, <1>6, <2>1, <2>2, <2>3, <2>4 DEF TasksOK, HasLocalBadge
<1>11. CallsOK'
  BY <1>7, <1>8 DEF CallsOK
<1>12. ModelsOK'
  BY <1>6 DEF IInv, ModelsOK, server
<1>13. AcceptedOK'
  <2>1. ASSUME NEW x \in (Items \cup Badges) \ lost, accepted[x] = 1, x \in Badges,
               NEW j \in 1..Len(tasks), tasks[j].of = x
        PROVE  tasks'[j].state = "Done"
    <3>1. tasks[j].state = "Done"
      BY <1>1, <2>1 DEF IInv, AcceptedOK
    <3> QED
      BY <1>5, <3>1
  <2> QED
    BY <1>5, <1>6, <2>1 DEF IInv, AcceptedOK, server
<1> QED
  BY <1>9, <1>10, <1>11, <1>12, <1>13 DEF IInv

LEMMA PickStep ==
    ASSUME IInv, Exclusive', NEW t \in Threads, Pick(t)
    PROVE  IInv'
<1>1. complete \in BOOLEAN /\ tasks \in Seq(Task)
  BY DEF IInv, Typed
<1>2. CASE complete \/ result # "None"
  <2>1. Go(t, "leave") /\ UNCHANGED <<tasks, complete>>
    BY <1>2 DEF Pick
  <2>2. UNCHANGED <<item, result, ui, destroyed, cancelled, call, model, server>>
    BY DEF Pick
  <2> QED
    BY <1>1, <2>1, <2>2, GoStep
<1>3. CASE ~(complete \/ result # "None") /\ Waiting = {}
  <2>1. complete' = TRUE /\ UNCHANGED <<tasks, thread>>
    BY <1>3 DEF Pick
  <2>2. UNCHANGED <<item, result, ui, destroyed, cancelled, call, model, server>>
    BY DEF Pick
  <2>3. /\ destroyed' \in BOOLEAN /\ cancelled' \in BOOLEAN
        /\ Open' = Open /\ Over' = Over /\ \A s \in Threads : InTask(s)' = InTask(s)
    BY <2>1, <2>2 DEF IInv, Typed, Open, Over, InTask
  <2>4. ~Open' => result' # "None" /\ \A s \in Threads : ~InTask(s)'
    BY <2>2, <2>3 DEF IInv, TasksOK
  <2> QED
    BY <2>1, <2>2, <2>3, <2>4, StillStep
<1>4. CASE ~(complete \/ result # "None") /\ Waiting # {}
  <2> DEFINE k == CHOOSE k \in Waiting : \A j \in Waiting : k <= j
  <2>1. k \in 1..Len(tasks) /\ tasks[k].state = "None"
    BY <1>1, <1>4, FirstWaits
  <2>2. /\ tasks' = [tasks EXCEPT ![k].state = "Running"]
        /\ thread' = [thread EXCEPT ![t] = [at |-> "send", task |-> k]]
        /\ At(t, "pick") /\ result = "None"
        /\ UNCHANGED <<item, dialog, call, model, server>>
    BY <1>4 DEF Pick, dialog
  <2> QED
    BY <2>1, <2>2, PickSend
<1> QED
  BY <1>2, <1>3, <1>4

\* The end of Publish: what did not succeed is the local checkpoint again.
LEMMA RestoreStep ==
    ASSUME IInv, Exclusive', RestoreLocalCheckpoints
    PROVE  IInv'
<1>1. ~Open /\ ~Open' /\ Over' /\ ~Over /\ ui' # "queueing" /\ ui # "queueing"
  BY DEF RestoreLocalCheckpoints, Open, Over
<1>2. \A t \in Threads : ~InTask(t) /\ ~InTask(t)'
  BY <1>1 DEF RestoreLocalCheckpoints, IInv, TasksOK, InTask
<1>3. /\ UNCHANGED <<tasks, item, complete, active, result, owner, destroyed, cancelled>>
      /\ UNCHANGED <<thread, call, held, accepted, lost>>
  BY DEF RestoreLocalCheckpoints, queue, server
<1>4. ASSUME NEW i \in Items
      PROVE  /\ model'[i] \in [now : Versions, local : Versions, server : Versions]
             /\ model'[i].local = model[i].local /\ model'[i].server = model[i].server
             /\ model'[i].now = IF i \in Assets /\ item[i] # "unqueued"
                                THEN model[i].local ELSE model[i].now
  BY DEF RestoreLocalCheckpoints, IInv, Typed
<1>5. model' \in [Items -> [now : Versions, local : Versions, server : Versions]]
  BY <1>4 DEF RestoreLocalCheckpoints
<1>6. Typed'
  BY <1>3, <1>5 DEF IInv, Typed
<1>7. TasksOK'
  BY <1>1, <1>2, <1>3 DEF IInv, TasksOK
<1>8. CallsOK'
  BY <1>2 DEF CallsOK, InTask
<1>9. ModelsOK'
  BY <1>1, <1>3, <1>4 DEF IInv, ModelsOK, Items
<1>10. AcceptedOK'
  BY <1>1, <1>3 DEF IInv, AcceptedOK
<1> QED
  BY <1>6, <1>7, <1>8, <1>9, <1>10 DEF IInv

-----------------------------------------------------------------------------
(* The tasks                                                               *)

\* A request is sent: it holds what is there now, and notes that go along are
\* marked.
LEMMA SentStep ==
    ASSUME IInv, Exclusive', NEW t \in Threads, thread[t].at = "send", Go(t, "receive"),
           NEW batch \in SUBSET Items,
           call' = [call EXCEPT ![t] = [i \in batch |-> model[i].now]],
           item' \in [Items -> ItemStates],
           \A i \in Items : \/ item'[i] = item[i]
                            \/ i \in Notes /\ item[i] = "None" /\ item'[i] = "Uploading",
           Of(t) \in Assets => batch = {Of(t)},
           Of(t) \in Notes => batch \subseteq Notes /\ \A i \in batch : item'[i] = "Uploading",
           UNCHANGED <<tasks, dialog, model, server>>
    PROVE  IInv'
<1>1. /\ thread[t].task \in Nat
      /\ thread' = [thread EXCEPT ![t] = [at |-> "receive", task |-> thread[t].task]]
  BY Went DEF IInv
<1>2. InTask(t) /\ Working(t)
  BY DEF InTask, Working
<1>3. \A s \in Threads : /\ thread'[s].task = thread[s].task
                         /\ thread'[s].at = IF s = t THEN "receive" ELSE thread[s].at
  BY <1>1 DEF IInv, Exclusive
<1>4. \A s \in Threads : s # t => ~InTask(s) /\ thread'[s].at # "receive"
  BY <1>2, <1>3, InTaskFacts DEF InTask, Working
<1>5. \A s \in Threads : InTask(s)' => s = t
  BY <1>3, <1>4 DEF InTask
<1>6. Open /\ Open' /\ ~Over /\ ~Over' /\ ui' = ui /\ ui # "queueing"
  BY <1>2, InTaskFacts DEF Open, Over, dialog
<1>7. Assets \cap Notes = {} /\ Of(t)' = Of(t)
  BY <1>2, <1>3, InTaskFacts DEF Of
<1>8. Typed'
  <2>1. [i \in batch |-> model[i].now] \in Calls
    BY DEF Calls, IInv, Typed
  <2>2. call' \in [Threads -> Calls]
    BY <2>1 DEF IInv, Typed
  <2> QED
    BY <1>3, <2>2 DEF IInv, Typed, dialog, server
<1>9. TasksOK'
  <2>1. \A s \in Threads : InTask(s)' =>
            thread'[s].task \in DOMAIN tasks /\ tasks[thread'[s].task].state = "Running"
    BY <1>2, <1>3, <1>5 DEF IInv, TasksOK
  <2>2. ASSUME NEW k \in DOMAIN tasks, tasks[k].of \in Items
        PROVE  /\ item'[tasks[k].of] # "unqueued"
               /\ item'[tasks[k].of] = "Success" /\ tasks[k].of \in Assets =>
                     tasks[k].state = "Done"
               /\ tasks[k].of \in Assets =>
                     item'[tasks[k].of] # "WaitingForImage" \/ ~HasLocalBadge(tasks[k].of)
    BY <1>6, <1>7, <2>2 DEF IInv, TasksOK
  <2>3. ASSUME NEW k \in DOMAIN tasks, tasks[k].of \in Badges
        PROVE  \E a \in Assets : BadgeOf[a] = tasks[k].of /\ item'[a] # "unqueued"
    <3>1. PICK a \in Assets : BadgeOf[a] = tasks[k].of /\ item[a] # "unqueued"
      BY <2>3 DEF IInv, TasksOK
    <3> QED
      BY <1>7, <3>1 DEF Items
  <2> QED
    BY <1>6, <2>1, <2>2, <2>3 DEF IInv, TasksOK, HasLocalBadge
<1>10. CallsOK'
  <2>1. call'[t] = [i \in batch |-> model[i].now]
    BY DEF IInv, Typed
  <2>2. /\ Of(t) \in Assets =>
              DOMAIN call'[t] = {Of(t)} /\ call'[t][Of(t)] = model[Of(t)].now
        /\ Of(t) \in Notes =>
              /\ DOMAIN call'[t] \subseteq Notes
              /\ \A n \in DOMAIN call'[t] :
                    item'[n] = "Uploading" /\ call'[t][n] = model[n].now
    BY <2>1
  <2>3. \A s \in Threads : thread'[s].at = "receive" => s = t
    BY <1>4
  <2> QED
    BY <1>7, <2>2, <2>3, ZenonT(40) DEF CallsOK
<1>11. ModelsOK'
  BY <1>6 DEF IInv, ModelsOK, server
<1>12. AcceptedOK'
  BY <1>6 DEF IInv, AcceptedOK, server
<1> QED
  BY <1>8, <1>9, <1>10, <1>11, <1>12 DEF IInv

LEMMA SendAssetStep ==
    ASSUME IInv, Exclusive', NEW t \in Threads, SendAsset(t)
    PROVE  IInv'
<1>1. /\ thread[t].at = "send" /\ Of(t) \in Assets /\ Go(t, "receive")
      /\ call' = [call EXCEPT ![t] = [i \in {Of(t)} |-> model[i].now]]
      /\ UNCHANGED <<tasks, item, dialog, model, server>>
  BY DEF SendAsset, Sending, At, queue
<1>2. {Of(t)} \in SUBSET Items /\ Of(t) \notin Notes
  BY <1>1, UploadAssumption DEF Items
<1>3. item' \in [Items -> ItemStates]
  BY <1>1 DEF IInv, Typed
<1> DEFINE batch == {Of(t)}
<1>4. batch \in SUBSET Items /\ (Of(t) \in Assets => batch = {Of(t)})
      /\ call' = [call EXCEPT ![t] = [i \in batch |-> model[i].now]]
  BY <1>1, <1>2
<1> HIDE DEF batch
<1> QED
  BY <1>1, <1>2, <1>3, <1>4, SentStep

\* The end of a task, for the thread that worked on it.
LEMMA AfterTask ==
    ASSUME IInv, Exclusive', NEW t \in Threads, InTask(t), NEW more \in Seq(Task),
           TaskDone(t, more), UNCHANGED dialog
    PROVE  /\ Open /\ Open' /\ ui' = ui /\ ui # "queueing" /\ ~Over'
           /\ \A s \in Threads : ~InTask(s)'
           /\ CallsOK'
           /\ tasks' \in Seq(Task) /\ call' \in [Threads -> Calls]
           /\ \A s \in Threads : thread'[s].task \in 0..Len(tasks')
<1>1. /\ tasks' \in Seq(Task) /\ Len(tasks') = Len(tasks) + Len(more)
      /\ thread' = [thread EXCEPT ![t] = [at |-> "pick", task |-> thread[t].task]]
      /\ call' \in [Threads -> Calls]
  BY DoneFacts
<1>2. /\ Open /\ ui # "queueing" /\ \A s \in Threads : Working(s) => s = t
      /\ thread[t].task \in 1..Len(tasks)
  BY InTaskFacts
<1>3. \A s \in Threads : /\ thread'[s].task = thread[s].task
                         /\ s # t => thread'[s].at = thread[s].at
                         /\ thread'[t].at = "pick"
  BY <1>1, <1>2 DEF IInv, Exclusive
<1>4. \A s \in Threads : thread'[s].at \notin {"send", "receive"}
  BY <1>2, <1>3 DEF Working
<1>5. Len(tasks) \in Nat /\ Len(more) \in Nat
  BY LenProperties DEF IInv, Typed
<1>6. \A s \in Threads : thread'[s].task \in 0..Len(tasks')
  <2> DEFINE n == Len(tasks)
             m == Len(more)
             l == Len(tasks')
  <2>1. \A s \in Threads : thread'[s].task \in 0..n
    BY <1>3 DEF IInv, Typed
  <2>2. l = n + m /\ n \in Nat /\ m \in Nat
    BY <1>1, <1>5
  <2> HIDE DEF n, m, l
  <2>3. \A s \in Threads : thread'[s].task \in 0..l
    BY <2>1, <2>2
  <2> QED
    BY <2>3 DEF l
<1>7. Open' /\ ui' = ui /\ ~Over'
  BY <1>2 DEF Open, Over, dialog
<1> QED
  BY <1>1, <1>2, <1>4, <1>6, <1>7 DEF InTask, CallsOK

\* A task that queues nothing more.
LEMMA DoneTasksOK ==
    ASSUME IInv, Exclusive', NEW t \in Threads, InTask(t), TaskDone(t, << >>),
           UNCHANGED dialog,
           \A i \in Items : item[i] # "unqueued" => item'[i] # "unqueued",
           \A a \in Assets : item'[a] = "Success" => item[a] = "Success" \/ a = Of(t),
           \A a \in Assets : item'[a] = "WaitingForImage" /\ model'[a].now # "badged" =>
                                item[a] = "WaitingForImage" /\ model[a].now # "badged"
    PROVE  /\ TasksOK'
           /\ \A x \in Badges :
                 x = Of(t) \/ (\A k \in DOMAIN tasks : tasks[k].of = x => tasks[k].state = "Done")
                 => \A k \in DOMAIN tasks' : tasks'[k].of = x => tasks'[k].state = "Done"
<1> DEFINE n == Len(tasks)
           c == thread[t].task
<1>1. /\ DOMAIN tasks = 1..n /\ n \in Nat
  BY LenProperties DEF IInv, Typed
<1>2. c \in 1..n /\ Of(t) = tasks[c].of
  BY InTaskFacts DEF Of
<1>3. /\ DOMAIN tasks' = 1..n
      /\ \A j \in 1..n : /\ tasks'[j].of = tasks[j].of
                         /\ tasks'[j].state = IF j = c THEN "Done" ELSE tasks[j].state
  <2>1. /\ tasks' \in Seq(Task) /\ Len(tasks') = n + 0
        /\ \A j \in 1..n : /\ tasks'[j].of = tasks[j].of
                           /\ tasks'[j].state = IF j = c THEN "Done" ELSE tasks[j].state
    BY DoneFacts, NothingMore
  <2>2. Len(tasks') = n
    BY <1>1, <2>1
  <2> QED
    BY <2>1, <2>2, LenProperties
<1> HIDE DEF n, c
<1>4. /\ Open /\ Open' /\ \A s \in Threads : ~InTask(s)'
  BY AfterTask, NothingMore
<1>5. \A j, k \in 1..n : tasks[j].of = tasks[k].of => j = k
  BY <1>1 DEF IInv, TasksOK
<1>6. ASSUME NEW j \in 1..n, tasks[j].of \in Items
      PROVE  /\ item'[tasks[j].of] # "unqueued"
             /\ item'[tasks[j].of] = "Success" /\ tasks[j].of \in Assets =>
                   tasks'[j].state = "Done"
             /\ tasks[j].of \in Assets =>
                   item'[tasks[j].of] # "WaitingForImage"
                   \/ ~(BadgeOf[tasks[j].of] # NoBadge /\ model'[tasks[j].of].now # "badged")
  <2>1. /\ item[tasks[j].of] # "unqueued"
        /\ item[tasks[j].of] = "Success" /\ tasks[j].of \in Assets => tasks[j].state = "Done"
        /\ tasks[j].of \in Assets =>
              item[tasks[j].of] # "WaitingForImage"
              \/ ~(BadgeOf[tasks[j].of] # NoBadge /\ model[tasks[j].of].now # "badged")
    BY <1>1, <1>4, <1>6 DEF IInv, TasksOK, HasLocalBadge
  <2>2. tasks[j].of = Of(t) => tasks'[j].state = "Done"
    BY <1>2, <1>3, <1>5
  <2>3. tasks[j].state = "Done" => tasks'[j].state = "Done"
    BY <1>3
  <2> QED
    BY <1>6, <2>1, <2>2, <2>3
<1>7. ASSUME NEW j \in 1..n, tasks[j].of \in Badges
      PROVE  \E a \in Assets : BadgeOf[a] = tasks[j].of /\ item'[a] # "unqueued"
  <2>1. PICK a \in Assets : BadgeOf[a] = tasks[j].of /\ item[a] # "unqueued"
    BY <1>1, <1>7 DEF IInv, TasksOK
  <2> QED
    BY <2>1 DEF Items
<1>8. TasksOK'
  BY <1>3, <1>4, <1>5, <1>6, <1>7 DEF TasksOK, HasLocalBadge
<1>9. ASSUME NEW x \in Badges,
             x = Of(t) \/ \A k \in DOMAIN tasks : tasks[k].of = x => tasks[k].state = "Done",
             NEW k \in DOMAIN tasks', tasks'[k].of = x
      PROVE  tasks'[k].state = "Done"
  BY <1>1, <1>2, <1>3, <1>5, <1>9
<1> QED
  BY <1>8, <1>9

\* What a note's task and its notes are marked with changes no asset.
LEMMA SendNotesStep ==
    ASSUME IInv, Exclusive', NEW t \in Threads, SendNotes(t)
    PROVE  IInv'
<1>1. /\ thread[t].at = "send" /\ Of(t) \in Notes /\ InTask(t)
      /\ UNCHANGED <<dialog, model, server>>
  BY DEF SendNotes, Sending, At, InTask
<1>2. Of(t) \in Items /\ Of(t) \notin Assets
  BY <1>1, UploadAssumption DEF Items
<1>3. CASE item[Of(t)] # "None"
  <2>1. TaskDone(t, << >>) /\ UNCHANGED item
    BY <1>3 DEF SendNotes
  <2>2. TasksOK' /\ \A x \in Badges :
            x = Of(t) \/ (\A k \in DOMAIN tasks : tasks[k].of = x => tasks[k].state = "Done")
            => \A k \in DOMAIN tasks' : tasks'[k].of = x => tasks'[k].state = "Done"
    BY <1>1, <2>1, DoneTasksOK
  <2>3. /\ CallsOK' /\ ui' = ui /\ ui # "queueing" /\ ~Over' /\ ~Over
        /\ tasks' \in Seq(Task) /\ call' \in [Threads -> Calls]
        /\ \A s \in Threads : thread'[s].task \in 0..Len(tasks')
    BY <1>1, <2>1, AfterTask, NothingMore DEF Over
  <2>4. Typed'
    BY <1>1, <2>1, <2>3 DEF IInv, Typed, dialog, server
  <2>5. ModelsOK'
    BY <1>1, <2>1, <2>3 DEF IInv, ModelsOK, server
  <2>6. AcceptedOK'
    BY <1>1, <2>1, <2>2, <2>3 DEF IInv, AcceptedOK, server
  <2> QED
    BY <2>2, <2>3, <2>4, <2>5, <2>6 DEF IInv
<1>4. CASE item[Of(t)] = "None"
  <2> DEFINE batch == {Of(t)} \cup Along(Of(t))
  <2>1. /\ call' = [call EXCEPT ![t] = [n \in batch |-> model[n].now]]
        /\ item' = [i \in Items |-> IF i \in batch THEN "Uploading" ELSE item[i]]
        /\ Go(t, "receive") /\ UNCHANGED tasks
    BY <1>4 DEF SendNotes
  <2>2. Along(Of(t)) \subseteq {m \in Notes : item[m] = "None"}
    BY DEF Along
  <2>3. batch \subseteq Notes /\ batch \in SUBSET Items /\ \A i \in batch : item[i] = "None"
    BY <1>1, <1>4, <2>2 DEF Items
  <2> HIDE DEF batch
  <2>4. item' \in [Items -> ItemStates]
    BY <2>1 DEF IInv, Typed, ItemStates
  <2>5. \A i \in Items : \/ item'[i] = item[i]
                         \/ i \in Notes /\ item[i] = "None" /\ item'[i] = "Uploading"
    BY <2>1, <2>3
  <2>6. \A i \in batch : item'[i] = "Uploading"
    BY <2>1, <2>3
  <2> QED
    BY <1>1, <1>2, <2>1, <2>3, <2>4, <2>5, <2>6, SentStep
<1> QED
  BY <1>3, <1>4

\* The server has taken the task of a thread only if the answer was lost.
LEMMA NotYetAccepted ==
    ASSUME IInv, NEW t \in Threads, thread[t].at = "receive", Of(t) \notin lost
    PROVE  /\ Of(t) \notin Notes => accepted[Of(t)] = 0
<1>1. InTask(t)
  BY DEF InTask
<1>2. /\ thread[t].task \in DOMAIN tasks /\ tasks[thread[t].task].state = "Running"
      /\ Of(t) = tasks[thread[t].task].of /\ Of(t) \in Items \cup Badges
  <2>1. tasks \in Seq(Task)
    BY DEF IInv, Typed
  <2> QED
    BY <1>1, <2>1, InTaskFacts, LenProperties DEF Of
<1>3. accepted[Of(t)] \in Nat /\ accepted[Of(t)] <= 1
  BY <1>2 DEF IInv, Typed, AcceptedOK
<1>4. ASSUME Of(t) \in Assets PROVE accepted[Of(t)] # 1
  BY <1>2, <1>4 DEF IInv, TasksOK, AcceptedOK, Items
<1>5. ASSUME Of(t) \in Badges PROVE accepted[Of(t)] # 1
  BY <1>2, <1>5 DEF IInv, AcceptedOK
<1>6. Of(t) \notin Notes => accepted[Of(t)] # 1
  BY <1>2, <1>4, <1>5 DEF Items
<1> QED
  BY <1>3, <1>6

LEMMA RefusedStep ==
    ASSUME IInv, Exclusive', NEW t \in Threads, thread[t].at = "receive",
           TaskDone(t, << >>), UNCHANGED <<dialog, model, server>>,
           NEW failed \in SUBSET Assets,
           \A i \in failed : item[i] # "Success" /\ item[i] # "unqueued",
           item' = [i \in Items |-> IF i \in failed THEN "Failed" ELSE item[i]]
    PROVE  IInv'
<1>1. InTask(t)
  BY DEF InTask
<1>2. \A i \in Items : item'[i] = IF i \in failed THEN "Failed" ELSE item[i]
  OBVIOUS
<1>3. Assets \subseteq Items /\ Assets \cap Notes = {}
  BY UploadAssumption DEF Items
<1>4. TasksOK' /\ \A x \in Badges :
          x = Of(t) \/ (\A k \in DOMAIN tasks : tasks[k].of = x => tasks[k].state = "Done")
          => \A k \in DOMAIN tasks' : tasks'[k].of = x => tasks'[k].state = "Done"
  <2>1. \A i \in Items : item[i] # "unqueued" => item'[i] # "unqueued"
    BY <1>2
  <2>2. \A a \in Assets : item'[a] = "Success" => item[a] = "Success" \/ a = Of(t)
    BY <1>2, <1>3
  <2>3. \A a \in Assets : item'[a] = "WaitingForImage" /\ model'[a].now # "badged" =>
                             item[a] = "WaitingForImage" /\ model[a].now # "badged"
    BY <1>2, <1>3
  <2> QED
    BY <1>1, <2>1, <2>2, <2>3, DoneTasksOK
<1>5. /\ CallsOK' /\ ui' = ui /\ ui # "queueing" /\ ~Over' /\ ~Over
      /\ tasks' \in Seq(Task) /\ call' \in [Threads -> Calls]
      /\ \A s \in Threads : thread'[s].task \in 0..Len(tasks')
  BY <1>1, AfterTask, NothingMore DEF Over
<1>6. Typed'
  <2>1. item' \in [Items -> ItemStates]
    BY DEF IInv, Typed, ItemStates
  <2> QED
    BY <1>5, <2>1 DEF IInv, Typed, dialog, server
<1>7. ModelsOK'
  BY <1>2, <1>3, <1>5 DEF IInv, ModelsOK, server
<1>8. AcceptedOK'
  BY <1>2, <1>4, <1>5 DEF IInv, AcceptedOK, server
<1> QED
  BY <1>4, <1>5, <1>6, <1>7, <1>8 DEF IInv

LEMMA BadgeRefusedStep ==
    ASSUME IInv, Exclusive', NEW t \in Threads, BadgeRefused(t)
    PROVE  IInv'
<1> DEFINE failed == WaitingFor(Of(t))
<1>1. /\ thread[t].at = "receive" /\ TaskDone(t, << >>)
      /\ UNCHANGED <<dialog, model, server>>
  BY DEF BadgeRefused, Receiving, At
<1>2. failed \in SUBSET Assets /\ \A i \in failed : item[i] = "WaitingForImage"
  BY DEF WaitingFor
<1>3. item' = [i \in Items |-> IF i \in failed THEN "Failed" ELSE item[i]]
  BY <1>2 DEF BadgeRefused
<1> HIDE DEF failed
<1> QED
  BY <1>1, <1>2, <1>3, RefusedStep

LEMMA AssetRefusedStep ==
    ASSUME IInv, Exclusive', NEW t \in Threads, AssetRefused(t)
    PROVE  IInv'
<1>1. /\ thread[t].at = "receive" /\ TaskDone(t, << >>) /\ Of(t) \in Assets
      /\ UNCHANGED <<dialog, model, server>>
  BY DEF AssetRefused, Receiving, At
<1>2. item' = [i \in Items |-> IF i \in {Of(t)} THEN "Failed" ELSE item[i]]
  BY DEF AssetRefused, IInv, Typed
<1>3. {Of(t)} \in SUBSET Assets /\ item[Of(t)] # "Success" /\ item[Of(t)] # "unqueued"
  <2>1. InTask(t) /\ Of(t) \in Items
    BY <1>1 DEF InTask, Items
  <2> QED
    BY <1>1, <2>1 DEF IInv, TasksOK, Of
<1> DEFINE failed == {Of(t)}
<1>4. failed \in SUBSET Assets /\ (\A i \in failed : item[i] # "Success" /\ item[i] # "unqueued")
      /\ item' = [i \in Items |-> IF i \in failed THEN "Failed" ELSE item[i]]
  BY <1>2, <1>3
<1> HIDE DEF failed
<1> QED
  BY <1>1, <1>4, RefusedStep

LEMMA PublishedIs ==
    ASSUME NEW m \in [now : Versions, local : Versions, server : Versions]
    PROVE  /\ Published(m) \in [now : Versions, local : Versions, server : Versions]
           /\ Published(m).now = m.now /\ Published(m).local = m.now
           /\ Published(m).server = m.now
<1>1. /\ DOMAIN m = {"now", "local", "server"}
      /\ m.now \in Versions /\ m.local \in Versions /\ m.server \in Versions
  OBVIOUS
<1>2. /\ Published(m).now = m.now /\ Published(m).local = m.now
      /\ Published(m).server = m.now
  BY <1>1 DEF Published
<1>3. Published(m) \in [now : Versions, local : Versions, server : Versions]
  BY DEF Published
<1> QED
  BY <1>2, <1>3

\* What the server takes of a request succeeds, and is what there is now; what it
\* denies fails.
LEMMA AcceptedStep ==
    ASSUME IInv, Exclusive', NEW t \in Threads, thread[t].at = "receive", Of(t) \in Items,
           TaskDone(t, << >>), UNCHANGED <<dialog, lost>>,
           NEW taken \in SUBSET DOMAIN call[t], NEW denied \in SUBSET Notes,
           denied \subseteq DOMAIN call[t],
           taken \subseteq Notes \/ taken = {Of(t)}, taken \cap denied = {},
           Accept(taken, call[t]),
           model' = [i \in Items |-> IF i \in taken THEN Published(model[i]) ELSE model[i]],
           item' = [i \in Items |-> IF i \in taken THEN "Success"
                                    ELSE IF i \in denied THEN "Failed" ELSE item[i]]
    PROVE  IInv'
<1>1. InTask(t) /\ Assets \subseteq Items /\ Notes \subseteq Items /\ Assets \cap Notes = {}
  BY UploadAssumption DEF InTask, Items
<1>2. /\ taken \in SUBSET Items /\ denied \in SUBSET Items
      /\ \A i \in taken \cup denied : item[i] # "Success"
      /\ \A i \in taken : call[t][i] \in Versions /\ call[t][i] = model[i].now
  BY CallFacts
<1>3. /\ held' \in [Items -> Versions] /\ accepted' \in [Items \cup Badges -> Nat]
      /\ \A i \in Items : held'[i] = IF i \in taken THEN model[i].now ELSE held[i]
      /\ \A x \in Items \cup Badges :
            accepted'[x] = IF x \in taken THEN accepted[x] + 1 ELSE accepted[x]
  <2>1. /\ held' \in [Items -> Versions] /\ accepted' \in [Items \cup Badges -> Nat]
        /\ \A i \in Items : held'[i] = IF i \in taken THEN call[t][i] ELSE held[i]
        /\ \A x \in Items \cup Badges :
              accepted'[x] = IF x \in taken THEN accepted[x] + 1 ELSE accepted[x]
    BY <1>2, AcceptFacts
  <2> QED
    BY <1>2, <2>1
<1>4. \A i \in Items : item'[i] = IF i \in taken THEN "Success"
                                  ELSE IF i \in denied THEN "Failed" ELSE item[i]
  OBVIOUS
<1>5. ASSUME NEW i \in Items
      PROVE  /\ model'[i] \in [now : Versions, local : Versions, server : Versions]
             /\ i \in taken => /\ model'[i].now = model[i].now
                               /\ model'[i].local = model[i].now
                               /\ model'[i].server = model[i].now
             /\ i \notin taken => model'[i] = model[i]
  <2>1. model[i] \in [now : Versions, local : Versions, server : Versions]
    BY DEF IInv, Typed
  <2>2. model'[i] = IF i \in taken THEN Published(model[i]) ELSE model[i]
    OBVIOUS
  <2> QED
    BY <2>1, <2>2, PublishedIs
<1>6. TasksOK' /\ \A x \in Badges :
          x = Of(t) \/ (\A k \in DOMAIN tasks : tasks[k].of = x => tasks[k].state = "Done")
          => \A k \in DOMAIN tasks' : tasks'[k].of = x => tasks'[k].state = "Done"
  <2>1. \A i \in Items : item[i] # "unqueued" => item'[i] # "unqueued"
    BY <1>4
  <2>2. \A a \in Assets : item'[a] = "Success" => item[a] = "Success" \/ a = Of(t)
    BY <1>1, <1>4
  <2>3. \A a \in Assets : item'[a] = "WaitingForImage" /\ model'[a].now # "badged" =>
                             item[a] = "WaitingForImage" /\ model[a].now # "badged"
    BY <1>1, <1>4, <1>5
  <2> QED
    BY <1>1, <2>1, <2>2, <2>3, DoneTasksOK
<1>7. /\ CallsOK' /\ ui' = ui /\ ui # "queueing" /\ ~Over' /\ ~Over
      /\ tasks' \in Seq(Task) /\ call' \in [Threads -> Calls]
      /\ \A s \in Threads : thread'[s].task \in 0..Len(tasks')
  BY <1>1, AfterTask, NothingMore DEF Over
<1>8. Typed'
  <2>1. item' \in [Items -> ItemStates]
    BY DEF IInv, Typed, ItemStates
  <2>2. model' \in [Items -> [now : Versions, local : Versions, server : Versions]]
    BY <1>5
  <2> QED
    BY <1>3, <1>7, <2>1, <2>2 DEF IInv, Typed, dialog
<1>9. ModelsOK'
  <2>1. SUFFICES ASSUME NEW i \in Items
                 PROVE  IF item'[i] = "Success"
                        THEN /\ model'[i].now = held'[i] /\ model'[i].local = held'[i]
                             /\ model'[i].server = held'[i]
                        ELSE /\ model'[i].local = "mine" /\ model'[i].server = "old"
                             /\ model'[i].now \in {"mine", "badged"}
                             /\ i \in Notes \/ item'[i] = "unqueued" \/ Over' =>
                                    model'[i].now = "mine"
    BY DEF ModelsOK
  <2>2. CASE i \in taken
    BY <1>3, <1>4, <1>5, <2>2
  <2>3. CASE i \in denied /\ i \notin taken
    BY <1>2, <1>4, <1>5, <1>7, <2>3 DEF IInv, ModelsOK
  <2>4. CASE i \notin denied /\ i \notin taken
    BY <1>3, <1>4, <1>5, <1>7, <2>4 DEF IInv, ModelsOK
  <2> QED
    BY <2>2, <2>3, <2>4
<1>10. AcceptedOK'
  <2>1. SUFFICES ASSUME NEW x \in (Items \cup Badges) \ lost
                 PROVE  /\ accepted'[x] <= 1
                        /\ accepted'[x] = 1 /\ x \in Items => item'[x] = "Success"
                        /\ accepted'[x] = 1 /\ x \in Badges =>
                              \A k \in DOMAIN tasks' :
                                 tasks'[k].of = x => tasks'[k].state = "Done"
    BY <1>7 DEF AcceptedOK
  <2>2. /\ accepted[x] \in Nat /\ accepted[x] <= 1
        /\ accepted[x] = 1 /\ x \in Items => item[x] = "Success"
        /\ accepted[x] = 1 /\ x \in Badges =>
              \A k \in DOMAIN tasks : tasks[k].of = x => tasks[k].state = "Done"
    BY DEF IInv, AcceptedOK, Typed
  <2>3. CASE x \in taken
    <3>1. x \in Items /\ x \notin Badges /\ accepted[x] = 0
      BY <1>2, <2>2, <2>3, UploadAssumption
    <3> QED
      BY <1>3, <1>4, <2>3, <3>1
  <2>4. CASE x \notin taken
    <3>1. accepted'[x] = accepted[x]
      BY <1>3, <2>4
    <3> QED
      BY <1>2, <1>4, <1>6, <2>2, <2>4, <3>1
  <2> QED
    BY <2>3, <2>4
<1> QED
  BY <1>6, <1>7, <1>8, <1>9, <1>10 DEF IInv

LEMMA AssetUploadedStep ==
    ASSUME IInv, Exclusive', NEW t \in Threads, AssetUploaded(t)
    PROVE  IInv'
<1> DEFINE taken == {Of(t)}
           denied == {}
<1>1. /\ thread[t].at = "receive" /\ TaskDone(t, << >>) /\ Of(t) \in Assets
      /\ UNCHANGED <<dialog, lost>> /\ Accept(taken, call[t])
  BY DEF AssetUploaded, Receiving, At
<1>2. Of(t) \in Items /\ DOMAIN call[t] = {Of(t)}
  BY <1>1 DEF IInv, CallsOK, Items
<1>3. model' = [i \in Items |-> IF i \in taken THEN Published(model[i]) ELSE model[i]]
  BY <1>2 DEF AssetUploaded, IInv, Typed
<1>4. item' = [i \in Items |-> IF i \in taken THEN "Success"
                               ELSE IF i \in denied THEN "Failed" ELSE item[i]]
  BY <1>2 DEF AssetUploaded, IInv, Typed
<1>5. /\ taken \in SUBSET DOMAIN call[t] /\ taken = {Of(t)}
      /\ denied \in SUBSET Notes /\ denied \subseteq DOMAIN call[t] /\ taken \cap denied = {}
  BY <1>2
<1> HIDE DEF taken, denied
<1> QED
  BY <1>1, <1>2, <1>3, <1>4, <1>5, AcceptedStep

LEMMA NotesUploadedStep ==
    ASSUME IInv, Exclusive', NEW t \in Threads, NEW denied \in SUBSET Notes,
           NotesUploaded(t, denied)
    PROVE  IInv'
<1> DEFINE taken == DOMAIN call[t] \ denied
<1>1. /\ thread[t].at = "receive" /\ TaskDone(t, << >>) /\ Of(t) \in Notes
      /\ UNCHANGED <<dialog, lost>> /\ Accept(taken, call[t])
      /\ denied \subseteq DOMAIN call[t]
  BY DEF NotesUploaded, Receiving, At
<1>2. Of(t) \in Items /\ DOMAIN call[t] \subseteq Notes
  BY <1>1 DEF IInv, CallsOK, Items
<1>3. model' = [i \in Items |-> IF i \in taken THEN Published(model[i]) ELSE model[i]]
  BY DEF NotesUploaded
<1>4. item' = [i \in Items |-> IF i \in taken THEN "Success"
                               ELSE IF i \in denied THEN "Failed" ELSE item[i]]
  BY DEF NotesUploaded
<1>5. /\ taken \in SUBSET DOMAIN call[t] /\ taken \subseteq Notes /\ taken \cap denied = {}
  BY <1>2
<1> HIDE DEF taken
<1> QED
  BY <1>1, <1>2, <1>3, <1>4, <1>5, AcceptedStep

\* The uploads that an image lets go: each asset once, and they wait.
LEMMA UploadsFacts ==
    ASSUME NEW S \in SUBSET Assets, NEW s \in Uploads(S)
    PROVE  /\ s \in Seq(Task)
           /\ \A j \in 1..Len(s) : s[j].of \in S /\ s[j].state = "None"
           /\ \A j, k \in 1..Len(s) : s[j].of = s[k].of => j = k
<1> DEFINE n == Cardinality(S)
           f == [j \in 1..n |-> s[j].of]
<1>1. S \subseteq Items /\ IsFiniteSet(S)
  BY FS_Subset, UploadAssumption DEF Items
<1>2. n \in Nat
  BY <1>1, FS_CardinalityType
<1>3. /\ s \in [1..n -> [of : S, state : {"None"}]]
      /\ \A a \in S : \E k \in DOMAIN s : s[k].of = a
  BY DEF Uploads
<1>4. IsFiniteSet(1..n) /\ Cardinality(1..n) = n
  <2>1. IsFiniteSet(1..n) /\ Cardinality(1..n) = IF 1 > n THEN 0 ELSE n - 1 + 1
    <3>1. 1 \in Int /\ n \in Int
      BY <1>2
    <3> HIDE DEF n
    <3> QED
      BY <3>1, FS_Interval
  <2> HIDE DEF n
  <2> QED
    BY <1>2, <2>1
<1> HIDE DEF n
<1>5. f \in Surjection(1..n, S)
  BY <1>3 DEF Surjection
<1>6. f \in Injection(1..n, S)
  <2>1. Cardinality(1..n) = Cardinality(S)
    BY <1>4 DEF n
  <2> HIDE DEF f
  <2> QED
    BY <1>4, <1>5, <2>1, FS_SurjSameCardinalityImpliesInj
<1>7. \A j, k \in 1..n : s[j].of = s[k].of => j = k
  <2>1. \A j, k \in DOMAIN f : f[j] = f[k] => j = k
    BY <1>6 DEF Injection, IsInjective
  <2> QED
    BY <2>1
<1>8. s \in [1..n -> Task]
  BY <1>1, <1>3 DEF Task
<1>9. s \in Seq(Task) /\ Len(s) = n
  BY <1>2, <1>8
<1> QED
  BY <1>3, <1>7, <1>9

LEMMA BadgeUploadedStep ==
    ASSUME IInv, Exclusive', NEW t \in Threads, BadgeUploaded(t)
    PROVE  IInv'
<1> DEFINE n == Len(tasks)
           c == thread[t].task
           ready == WaitingFor(Of(t))
<1>1. /\ thread[t].at = "receive" /\ Of(t) \in Badges /\ InTask(t)
      /\ UNCHANGED <<item, dialog, held, lost>>
  BY DEF BadgeUploaded, Receiving, At, InTask
<1>2. PICK more \in Uploads(ready) : TaskDone(t, more)
  BY DEF BadgeUploaded
<1>3. /\ ready \in SUBSET Assets
      /\ \A a \in ready : item[a] = "WaitingForImage" /\ HasLocalBadge(a)
  BY DEF WaitingFor
<1>4. ASSUME NEW i \in Items
      PROVE  /\ model'[i] \in [now : Versions, local : Versions, server : Versions]
             /\ model'[i].now = IF i \in ready THEN "badged" ELSE model[i].now
             /\ model'[i].local = model[i].local /\ model'[i].server = model[i].server
  BY DEF BadgeUploaded, IInv, Typed, Versions
<1>5. model' \in [Items -> [now : Versions, local : Versions, server : Versions]]
  BY <1>4 DEF BadgeUploaded
<1>6. /\ accepted' \in [Items \cup Badges -> Nat]
      /\ \A x \in Items \cup Badges :
            accepted'[x] = IF x = Of(t) THEN accepted[x] + 1 ELSE accepted[x]
  BY <1>1 DEF BadgeUploaded, IInv, Typed
<1> HIDE DEF ready
<1>7. /\ more \in Seq(Task) /\ Len(more) \in Nat
      /\ \A j \in 1..Len(more) : more[j].of \in ready /\ more[j].state = "None"
      /\ \A j, k \in 1..Len(more) : more[j].of = more[k].of => j = k
  <2>1. more \in Seq(Task)
    BY <1>2, <1>3, UploadsFacts
  <2> QED
    BY <1>2, <1>3, <2>1, UploadsFacts, LenProperties
<1> DEFINE m == Len(more)
<1>8. /\ DOMAIN tasks = 1..n /\ n \in Nat /\ m \in Nat
  BY <1>7, LenProperties DEF IInv, Typed
<1>9. c \in 1..n /\ Of(t) = tasks[c].of
  BY <1>1, InTaskFacts DEF Of
<1>10. /\ DOMAIN tasks' = 1..(n + m)
       /\ \A j \in 1..n : /\ tasks'[j].of = tasks[j].of
                          /\ tasks'[j].state = IF j = c THEN "Done" ELSE tasks[j].state
       /\ \A j \in 1..m : tasks'[n + j] = more[j]
  <2>1. /\ tasks' \in Seq(Task) /\ Len(tasks') = n + m
        /\ \A j \in 1..n : /\ tasks'[j].of = tasks[j].of
                           /\ tasks'[j].state = IF j = c THEN "Done" ELSE tasks[j].state
        /\ \A j \in 1..m : tasks'[n + j] = more[j]
    BY <1>1, <1>2, <1>7, DoneFacts
  <2> QED
    BY <2>1, LenProperties
<1>11. /\ Open /\ Open' /\ ui' = ui /\ ui # "queueing" /\ ~Over' /\ ~Over
       /\ \A s \in Threads : ~InTask(s)'
       /\ CallsOK'
       /\ tasks' \in Seq(Task) /\ call' \in [Threads -> Calls]
       /\ \A s \in Threads : thread'[s].task \in 0..Len(tasks')
  BY <1>1, <1>2, <1>7, AfterTask DEF Over
<1>12. Assets \subseteq Items /\ Assets \cap Badges = {} /\ Assets \cap Notes = {}
  BY UploadAssumption DEF Items
<1> HIDE DEF n, m, c
<1>13. \A j \in 1..n, a \in ready : tasks[j].of # a
  <2>1. SUFFICES ASSUME NEW j \in 1..n, tasks[j].of \in ready PROVE FALSE
    OBVIOUS
  <2> QED
    BY <1>3, <1>8, <1>11, <1>12, <2>1 DEF IInv, TasksOK
<1>14. ASSUME NEW j \in 1..(n + m), j \notin 1..n
       PROVE  /\ j - n \in 1..m /\ tasks'[j] = more[j - n]
              /\ tasks'[j].of \in ready /\ tasks'[j].state = "None"
  <2>1. j - n \in 1..m /\ n + (j - n) = j
    BY <1>8, <1>14
  <2>2. tasks'[j] = more[j - n]
    BY <1>10, <2>1
  <2> QED
    BY <1>7, <2>1, <2>2 DEF m
<1>15. \A j, k \in 1..(n + m) : tasks'[j].of = tasks'[k].of => j = k
  <2>1. SUFFICES ASSUME NEW j \in 1..(n + m), NEW k \in 1..(n + m),
                        tasks'[j].of = tasks'[k].of
                 PROVE  j = k
    OBVIOUS
  <2>2. CASE j \in 1..n /\ k \in 1..n
    BY <1>8, <1>10, <2>1, <2>2 DEF IInv, TasksOK
  <2>3. CASE j \in 1..n /\ k \notin 1..n
    BY <1>10, <1>13, <1>14, <2>1, <2>3
  <2>4. CASE j \notin 1..n /\ k \in 1..n
    BY <1>10, <1>13, <1>14, <2>1, <2>4
  <2>5. CASE j \notin 1..n /\ k \notin 1..n
    <3>1. j - n = k - n
      BY <1>7, <1>14, <2>1, <2>5 DEF m
    <3> QED
      BY <1>8, <3>1
  <2> QED
    BY <2>2, <2>3, <2>4, <2>5
<1>16. TasksOK'
  <2>1. ASSUME NEW j \in 1..(n + m), tasks'[j].of \in Items
        PROVE  /\ item[tasks'[j].of] # "unqueued"
               /\ item[tasks'[j].of] = "Success" /\ tasks'[j].of \in Assets =>
                     tasks'[j].state = "Done"
               /\ tasks'[j].of \in Assets =>
                     item[tasks'[j].of] # "WaitingForImage"
                     \/ ~(BadgeOf[tasks'[j].of] # NoBadge /\ model'[tasks'[j].of].now # "badged")
    <3>1. CASE j \in 1..n
      <4>1. /\ tasks[j].of \in Items /\ item[tasks[j].of] # "unqueued"
            /\ item[tasks[j].of] = "Success" /\ tasks[j].of \in Assets =>
                  tasks[j].state = "Done"
            /\ tasks[j].of \in Assets =>
                  item[tasks[j].of] # "WaitingForImage"
                  \/ ~(BadgeOf[tasks[j].of] # NoBadge /\ model[tasks[j].of].now # "badged")
        BY <1>8, <1>10, <1>11, <2>1, <3>1 DEF IInv, TasksOK, HasLocalBadge
      <4>2. model'[tasks[j].of].now = model[tasks[j].of].now
        BY <1>4, <1>13, <3>1, <4>1
      <4> QED
        BY <1>10, <3>1, <4>1, <4>2
    <3>2. CASE tasks'[j].of \in ready
      BY <1>3, <1>4, <1>12, <3>2
    <3> QED
      BY <1>14, <3>1, <3>2
  <2>2. ASSUME NEW j \in 1..(n + m), tasks'[j].of \in Badges
        PROVE  \E a \in Assets : BadgeOf[a] = tasks'[j].of /\ item[a] # "unqueued"
    <3>1. j \in 1..n
      BY <1>3, <1>12, <1>14, <2>2
    <3> QED
      BY <1>8, <1>10, <2>2, <3>1 DEF IInv, TasksOK
  <2> QED
    BY <1>1, <1>10, <1>11, <1>15, <2>1, <2>2 DEF TasksOK, HasLocalBadge
<1>17. Typed'
  BY <1>1, <1>5, <1>6, <1>11 DEF IInv, Typed, dialog
<1>18. ModelsOK'
  BY <1>1, <1>3, <1>4, <1>11, <1>12 DEF IInv, ModelsOK
<1>19. AcceptedOK'
  <2>1. SUFFICES ASSUME NEW x \in (Items \cup Badges) \ lost
                 PROVE  /\ accepted'[x] <= 1
                        /\ accepted'[x] = 1 /\ x \in Items => item[x] = "Success"
                        /\ accepted'[x] = 1 /\ x \in Badges =>
                              \A k \in DOMAIN tasks' :
                                 tasks'[k].of = x => tasks'[k].state = "Done"
    BY <1>1, <1>11 DEF AcceptedOK
  <2>2. /\ accepted[x] \in Nat /\ accepted[x] <= 1
        /\ accepted[x] = 1 /\ x \in Items => item[x] = "Success"
        /\ accepted[x] = 1 /\ x \in Badges =>
              \A k \in DOMAIN tasks : tasks[k].of = x => tasks[k].state = "Done"
    BY DEF IInv, AcceptedOK, Typed
  <2>3. CASE x = Of(t)
    <3>1. accepted[x] = 0 /\ x \notin Items
      BY <1>1, <2>3, NotYetAccepted, UploadAssumption DEF Items
    <3>2. ASSUME NEW k \in 1..(n + m), tasks'[k].of = x PROVE tasks'[k].state = "Done"
      <4>1. k \in 1..n
        BY <1>1, <1>3, <1>12, <1>14, <2>3, <3>2
      <4>2. k = c
        BY <1>8, <1>9, <1>10, <2>3, <3>2, <4>1 DEF IInv, TasksOK
      <4> QED
        BY <1>10, <4>1, <4>2
    <3> QED
      BY <1>6, <1>10, <3>1, <3>2
  <2>4. CASE x # Of(t)
    <3>1. accepted'[x] = accepted[x]
      BY <1>6, <2>4
    <3>2. ASSUME accepted[x] = 1, x \in Badges, NEW k \in 1..(n + m), tasks'[k].of = x
          PROVE  tasks'[k].state = "Done"
      <4>1. k \in 1..n
        BY <1>3, <1>12, <1>14, <3>2
      <4> QED
        BY <1>8, <1>10, <2>2, <3>2, <4>1
    <3> QED
      BY <1>10, <2>2, <3>1, <3>2
  <2> QED
    BY <2>3, <2>4
<1> QED
  BY <1>11, <1>16, <1>17, <1>18, <1>19 DEF IInv

\* What the server took without an answer has not succeeded, and may be taken again.
LEMMA LoseStep ==
    ASSUME IInv, Exclusive', NEW t \in Threads, Lose(t)
    PROVE  IInv'
<1>1. /\ thread[t].at = "receive" /\ InTask(t)
      /\ UNCHANGED <<tasks, item, dialog, call, model>>
      /\ lost' = lost \cup DOMAIN call[t] \cup {Of(t)}
  BY DEF Lose, Retry, At, InTask, queue
<1>2. PICK p \in {"send", "receive"} : Go(t, p) /\ (p = "receive" => Of(t) \in Notes)
  BY DEF Lose, Retry
<1>3. /\ thread[t].task \in Nat
      /\ thread' = [thread EXCEPT ![t] = [at |-> p, task |-> thread[t].task]]
  BY <1>2, Went DEF IInv
<1>4. \A s \in Threads : /\ thread'[s].task = thread[s].task
                         /\ thread'[s].at = IF s = t THEN p ELSE thread[s].at
  BY <1>3 DEF IInv, Exclusive
<1>5. /\ Of(t) \in Items \cup Badges /\ Open /\ ui # "queueing" /\ Notes \cap Badges = {}
      /\ \A s \in Threads : Working(s) => s = t
  BY <1>1, InTaskFacts
<1>6. \A s \in Threads : s # t => ~InTask(s)' /\ thread'[s].at # "receive"
  BY <1>4, <1>5 DEF InTask, Working
<1>7. Open' /\ ui' = ui /\ ~Over /\ ~Over' /\ \A s \in Threads : Of(s)' = Of(s)
  BY <1>1, <1>4, <1>5 DEF Open, Over, dialog, Of
<1>8. DOMAIN call[t] \subseteq Items
  BY DEF IInv, Typed, Calls
<1>9. /\ held' \in [Items -> Versions] /\ accepted' \in [Items \cup Badges -> Nat]
      /\ \A i \in Items : held'[i] = held[i] \/ item[i] # "Success"
      /\ \A x \in (Items \cup Badges) \ lost' : accepted'[x] = accepted[x]
  <2>1. CASE Of(t) \in Badges
    <3>1. accepted' = [accepted EXCEPT ![Of(t)] = @ + 1] /\ UNCHANGED held
      BY <2>1 DEF Lose
    <3> QED
      BY <1>1, <1>5, <3>1 DEF IInv, Typed
  <2>2. CASE Of(t) \notin Badges
    <3>1. Accept(DOMAIN call[t], call[t])
      BY <2>2 DEF Lose
    <3>2. \A i \in DOMAIN call[t] : call[t][i] \in Versions /\ item[i] # "Success"
      BY <1>1, <1>5, <2>2, CallFacts
    <3>3. /\ held' \in [Items -> Versions] /\ accepted' \in [Items \cup Badges -> Nat]
          /\ \A i \in Items : held'[i] = IF i \in DOMAIN call[t] THEN call[t][i] ELSE held[i]
          /\ \A x \in Items \cup Badges :
                accepted'[x] = IF x \in DOMAIN call[t] THEN accepted[x] + 1 ELSE accepted[x]
      BY <1>8, <3>1, <3>2, AcceptFacts
    <3> QED
      BY <1>1, <3>2, <3>3
  <2> QED
    BY <2>1, <2>2
<1>10. Typed'
  <2>1. lost' \subseteq Items \cup Badges
    BY <1>1, <1>5, <1>8 DEF IInv, Typed
  <2> QED
    BY <1>1, <1>4, <1>9, <2>1 DEF IInv, Typed, dialog
<1>11. TasksOK'
  <2>1. \A s \in Threads : InTask(s)' =>
            thread'[s].task \in DOMAIN tasks /\ tasks[thread'[s].task].state = "Running"
    BY <1>1, <1>4, <1>6 DEF IInv, TasksOK
  <2> QED
    BY <1>1, <1>5, <1>7, <2>1 DEF IInv, TasksOK, HasLocalBadge
<1>12. CallsOK'
  <2>1. SUFFICES ASSUME p = "receive"
                 PROVE  /\ Of(t) \in Assets =>
                              DOMAIN call[t] = {Of(t)} /\ call[t][Of(t)] = model[Of(t)].now
                        /\ Of(t) \in Notes =>
                              /\ DOMAIN call[t] \subseteq Notes
                              /\ \A n \in DOMAIN call[t] :
                                    item[n] = "Uploading" /\ call[t][n] = model[n].now
    BY <1>1, <1>4, <1>6, <1>7 DEF CallsOK
  <2> QED
    BY <1>1 DEF IInv, CallsOK
<1>13. ModelsOK'
  BY <1>1, <1>7, <1>9 DEF IInv, ModelsOK
<1>14. AcceptedOK'
  BY <1>1, <1>5, <1>7, <1>9 DEF IInv, AcceptedOK
<1> QED
  BY <1>10, <1>11, <1>12, <1>13, <1>14 DEF IInv

-----------------------------------------------------------------------------
(* Nothing that was queued is forgotten                                    *)

Pending(x) == \E k \in DOMAIN tasks : tasks[k].of = x /\ tasks[k].state # "Done"

\* What an item waits for is still to come: its task, the request it went along
\* with, or the task of its image.
WaitsOK ==
    /\ \A i \in Items : item[i] = "None" => Pending(i)
    /\ \A i \in Items : item[i] = "Uploading" =>
          \E t \in Threads : At(t, "receive") /\ Of(t) \in Notes /\ i \in DOMAIN call[t]
    /\ \A i \in Items : item[i] = "WaitingForImage" =>
          /\ i \in Assets
          /\ Pending(i) \/ (HasLocalBadge(i) /\ Pending(BadgeOf[i]))
    /\ \A t \in Threads : At(t, "receive") /\ Of(t) \in Notes => Of(t) \in DOMAIN call[t]

\* A task that runs has its thread, a queue that is complete has no task left, and the
\* dialog closes only then, unless the user cancels.
EndOK ==
    /\ \A k \in DOMAIN tasks : tasks[k].state = "Running" =>
          \E t \in Threads : InTask(t) /\ thread[t].task = k
    /\ complete => \A k \in DOMAIN tasks : tasks[k].state = "Done"
    /\ result # "None" /\ ~cancelled => complete \/ tasks = << >>

\* While the queue is filled, an asset with a local image waits for it.
QueueingOK ==
    ui = "queueing" =>
        /\ ~complete /\ result = "None"
        /\ \A a \in Assets :
              /\ model[a].now = "mine"
              /\ item[a] # "unqueued" /\ HasLocalBadge(a) => item[a] = "WaitingForImage"

Progress == WaitsOK /\ EndOK /\ QueueingOK

LEMMA InitProgress == Init => Progress
<1> SUFFICES ASSUME Init PROVE Progress
  OBVIOUS
<1>1. tasks = << >> /\ DOMAIN tasks = {} /\ \A i \in Items : item[i] = "unqueued"
  BY DEF Init
<1>2. WaitsOK
  <2>1. \A t \in Threads : ~At(t, "receive")
    BY DEF Init, At
  <2> QED
    BY <1>1, <2>1 DEF WaitsOK
<1>3. EndOK
  BY <1>1 DEF Init, EndOK
<1>4. QueueingOK
  <2>1. \A a \in Assets : model[a].now = "mine"
    BY DEF Init, Committed, Items
  <2> QED
    BY <1>1, <2>1 DEF Init, QueueingOK, Items
<1> QED
  BY <1>2, <1>3, <1>4 DEF Progress

\* Steps that leave the tasks and the items, and the threads that are in a task.
LEMMA ProgressStill ==
    ASSUME IInv, Progress, UNCHANGED <<tasks, item, call>>,
           \A t \in Threads : InTask(t) => InTask(t)' /\ thread'[t].task = thread[t].task,
           \A t \in Threads : At(t, "receive") /\ Of(t) \in Notes => At(t, "receive")',
           \A t \in Threads : At(t, "receive")' /\ Of(t)' \in Notes =>
              At(t, "receive") /\ Of(t)' = Of(t),
           \A a \in Assets : HasLocalBadge(a) => HasLocalBadge(a)',
           complete' => \A k \in DOMAIN tasks : tasks[k].state = "Done",
           result' # "None" /\ ~cancelled' => complete' \/ tasks = << >>,
           ui' = "queueing" => UNCHANGED <<model, complete, result, ui>>
    PROVE  Progress'
<1>1. \A x : Pending(x)' <=> Pending(x)
  BY DEF Pending
<1>2. ASSUME NEW t \in Threads, At(t, "receive"), Of(t) \in Notes
      PROVE  At(t, "receive")' /\ Of(t)' = Of(t)
  BY <1>2 DEF At, InTask, Of
<1>3. WaitsOK'
  <2>1. ASSUME NEW i \in Items, item[i] = "Uploading"
        PROVE  \E t \in Threads : At(t, "receive")' /\ Of(t)' \in Notes /\ i \in DOMAIN call[t]
    BY <1>2, <2>1 DEF Progress, WaitsOK
  <2>2. ASSUME NEW t \in Threads, At(t, "receive")', Of(t)' \in Notes
        PROVE  Of(t)' \in DOMAIN call[t]
    BY <2>2 DEF Progress, WaitsOK
  <2> QED
    BY <1>1, <2>1, <2>2 DEF Progress, WaitsOK
<1>4. EndOK'
  BY DEF Progress, EndOK
<1>5. QueueingOK'
  BY DEF Progress, QueueingOK, HasLocalBadge
<1> QED
  BY <1>3, <1>4, <1>5 DEF Progress

LEMMA DialogProgress ==
    ASSUME IInv, Progress, BeginTasks \/ Cancel \/ Close \/ RestoreLocalCheckpoints \/ Destroy
    PROVE  Progress'
<1>1. UNCHANGED <<tasks, item, call, complete>>
  BY DEF BeginTasks, Cancel, Close, Destroy, RestoreLocalCheckpoints, queue
<1>2. ASSUME NEW t \in Threads, InTask(t) PROVE thread'[t] = thread[t]
  BY <1>2 DEF InTask, BeginTasks, Cancel, Close, Destroy, RestoreLocalCheckpoints, IInv, Exclusive
<1>3. ASSUME NEW a \in Assets, HasLocalBadge(a) PROVE HasLocalBadge(a)'
  <2>1. CASE UNCHANGED model
    BY <1>3, <2>1 DEF HasLocalBadge
  <2>2. CASE RestoreLocalCheckpoints
    <3>1. a \in Items /\ model'[a].now \in {model[a].now, model[a].local}
      BY <2>2 DEF RestoreLocalCheckpoints, Items, IInv, Typed
    <3>2. model[a].local # "badged"
      <4>1. CASE item[a] = "Success"
        BY <1>3, <3>1, <4>1 DEF IInv, ModelsOK, HasLocalBadge
      <4>2. CASE item[a] # "Success"
        BY <3>1, <4>2 DEF IInv, ModelsOK
      <4> QED
        BY <4>1, <4>2
    <3> QED
      BY <1>3, <3>1, <3>2 DEF HasLocalBadge
  <2> QED
    BY <2>1, <2>2 DEF BeginTasks, Cancel, Close, Destroy
<1>4. result' # "None" /\ ~cancelled' => complete' \/ tasks = << >>
  BY DEF Progress, EndOK, BeginTasks, Cancel, Close, Destroy, RestoreLocalCheckpoints
<1>5. ui' # "queueing"
  BY DEF BeginTasks, Cancel, Close, Destroy, RestoreLocalCheckpoints
<1>6. ASSUME NEW t \in Threads, At(t, "receive")'
      PROVE  At(t, "receive") /\ Of(t)' = Of(t)
  <2>1. thread'[t] = thread[t]
    BY <1>6 DEF At, BeginTasks, Cancel, Close, Destroy, RestoreLocalCheckpoints, IInv, Exclusive
  <2> QED
    BY <1>1, <1>6, <2>1 DEF At, Of
<1> QED
  BY <1>1, <1>2, <1>3, <1>4, <1>5, <1>6, ProgressStill DEF At, InTask, Progress, EndOK

LEMMA RestProgress ==
    ASSUME IInv, Progress, NEW t \in Threads,
           Enter(t) \/ Late(t) \/ Leave(t) \/ SendBadge(t) \/ Busy(t) \/ Lose(t)
    PROVE  Progress'
<1>1. UNCHANGED <<tasks, item, call, complete, model, ui, cancelled>>
  BY DEF Enter, Late, Leave, SendBadge, Busy, Lose, queue, dialog
<1>2. PICK p : /\ Go(t, p)
               /\ InTask(t) => p \in {"send", "receive"}
               /\ At(t, "receive") /\ Of(t) \in Notes => p = "receive"
               /\ p = "receive" => At(t, "receive") \/ Of(t) \notin Notes
  BY UploadAssumption DEF Enter, Late, Leave, SendBadge, Busy, Lose, Retry, At, InTask, Sending, Items
<1>3. /\ thread[t].task \in Nat
      /\ thread' = [thread EXCEPT ![t] = [at |-> p, task |-> thread[t].task]]
  BY <1>2, Went DEF IInv
<1>4. \A s \in Threads : /\ thread'[s].task = thread[s].task
                         /\ thread'[s].at = IF s = t THEN p ELSE thread[s].at
  BY <1>3 DEF IInv, Exclusive
<1>5. \A s \in Threads : /\ InTask(s) => InTask(s)'
                         /\ At(s, "receive") /\ Of(s) \in Notes => At(s, "receive")'
  BY <1>2, <1>4 DEF InTask, At
<1>6. ASSUME NEW s \in Threads, At(s, "receive")', Of(s)' \in Notes
       PROVE  At(s, "receive") /\ Of(s)' = Of(s)
  <2>1. Of(s)' = Of(s)
    BY <1>1, <1>4 DEF Of
  <2>2. CASE s = t
    <3>1. At(t, "receive")' /\ Of(t) \in Notes /\ Of(t)' = Of(t)
      BY <1>6, <2>1, <2>2
    <3>2. p = "receive"
      BY <1>4, <3>1 DEF At
    <3> QED
      BY <1>2, <2>2, <3>1, <3>2
  <2>3. CASE s # t
    BY <1>4, <1>6, <2>1, <2>3 DEF At
  <2> QED
    BY <2>1, <2>2, <2>3
<1>7. result' # "None" /\ ~cancelled' => complete' \/ tasks = << >>
  BY <1>1 DEF Progress, EndOK, Enter, Late, Leave, SendBadge, Busy, Lose, dialog
<1>8. ui # "queueing"
  <2>1. thread[t].at # "none"
    BY DEF Enter, Late, Leave, SendBadge, Busy, Lose, Retry, At, Sending
  <2> QED
    BY <2>1 DEF IInv, Exclusive
<1>9. \A a \in Assets : HasLocalBadge(a) => HasLocalBadge(a)'
  BY <1>1 DEF HasLocalBadge
<1>10. complete' => \A k \in DOMAIN tasks : tasks[k].state = "Done"
  BY <1>1 DEF Progress, EndOK
<1> QED
  BY <1>1, <1>4, <1>5, <1>6, <1>7, <1>8, <1>9, <1>10, ProgressStill

\* What a thread that is at work has for itself.
LEMMA AloneFacts ==
    ASSUME IInv, NEW t \in Threads, Working(t)
    PROVE  \A s \in Threads : InTask(s) \/ At(s, "receive") => s = t
BY DEF IInv, Exclusive, Working, InTask, At

LEMMA PickProgress ==
    ASSUME IInv, Progress, NEW t \in Threads, Pick(t)
    PROVE  Progress'
<1>1. /\ UNCHANGED <<item, active, result, ui, owner, destroyed, cancelled, call, model>>
      /\ At(t, "pick") /\ ui # "queueing" /\ tasks \in Seq(Task)
      /\ Len(tasks) \in Nat /\ DOMAIN tasks = 1..Len(tasks)
  BY LenProperties DEF Pick, At, IInv, Exclusive, Typed
<1>2. \A s \in Threads : ~InTask(s) /\ ~At(s, "receive")
  BY <1>1, AloneFacts DEF Working, At, InTask
<1>3. \A k \in DOMAIN tasks : tasks[k].state # "Running"
  BY <1>2 DEF Progress, EndOK
<1>4. /\ \A a \in Assets : HasLocalBadge(a) => HasLocalBadge(a)'
      /\ \A s \in Threads : ~At(s, "receive")'
  <2>1. \A s \in Threads : thread'[s] = thread[s] \/ thread'[s].at \in {"leave", "send"}
    BY DEF Pick, Go, IInv, Exclusive
  <2> QED
    BY <1>1, <1>2, <2>1 DEF HasLocalBadge, At
<1>5. CASE complete \/ result # "None"
  <2>1. UNCHANGED <<tasks, complete>>
    BY <1>5 DEF Pick
  <2> QED
    BY <1>1, <1>2, <1>4, <2>1, ProgressStill DEF Progress, EndOK
<1>6. CASE ~(complete \/ result # "None") /\ Waiting = {}
  <2>1. UNCHANGED tasks
    BY <1>6 DEF Pick
  <2>2. ASSUME NEW k \in DOMAIN tasks PROVE tasks[k].state = "Done"
    <3>1. tasks[k] \in Task
      BY <1>1, ElementOfSeq
    <3> QED
      BY <1>3, <1>6, <3>1 DEF Waiting, Task
  <2>3. result' # "None" /\ ~cancelled' => complete' \/ tasks = << >>
    BY <1>1, <1>6
  <2> QED
    BY <1>1, <1>2, <1>4, <2>1, <2>2, <2>3, ProgressStill
<1>7. CASE ~(complete \/ result # "None") /\ Waiting # {}
  <2> DEFINE c == CHOOSE k \in Waiting : \A j \in Waiting : k <= j
  <2>1. c \in 1..Len(tasks) /\ tasks[c].state = "None" /\ tasks[c] \in Task
    BY <1>1, <1>7, FirstWaits, ElementOfSeq
  <2>2. /\ tasks' = [tasks EXCEPT ![c].state = "Running"]
        /\ thread' = [thread EXCEPT ![t] = [at |-> "send", task |-> c]]
        /\ UNCHANGED complete
    BY <1>7 DEF Pick
  <2> HIDE DEF c
  <2>3. /\ DOMAIN tasks' = DOMAIN tasks
        /\ \A k \in DOMAIN tasks :
              /\ tasks'[k].of = tasks[k].of
              /\ tasks'[k].state = IF k = c THEN "Running" ELSE tasks[k].state
    BY <1>1, <2>1, <2>2 DEF Task
  <2>4. \A x : Pending(x) => Pending(x)'
    BY <2>1, <2>3 DEF Pending
  <2>5. WaitsOK'
    BY <1>1, <1>2, <1>4, <2>4 DEF Progress, WaitsOK
  <2>6. InTask(t)' /\ thread'[t].task = c
    BY <2>2 DEF InTask, IInv, Exclusive
  <2>7. EndOK'
    BY <1>1, <1>3, <1>7, <2>2, <2>3, <2>6 DEF EndOK
  <2>8. QueueingOK'
    BY <1>1 DEF QueueingOK
  <2> QED
    BY <2>5, <2>7, <2>8 DEF Progress
<1> QED
  BY <1>5, <1>6, <1>7

\* A request is sent, and the notes that go along wait for its answer.
LEMMA SentProgress ==
    ASSUME IInv, Progress, NEW t \in Threads, At(t, "send"), Go(t, "receive"),
           UNCHANGED <<tasks, dialog, model>>,
           \A i \in Items : item'[i] \in {"None", "WaitingForImage"} => item'[i] = item[i],
           \A i \in Items : item'[i] = "Uploading" /\ item[i] # "Uploading" =>
              Of(t) \in Notes /\ i \in DOMAIN call'[t],
           Of(t) \in Notes => Of(t) \in DOMAIN call'[t]
    PROVE  Progress'
<1>1. thread' = [thread EXCEPT ![t] = [at |-> "receive", task |-> thread[t].task]]
  BY Went DEF IInv
<1>2. \A s \in Threads : /\ thread'[s].task = thread[s].task
                         /\ thread'[s].at = IF s = t THEN "receive" ELSE thread[s].at
  BY <1>1 DEF IInv, Exclusive
<1>3. InTask(t) /\ Working(t) /\ Of(t)' = Of(t) /\ At(t, "receive")'
  BY <1>2 DEF InTask, Working, At, Of
<1>4. \A s \in Threads : ~At(s, "receive") /\ (At(s, "receive")' => s = t)
  BY <1>2, <1>3, AloneFacts DEF At
<1>5. \A x : Pending(x)' <=> Pending(x)
  BY DEF Pending
<1>6. WaitsOK'
  BY <1>3, <1>4, <1>5 DEF Progress, WaitsOK, HasLocalBadge
<1>7. EndOK'
  BY <1>2 DEF Progress, EndOK, InTask, dialog
<1>8. QueueingOK'
  BY <1>3, InTaskFacts DEF QueueingOK, dialog
<1> QED
  BY <1>6, <1>7, <1>8 DEF Progress

LEMMA SendAssetProgress ==
    ASSUME IInv, Progress, NEW t \in Threads, SendAsset(t)
    PROVE  Progress'
BY SentProgress, UploadAssumption DEF SendAsset, Sending, queue, Items

\* A task ends, and what it was about has succeeded or failed.
LEMMA TaskProgress ==
    ASSUME IInv, Progress, NEW t \in Threads, InTask(t), NEW more \in Seq(Task),
           TaskDone(t, more), UNCHANGED dialog,
           \A j \in 1..Len(more) : more[j].state = "None"
    PROVE  /\ \A x : Pending(x) => x = Of(t) \/ Pending(x)'
           /\ \A j \in 1..Len(more) : Pending(more[j].of)'
           /\ \A s \in Threads : ~At(s, "receive")'
           /\ EndOK' /\ QueueingOK'
           /\ Of(t) \in Badges => \A i \in Items : item[i] # "Uploading"
           /\ At(t, "receive") =>
                 \A i \in Items : item[i] = "Uploading" => i \in DOMAIN call[t]
           /\ At(t, "send") => \A i \in Items : item[i] # "Uploading"
<1> DEFINE n == Len(tasks)
           m == Len(more)
           c == thread[t].task
<1>1. n \in Nat /\ m \in Nat /\ DOMAIN tasks = 1..n /\ DOMAIN more = 1..m
  BY LenProperties DEF IInv, Typed
<1>2. c \in 1..n /\ Of(t) = tasks[c].of /\ tasks[c].state = "Running" /\ ui # "queueing"
      /\ Notes \cap Badges = {}
  BY InTaskFacts DEF Of
<1>3. /\ DOMAIN tasks' = 1..(n + m)
      /\ \A j \in 1..n : /\ tasks'[j].of = tasks[j].of
                         /\ tasks'[j].state = IF j = c THEN "Done" ELSE tasks[j].state
      /\ \A j \in 1..m : tasks'[n + j] = more[j]
  <2>1. /\ tasks' \in Seq(Task) /\ Len(tasks') = n + m
        /\ \A j \in 1..n : /\ tasks'[j].of = tasks[j].of
                           /\ tasks'[j].state = IF j = c THEN "Done" ELSE tasks[j].state
        /\ \A j \in 1..m : tasks'[n + j] = more[j]
    BY DoneFacts
  <2> QED
    BY <2>1, LenProperties
<1>4. \A s \in Threads : InTask(s) \/ At(s, "receive") => s = t
  BY AloneFacts DEF InTask, Working
<1>5. \A j \in 1..n : tasks[j].state = "Running" => j = c
  BY <1>1, <1>4 DEF Progress, EndOK
<1> HIDE DEF n, m, c
<1>6. ASSUME NEW j \in 1..m
      PROVE  n + j \in DOMAIN tasks' /\ tasks'[n + j] = more[j]
  BY <1>1, <1>3, <1>6
<1>7. \A j \in 1..m : Pending(more[j].of)'
  BY <1>6 DEF Pending, m
<1>8. \A x : Pending(x) => x = Of(t) \/ Pending(x)'
  BY <1>1, <1>2, <1>3 DEF Pending
<1>9. ASSUME NEW k \in DOMAIN tasks' PROVE tasks'[k].state # "Running"
  <2>1. CASE k \in 1..n
    BY <1>3, <1>5, <2>1
  <2>2. CASE k \notin 1..n
    <3>1. k - n \in 1..m /\ n + (k - n) = k
      BY <1>1, <1>3, <1>9, <2>2
    <3>2. tasks'[k] = more[k - n] /\ more[k - n].state = "None"
      BY <1>3, <3>1 DEF m
    <3> QED
      BY <3>2
  <2> QED
    BY <2>1, <2>2
<1>10. ~complete /\ tasks # << >>
  BY <1>1, <1>2 DEF Progress, EndOK
<1>11. EndOK'
  BY <1>9, <1>10 DEF Progress, EndOK, dialog
<1>12. QueueingOK'
  BY <1>2 DEF QueueingOK, dialog
<1>13. \A i \in Items : item[i] = "Uploading" =>
          At(t, "receive") /\ Of(t) \in Notes /\ i \in DOMAIN call[t]
  BY <1>4 DEF Progress, WaitsOK
<1>14. \A s \in Threads : ~At(s, "receive")'
  BY <1>4 DEF TaskDone, Go, IInv, Exclusive, At
<1> QED
  BY <1>2, <1>7, <1>8, <1>11, <1>12, <1>13, <1>14 DEF m, At

\* A task that queues nothing more.
LEMMA DoneProgress ==
    ASSUME IInv, Progress, NEW t \in Threads, InTask(t), TaskDone(t, << >>),
           UNCHANGED dialog,
           \A i \in Items : item'[i] \in {"None", "WaitingForImage"} =>
              item'[i] = item[i] /\ i # Of(t),
           \A a \in Assets : item'[a] = "WaitingForImage" /\ HasLocalBadge(a) =>
              HasLocalBadge(a)' /\ BadgeOf[a] # Of(t),
           \A i \in Items : item'[i] # "Uploading"
    PROVE  Progress'
<1>1. /\ \A x : Pending(x) => x = Of(t) \/ Pending(x)'
      /\ EndOK' /\ QueueingOK' /\ \A s \in Threads : ~At(s, "receive")'
  <2>1. \A j \in 1..Len(<< >>) : << >>[j].state = "None"
    BY NothingMore
  <2> QED
    BY <2>1, NothingMore, TaskProgress
<1>2. WaitsOK'
  <2>1. ASSUME NEW i \in Items, item'[i] = "None" PROVE Pending(i)'
    BY <1>1, <2>1 DEF Progress, WaitsOK
  <2>2. ASSUME NEW i \in Items, item'[i] = "WaitingForImage"
        PROVE  i \in Assets /\ (Pending(i)' \/ (HasLocalBadge(i)' /\ Pending(BadgeOf[i])'))
    BY <1>1, <2>2 DEF Progress, WaitsOK
  <2> QED
    BY <1>1, <2>1, <2>2 DEF WaitsOK
<1> QED
  BY <1>1, <1>2 DEF Progress

LEMMA BadgesApart ==
    ASSUME NEW a \in Assets, HasLocalBadge(a)
    PROVE  BadgeOf[a] \in Badges /\ BadgeOf[a] \notin Items
BY UploadAssumption DEF HasLocalBadge, Badges

LEMMA SendNotesProgress ==
    ASSUME IInv, Progress, NEW t \in Threads, SendNotes(t)
    PROVE  Progress'
<1>1. /\ thread[t].at = "send" /\ At(t, "send") /\ Of(t) \in Notes /\ InTask(t)
      /\ Of(t) \in Items /\ Of(t) \notin Assets
      /\ UNCHANGED <<dialog, model>>
  BY UploadAssumption DEF SendNotes, Sending, At, InTask, Items
<1>2. CASE item[Of(t)] # "None"
  <2>1. TaskDone(t, << >>) /\ UNCHANGED item
    BY <1>2 DEF SendNotes
  <2>2. \A i \in Items : item[i] # "Uploading"
    <3>1. \A j \in 1..Len(<< >>) : << >>[j].state = "None"
      BY NothingMore
    <3> QED
      BY <1>1, <2>1, <3>1, NothingMore, TaskProgress
  <2>3. \A i \in Items : item'[i] \in {"None", "WaitingForImage"} =>
           item'[i] = item[i] /\ i # Of(t)
    BY <1>1, <1>2, <2>1 DEF Progress, WaitsOK
  <2>4. \A a \in Assets : HasLocalBadge(a) => HasLocalBadge(a)' /\ BadgeOf[a] # Of(t)
    BY <1>1, BadgesApart DEF HasLocalBadge
  <2> QED
    BY <1>1, <2>1, <2>2, <2>3, <2>4, DoneProgress
<1>3. CASE item[Of(t)] = "None"
  <2> DEFINE batch == {Of(t)} \cup Along(Of(t))
  <2>1. /\ call' = [call EXCEPT ![t] = [n \in batch |-> model[n].now]]
        /\ item' = [i \in Items |-> IF i \in batch THEN "Uploading" ELSE item[i]]
        /\ Go(t, "receive") /\ UNCHANGED tasks
    BY <1>3 DEF SendNotes
  <2> HIDE DEF batch
  <2>2. DOMAIN call'[t] = batch
    BY <2>1 DEF IInv, Typed
  <2>3. \A i \in Items : item'[i] \in {"None", "WaitingForImage"} => item'[i] = item[i]
    BY <2>1
  <2>4. \A i \in Items : item'[i] = "Uploading" /\ item[i] # "Uploading" =>
           Of(t) \in Notes /\ i \in DOMAIN call'[t]
    BY <1>1, <2>1, <2>2
  <2>5. Of(t) \in DOMAIN call'[t]
    BY <2>2 DEF batch
  <2> QED
    BY <1>1, <2>1, <2>3, <2>4, <2>5, SentProgress
<1> QED
  BY <1>2, <1>3

LEMMA SettledProgress ==
    ASSUME IInv, Progress, NEW t \in Threads,
           \/ BadgeRefused(t) \/ AssetUploaded(t) \/ AssetRefused(t)
           \/ \E denied \in SUBSET Notes : NotesUploaded(t, denied)
    PROVE  Progress'
<1>1. /\ At(t, "receive") /\ InTask(t) /\ TaskDone(t, << >>) /\ UNCHANGED dialog
      /\ Of(t) \in Items \cup Badges
      /\ Assets \cap Notes = {} /\ Assets \cap Badges = {} /\ Notes \cap Badges = {}
  <2>1. At(t, "receive") /\ TaskDone(t, << >>) /\ UNCHANGED dialog
    BY DEF BadgeRefused, AssetUploaded, AssetRefused, NotesUploaded, Receiving
  <2> QED
    BY <2>1, InTaskFacts DEF InTask, At
<1>2. /\ Of(t) \in Badges => \A i \in Items : item[i] # "Uploading"
      /\ \A i \in Items : item[i] = "Uploading" => i \in DOMAIN call[t]
  <2>1. \A j \in 1..Len(<< >>) : << >>[j].state = "None"
    BY NothingMore
  <2> QED
    BY <1>1, <2>1, NothingMore, TaskProgress
<1>3. CASE BadgeRefused(t)
  <2>1. /\ Of(t) \in Badges /\ UNCHANGED model
        /\ item' = [i \in Items |-> IF i \in Assets /\ i \in WaitingFor(Of(t))
                                    THEN "Failed" ELSE item[i]]
    BY <1>3 DEF BadgeRefused, Receiving
  <2>2. Of(t) \notin Items
    BY <1>1, <2>1 DEF Items
  <2>3. \A a \in Assets : item'[a] = "WaitingForImage" /\ HasLocalBadge(a) =>
           HasLocalBadge(a)' /\ BadgeOf[a] # Of(t)
    BY <2>1 DEF WaitingFor, HasLocalBadge, Items
  <2>4. \A i \in Items : item'[i] \in {"None", "WaitingForImage"} =>
           item'[i] = item[i] /\ i # Of(t)
    BY <2>1, <2>2
  <2>5. \A i \in Items : item'[i] # "Uploading"
    BY <1>2, <2>1
  <2> QED
    BY <1>1, <2>3, <2>4, <2>5, DoneProgress
<1>4. CASE AssetUploaded(t) \/ AssetRefused(t)
  <2>1. /\ Of(t) \in Assets /\ Of(t) \in Items
        /\ item'[Of(t)] \in {"Success", "Failed"}
        /\ \A i \in Items : i # Of(t) => item'[i] = item[i] /\ model'[i] = model[i]
    BY <1>4 DEF AssetUploaded, AssetRefused, Receiving, Items, IInv, Typed
  <2>2. DOMAIN call[t] = {Of(t)}
    BY <1>1, <2>1 DEF At, IInv, CallsOK
  <2>3. \A a \in Assets : item'[a] = "WaitingForImage" /\ HasLocalBadge(a) =>
           HasLocalBadge(a)' /\ BadgeOf[a] # Of(t)
    BY <2>1, BadgesApart DEF HasLocalBadge, Items
  <2>4. \A i \in Items : item'[i] \in {"None", "WaitingForImage"} =>
           item'[i] = item[i] /\ i # Of(t)
    BY <2>1
  <2>5. \A i \in Items : item'[i] # "Uploading"
    BY <1>2, <2>1, <2>2
  <2> QED
    BY <1>1, <2>3, <2>4, <2>5, DoneProgress
<1>5. ASSUME NEW denied \in SUBSET Notes, NotesUploaded(t, denied) PROVE Progress'
  <2> DEFINE batch == DOMAIN call[t]
  <2>1. /\ Of(t) \in Notes /\ Of(t) \in Items /\ denied \subseteq batch
        /\ item' = [i \in Items |-> CASE i \in batch \ denied -> "Success"
                                      [] i \in denied -> "Failed"
                                      [] OTHER -> item[i]]
        /\ model' = [i \in Items |-> IF i \in batch \ denied THEN Published(model[i])
                                     ELSE model[i]]
    BY <1>5 DEF NotesUploaded, Receiving, Items
  <2>2. batch \subseteq Notes
    BY <1>1, <2>1 DEF At, IInv, CallsOK
  <2> HIDE DEF batch
  <2>3. \A i \in Items : item'[i] = IF i \in batch
                                    THEN (IF i \in denied THEN "Failed" ELSE "Success")
                                    ELSE item[i]
    BY <2>1
  <2>4. \A a \in Assets : model'[a] = model[a]
    BY <1>1, <2>1, <2>2 DEF Items
  <2>5. \A a \in Assets : item'[a] = "WaitingForImage" /\ HasLocalBadge(a) =>
           HasLocalBadge(a)' /\ BadgeOf[a] # Of(t)
    BY <2>1, <2>4, BadgesApart DEF HasLocalBadge
  <2>6. Of(t) \in batch
    BY <1>1, <2>1 DEF batch, Progress, WaitsOK
  <2>7. \A i \in Items : item'[i] \in {"None", "WaitingForImage"} =>
           item'[i] = item[i] /\ i # Of(t)
    BY <2>3, <2>6
  <2>8. \A i \in Items : item'[i] # "Uploading"
    BY <1>2, <2>3 DEF batch
  <2> QED
    BY <1>1, <2>5, <2>7, <2>8, DoneProgress
<1> QED
  BY <1>3, <1>4, <1>5

LEMMA BadgeUploadedProgress ==
    ASSUME IInv, Progress, NEW t \in Threads, BadgeUploaded(t)
    PROVE  Progress'
<1> DEFINE ready == WaitingFor(Of(t))
<1>1. /\ InTask(t) /\ Of(t) \in Badges /\ Of(t) \notin Items
      /\ UNCHANGED <<item, dialog>>
  BY UploadAssumption DEF BadgeUploaded, Receiving, At, InTask
<1>2. PICK more \in Uploads(ready) : TaskDone(t, more)
  BY DEF BadgeUploaded
<1>3. /\ ready \in SUBSET Assets
      /\ \A a \in Assets : a \in ready <=> /\ item[a] = "WaitingForImage"
                                           /\ HasLocalBadge(a) /\ BadgeOf[a] = Of(t)
      /\ \A i \in Items \ ready : model'[i] = model[i]
  BY DEF WaitingFor, BadgeUploaded
<1>4. \A a \in ready : \E k \in DOMAIN more : more[k].of = a
  BY <1>2 DEF Uploads
<1> HIDE DEF ready
<1>5. /\ more \in Seq(Task) /\ DOMAIN more = 1..Len(more)
      /\ \A j \in 1..Len(more) : more[j].state = "None"
  <2>1. more \in Seq(Task)
    BY <1>2, <1>3, UploadsFacts
  <2> QED
    BY <1>2, <1>3, <2>1, UploadsFacts, LenProperties
<1>6. /\ \A x : Pending(x) => x = Of(t) \/ Pending(x)'
      /\ \A j \in 1..Len(more) : Pending(more[j].of)'
      /\ EndOK' /\ QueueingOK' /\ \A s \in Threads : ~At(s, "receive")'
      /\ \A i \in Items : item[i] # "Uploading"
  BY <1>1, <1>2, <1>5, TaskProgress
<1>7. \A a \in ready : Pending(a)'
  BY <1>4, <1>5, <1>6
<1>8. ASSUME NEW i \in Items, item[i] = "WaitingForImage"
      PROVE  i \in Assets /\ (Pending(i)' \/ (HasLocalBadge(i)' /\ Pending(BadgeOf[i])'))
  <2>1. i \in Assets /\ (Pending(i) \/ (HasLocalBadge(i) /\ Pending(BadgeOf[i])))
    BY <1>8 DEF Progress, WaitsOK
  <2>2. CASE i \in ready
    BY <1>7, <2>1, <2>2
  <2>3. CASE i \notin ready
    <3>1. HasLocalBadge(i) => HasLocalBadge(i)' /\ BadgeOf[i] # Of(t)
      BY <1>3, <1>8, <2>1, <2>3 DEF HasLocalBadge
    <3> QED
      BY <1>1, <1>6, <2>1, <3>1
  <2> QED
    BY <2>2, <2>3
<1>9. \A i \in Items : item[i] = "None" => Pending(i)'
  BY <1>1, <1>6 DEF Progress, WaitsOK
<1>10. WaitsOK'
  BY <1>1, <1>6, <1>8, <1>9 DEF WaitsOK
<1> QED
  BY <1>6, <1>10 DEF Progress

\* A task that is queued waits, behind those that are there.
LEMMA QueueProgress ==
    ASSUME IInv, Progress, ui = "queueing", UNCHANGED <<dialog, thread>>,
           NEW x \in Items \cup Badges, QueueTask(x)
    PROVE  Pending(x)' /\ (\A y : Pending(y) => Pending(y)') /\ EndOK'
<1> DEFINE n == Len(tasks)
<1>1. /\ DOMAIN tasks = 1..n /\ n \in Nat
      /\ DOMAIN tasks' = 1..(n + 1) /\ \A j \in 1..n : tasks'[j] = tasks[j]
      /\ tasks'[n + 1] = [of |-> x, state |-> "None"]
  <2>1. DOMAIN tasks = 1..n
    BY LenProperties DEF IInv, Typed
  <2>2. tasks' \in Seq(Task) /\ Len(tasks') = n + 1
    BY QueueFacts
  <2>3. DOMAIN tasks' = 1..(n + 1)
    BY <2>2, LenProperties
  <2> QED
    BY <2>1, <2>3, QueueFacts
<1> HIDE DEF n
<1>2. n + 1 \in 1..(n + 1) /\ 1..n \subseteq 1..(n + 1)
      /\ \A k \in 1..(n + 1) : k \in 1..n \/ k = n + 1
  BY <1>1
<1>3. Pending(x)'
  BY <1>1, <1>2 DEF Pending
<1>4. \A y : Pending(y) => Pending(y)'
  BY <1>1, <1>2 DEF Pending
<1>5. EndOK'
  BY <1>1, <1>2 DEF Progress, EndOK, QueueingOK, dialog, InTask
<1> QED
  BY <1>3, <1>4, <1>5

LEMMA QueueAssetProgress ==
    ASSUME IInv, Progress, NEW a \in Assets, QueueAsset(a)
    PROVE  Progress'
<1>1. /\ ui = "queueing" /\ item[a] = "unqueued" /\ a \in Items
      /\ UNCHANGED <<dialog, thread, call, model>>
  BY DEF QueueAsset, Items
<1>2. \A t \in Threads : ~At(t, "receive") /\ ~At(t, "receive")'
  BY <1>1 DEF IInv, Exclusive, At
<1>3. \A i \in Items : item[i] # "Uploading"
  BY <1>2 DEF Progress, WaitsOK
<1>4. \A b \in Assets : HasLocalBadge(b)' <=> HasLocalBadge(b)
  BY <1>1 DEF HasLocalBadge
<1>5. CASE ~HasLocalBadge(a)
  <2>1. item' = [item EXCEPT ![a] = "None"] /\ QueueTask(a)
    BY <1>5 DEF QueueAsset
  <2>2. \A i \in Items : item'[i] = IF i = a THEN "None" ELSE item[i]
    BY <2>1 DEF IInv, Typed
  <2>3. Pending(a)' /\ (\A y : Pending(y) => Pending(y)') /\ EndOK'
    BY <1>1, <2>1, QueueProgress
  <2>4. WaitsOK'
    BY <1>2, <1>3, <1>4, <2>2, <2>3 DEF Progress, WaitsOK
  <2>5. QueueingOK'
    BY <1>1, <1>4, <1>5, <2>2 DEF Progress, QueueingOK, dialog, Items
  <2> QED
    BY <2>3, <2>4, <2>5 DEF Progress
<1>6. CASE HasLocalBadge(a)
  <2>1. item' = [item EXCEPT ![a] = "WaitingForImage"] /\ BadgeOf[a] \in Badges
    BY <1>6 DEF QueueAsset, HasLocalBadge, Badges
  <2>2. \A i \in Items : item'[i] = IF i = a THEN "WaitingForImage" ELSE item[i]
    BY <2>1 DEF IInv, Typed
  <2>3. Pending(BadgeOf[a])' /\ (\A y : Pending(y) => Pending(y)') /\ EndOK'
    <3>1. CASE \E b \in Assets : item[b] # "unqueued" /\ BadgeOf[b] = BadgeOf[a]
      <4>1. PICK b \in Assets : item[b] # "unqueued" /\ BadgeOf[b] = BadgeOf[a]
        BY <3>1
      <4>2. HasLocalBadge(b) /\ item[b] = "WaitingForImage" /\ b \in Items
        BY <1>1, <1>6, <4>1 DEF Progress, QueueingOK, HasLocalBadge, Items
      <4>3. ~Pending(b)
        BY <1>1, <4>2 DEF IInv, TasksOK, Pending, Open
      <4>4. Pending(BadgeOf[a])
        BY <4>1, <4>2, <4>3 DEF Progress, WaitsOK
      <4>5. UNCHANGED tasks
        BY <1>6, <3>1 DEF QueueAsset
      <4>6. \A y : Pending(y) => Pending(y)'
        BY <4>5 DEF Pending
      <4> QED
        BY <1>1, <4>4, <4>5, <4>6 DEF Progress, EndOK, dialog, InTask
    <3>2. CASE ~ \E b \in Assets : item[b] # "unqueued" /\ BadgeOf[b] = BadgeOf[a]
      <4>1. QueueTask(BadgeOf[a])
        BY <1>6, <3>2 DEF QueueAsset
      <4> QED
        BY <1>1, <2>1, <4>1, QueueProgress
    <3> QED
      BY <3>1, <3>2
  <2>4. WaitsOK'
    BY <1>2, <1>3, <1>4, <1>6, <2>2, <2>3 DEF Progress, WaitsOK
  <2>5. QueueingOK'
    BY <1>1, <1>4, <2>2 DEF Progress, QueueingOK, dialog, Items
  <2> QED
    BY <2>3, <2>4, <2>5 DEF Progress
<1> QED
  BY <1>5, <1>6

LEMMA QueueMemoryNoteProgress ==
    ASSUME IInv, Progress, NEW n \in Notes, QueueMemoryNote(n)
    PROVE  Progress'
<1>1. /\ ui = "queueing" /\ n \in Items /\ n \notin Assets /\ QueueTask(n)
      /\ item' = [item EXCEPT ![n] = "None"]
      /\ UNCHANGED <<dialog, thread, call, model>>
  BY UploadAssumption DEF QueueMemoryNote, Items
<1>2. \A t \in Threads : ~At(t, "receive") /\ ~At(t, "receive")'
  BY <1>1 DEF IInv, Exclusive, At
<1>3. \A i \in Items : item[i] # "Uploading"
  BY <1>2 DEF Progress, WaitsOK
<1>4. \A i \in Items : item'[i] = IF i = n THEN "None" ELSE item[i]
  BY <1>1 DEF IInv, Typed
<1>5. Pending(n)' /\ (\A y : Pending(y) => Pending(y)') /\ EndOK'
  BY <1>1, QueueProgress
<1>6. \A b \in Assets : HasLocalBadge(b)' <=> HasLocalBadge(b)
  BY <1>1 DEF HasLocalBadge
<1>7. WaitsOK'
  BY <1>2, <1>3, <1>4, <1>5, <1>6 DEF Progress, WaitsOK
<1>8. QueueingOK'
  BY <1>1, <1>4, <1>6 DEF Progress, QueueingOK, dialog, Items
<1> QED
  BY <1>5, <1>7, <1>8 DEF Progress

LEMMA StepProgress == IInv /\ Progress /\ [Next]_vars => Progress'
<1> SUFFICES ASSUME IInv, Progress, [Next]_vars PROVE Progress'
  OBVIOUS
<1>1. CASE \E a \in Assets : QueueAsset(a)
  BY <1>1, QueueAssetProgress
<1>2. CASE \E n \in Notes : QueueMemoryNote(n)
  BY <1>2, QueueMemoryNoteProgress
<1>3. CASE BeginTasks \/ Cancel \/ Finish
  BY <1>3, DialogProgress DEF Finish
<1>4. ASSUME NEW t \in Threads, Work(t) \/ Busy(t) \/ Lose(t) PROVE Progress'
  BY <1>4, RestProgress, PickProgress, SendAssetProgress, SendNotesProgress DEF Work
<1>5. ASSUME NEW t \in Threads, Settle(t) PROVE Progress'
  BY <1>5, BadgeUploadedProgress, SettledProgress DEF Settle
<1>6. CASE UNCHANGED vars
  <2>1. /\ UNCHANGED <<tasks, item, call, complete, model, thread, ui, result, cancelled>>
    BY <1>6 DEF vars, queue, dialog
  <2> QED
    BY <2>1 DEF Progress, WaitsOK, EndOK, QueueingOK, Pending, At, Of, InTask, HasLocalBadge
<1> QED
  BY <1>1, <1>2, <1>3, <1>4, <1>5, <1>6 DEF Next

-----------------------------------------------------------------------------
(* The theorems                                                            *)

LEMMA StepIInv == IInv /\ [Next]_vars => IInv'
<1> SUFFICES ASSUME IInv, [Next]_vars PROVE IInv'
  OBVIOUS
<1>1. Exclusive'
  BY ExclusiveStep DEF IInv
<1>2. CASE \E a \in Assets : QueueAsset(a)
  BY <1>1, <1>2, QueueAssetStep
<1>3. CASE \E n \in Notes : QueueMemoryNote(n)
  BY <1>1, <1>3, QueueMemoryNoteStep
<1>4. CASE BeginTasks \/ Cancel \/ Close \/ Destroy
  BY <1>1, <1>4, DialogStep
<1>5. CASE RestoreLocalCheckpoints
  BY <1>1, <1>5, RestoreStep
<1>6. ASSUME NEW t \in Threads, Work(t) PROVE IInv'
  BY <1>1, <1>6, RestStep, PickStep, SendAssetStep, SendNotesStep DEF Work
<1>7. ASSUME NEW t \in Threads, Settle(t) PROVE IInv'
  BY <1>1, <1>7, BadgeUploadedStep, BadgeRefusedStep, AssetUploadedStep,
     AssetRefusedStep, NotesUploadedStep DEF Settle
<1>8. ASSUME NEW t \in Threads, Busy(t) \/ Lose(t) PROVE IInv'
  BY <1>1, <1>8, RestStep, LoseStep
<1>9. CASE UNCHANGED vars
  <2>1. /\ UNCHANGED <<tasks, item, dialog, thread, call, model, held, accepted, lost>>
    BY <1>9 DEF vars, queue, server
  <2>2. TasksOK'
    BY <2>1 DEF IInv, TasksOK, InTask, Open, HasLocalBadge, dialog
  <2>3. CallsOK'
    BY <2>1 DEF IInv, CallsOK, Of
  <2>4. Typed' /\ ModelsOK' /\ AcceptedOK'
    BY <2>1 DEF IInv, Typed, ModelsOK, AcceptedOK, Over, dialog
  <2> QED
    BY <1>1, <2>2, <2>3, <2>4 DEF IInv
<1> QED
  BY <1>2, <1>3, <1>4, <1>5, <1>6, <1>7, <1>8, <1>9 DEF Next, Finish

LEMMA Invariance == Spec => []IInv
BY InitIInv, StepIInv, PTL DEF Spec

\* The types of the view model's members, and that m_vActiveThreads never passes the
\* number of threads.
THEOREM TypeCorrect == Spec => []TypeOK
<1>1. IInv => TypeOK
  <2> SUFFICES ASSUME IInv PROVE TypeOK
    OBVIOUS
  <2>1. thread \in [Threads -> [at : Places, task : 0..Len(tasks)]]
    BY DEF IInv, Exclusive, Typed
  <2>2. active \in 0..MaxThreads
    BY UploadAssumption DEF IInv, Exclusive
  <2> QED
    BY <2>1, <2>2 DEF IInv, Exclusive, Typed, TypeOK, Places, Task
<1> QED
  BY <1>1, Invariance, PTL

\* AsyncKeepAlive: no thread uses the view model once its destructor has marked the
\* handle.
THEOREM NeverUsedDestroyed == Spec => []NotUsedDestroyed
<1>1. IInv => NotUsedDestroyed
  BY DEF IInv, Exclusive, NotUsedDestroyed, Working, Places, Threads, Nobody
<1> QED
  BY <1>1, Invariance, PTL

\* UploadAchievement and its kin, Publish: what is reported as successful is on the
\* server, and the rest is as the user committed it, cancelled or not.
THEOREM ResultsAlwaysTrue == Spec => []ResultsTrue
<1>1. IInv => ResultsTrue
  <2> SUFFICES ASSUME IInv, Over, NEW i \in Items
               PROVE  IF item[i] = "Success"
                      THEN model[i].server = held[i] /\ model[i].now = held[i]
                      ELSE model[i] = Committed
    BY DEF ResultsTrue
  <2>1. CASE item[i] = "Success"
    BY <2>1 DEF IInv, ModelsOK
  <2>2. CASE item[i] # "Success"
    <3>1. model[i].now = "mine" /\ model[i].local = "mine" /\ model[i].server = "old"
      BY <2>2 DEF IInv, ModelsOK
    <3>2. model[i] \in [now : Versions, local : Versions, server : Versions]
      BY DEF IInv, Typed
    <3> QED
      BY <2>2, <3>1, <3>2 DEF Committed
  <2> QED
    BY <2>1, <2>2
<1> QED
  BY <1>1, Invariance, PTL

\* QueueAchievement and UploadMemoryNotes: the server is not sent again what it has
\* taken and answered, however the images and notes are shared between threads.
THEOREM AlwaysSentOnce == Spec => []SentOnce
<1>1. IInv => SentOnce
  <2> SUFFICES ASSUME IInv, NEW x \in DOMAIN accepted, x \notin lost
               PROVE  ~(accepted[x] > 1)
    BY DEF SentOnce
  <2>1. x \in Items \cup Badges /\ accepted[x] \in Nat
    BY DEF IInv, Typed
  <2>2. accepted[x] <= 1
    BY <2>1 DEF IInv, AcceptedOK
  <2> QED
    BY <2>1, <2>2
<1> QED
  BY <1>1, Invariance, PTL

\* ProcessQueue and Publish: unless the user cancels, nothing that was queued is left
\* waiting, for its task, for the request it went along with or for its image, when the
\* dialog has closed.
THEOREM ResultsAlwaysComplete == Spec => []ResultsComplete
<1>1. IInv /\ Progress => ResultsComplete
  <2> SUFFICES ASSUME IInv, Progress, Over, ~cancelled, NEW i \in Items
               PROVE  item[i] \in {"unqueued", "Success", "Failed"}
    BY DEF ResultsComplete
  <2>1. result # "None" /\ \A t \in Threads : ~InTask(t)
    BY DEF IInv, TasksOK, Open, Over
  <2>2. \A x : ~Pending(x)
    <3>1. complete \/ tasks = << >>
      BY <2>1 DEF Progress, EndOK
    <3> QED
      BY <3>1 DEF Progress, EndOK, Pending
  <2>3. item[i] \notin {"None", "WaitingForImage", "Uploading"}
    BY <2>1, <2>2 DEF Progress, WaitsOK, At, InTask
  <2> QED
    BY <2>3 DEF IInv, Typed, ItemStates
<1>2. Spec => []Progress
  BY InitProgress, StepProgress, Invariance, PTL DEF Spec
<1> QED
  BY <1>1, <1>2, Invariance, PTL
=============================================================================
