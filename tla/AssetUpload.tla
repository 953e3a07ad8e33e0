---------------------------- MODULE AssetUpload ----------------------------
(***************************************************************************)
(* Publishing: AssetListViewModel::Publish, and the publishing of memory   *)
(* notes, fill the queue of an AssetUploadViewModel, show it, and look at  *)
(* the outcome.  ProgressViewModel runs the tasks of the queue on up to    *)
(* four threads of the pool while its dialog is shown, and AsyncObject     *)
(* keeps it in existence while a thread uses it.                           *)
(*                                                                         *)
(* The server may accept a request, refuse it, ask to come back later, or  *)
(* accept it and the answer is lost.  The user may cancel at any time.     *)
(* What is uploaded is abstract: what the server had before, what the      *)
(* user committed, and the same with the name of an image that the server  *)
(* has given it.                                                           *)
(***************************************************************************)
EXTENDS Naturals, Sequences, FiniteSets

CONSTANTS
    Assets,     \* achievements, leaderboards, rich presence
    Notes,      \* the addresses of modified memory notes
    BadgeOf,    \* the local image of each asset, or
    NoBadge,    \* none
    MaxThreads, \* four in the code
    BatchSize   \* notes in a request, a hundred in the code

Items == Assets \cup Notes
Badges == {BadgeOf[a] : a \in Assets} \ {NoBadge}

ASSUME UploadAssumption ==
    /\ Notes \subseteq Nat /\ Assets \cap Notes = {} /\ Badges \cap Items = {}
    /\ IsFiniteSet(Items)
    /\ MaxThreads \in Nat \ {0} /\ BatchSize \in Nat \ {0, 1}

VARIABLES
    tasks,      \* m_vTasks: what each task uploads, and its state
    item,       \* m_vUploadQueue: the state of each item
    complete,   \* m_bQueueComplete
    active,     \* m_vActiveThreads
    result,     \* the result of the dialog
    ui,         \* where the thread of the user interface is
    thread,     \* where each thread of the pool is, in which task
    owner,      \* the thread that holds the mutex of the AsyncHandle
    destroyed,  \* AsyncHandle::m_bDestroyed
    call,       \* what the request of each thread contains
    model,      \* each item: as it is, its local and its server checkpoint
    held,       \* what the server has
    accepted,   \* history: how many times the server accepted each upload
    lost,       \* history: uploads accepted whose answer was lost
    cancelled   \* history: the user cancelled

queue == <<tasks, item>>
dialog == <<complete, active, result, ui, owner, destroyed, cancelled>>
server == <<held, accepted, lost>>
vars == <<queue, dialog, thread, call, model, server>>

-----------------------------------------------------------------------------
Threads == 1..MaxThreads
Nobody == 0
Versions == {"old", "mine", "badged"}
ItemStates == {"unqueued", "None", "Uploading", "WaitingForImage", "Success",
               "Failed"}
Committed == [now |-> "mine", local |-> "mine", server |-> "old"]

\* AssetModelBase::UpdateLocalCheckpoint and UpdateServerCheckpoint, or
\* MemoryNotesModel::SetServerNote
Published(m) == [m EXCEPT !.local = m.now, !.server = m.now]

Init ==
    /\ tasks = << >>
    /\ item = [i \in Items |-> "unqueued"]
    /\ complete = FALSE /\ active = 0 /\ result = "None"
    /\ ui = "queueing"
    /\ thread = [t \in Threads |-> [at |-> "none", task |-> 0]]
    /\ owner = Nobody /\ destroyed = FALSE
    /\ call = [t \in Threads |-> << >>]
    /\ model = [i \in Items |-> Committed]
    /\ held = [i \in Items |-> "old"]
    /\ accepted = [x \in Items \cup Badges |-> 0]
    /\ lost = {} /\ cancelled = FALSE

-----------------------------------------------------------------------------
(* Filling the queue                                                       *)

QueueTask(x) == tasks' = Append(tasks, [of |-> x, state |-> "None"])

\* The badge as it is now: the image of the user, or the server's.
HasLocalBadge(a) == BadgeOf[a] # NoBadge /\ model[a].now # "badged"

\* An achievement with a local image waits for it.  The image is uploaded once.
QueueAsset(a) ==
    /\ ui = "queueing" /\ item[a] = "unqueued"
    /\ \A n \in Notes : item[n] = "unqueued"
    /\ IF HasLocalBadge(a)
       THEN /\ item' = [item EXCEPT ![a] = "WaitingForImage"]
            /\ IF \E b \in Assets : item[b] # "unqueued" /\ BadgeOf[b] = BadgeOf[a]
               THEN UNCHANGED tasks
               ELSE QueueTask(BadgeOf[a])
       ELSE /\ item' = [item EXCEPT ![a] = "None"]
            /\ QueueTask(a)
    /\ UNCHANGED <<dialog, thread, call, model, server>>

\* MemoryNotesViewModel publishes notes, AssetListViewModel what is not notes.
\* The notes are queued in the order of their addresses.  One of another author
\* is left out unless the user confirms.
QueueMemoryNote(n) ==
    /\ ui = "queueing"
    /\ \A i \in Items : i \in Assets \/ i >= n => item[i] = "unqueued"
    /\ item' = [item EXCEPT ![n] = "None"]
    /\ QueueTask(n)
    /\ UNCHANGED <<dialog, thread, call, model, server>>

\* The dialog becomes visible, and threads are started.
BeginTasks ==
    /\ ui = "queueing"
    /\ ui' = "modal"
    /\ IF tasks = << >>
       THEN result' = "OK" /\ UNCHANGED thread
       ELSE /\ thread' = [t \in Threads |-> IF t <= Len(tasks)
                                            THEN [thread[t] EXCEPT !.at = "queued"]
                                            ELSE thread[t]]
            /\ UNCHANGED result
    /\ UNCHANGED <<queue, complete, active, owner, destroyed, cancelled, call,
                   model, server>>

-----------------------------------------------------------------------------
(* The threads of the pool                                                 *)

At(t, place) == thread[t].at = place
Go(t, place) == thread' = [thread EXCEPT ![t].at = place]

\* Variant: the mutex is shared by the threads.
EnterShared(t) ==
    /\ At(t, "queued") /\ ~destroyed
    /\ owner' = t
    /\ active' = active + 1
    /\ Go(t, "pick")
    /\ UNCHANGED <<queue, complete, result, ui, destroyed, cancelled, call,
                   model, server>>

\* Variant: a thread that enters is not counted.
EnterUncounted(t) ==
    /\ At(t, "queued") /\ owner = Nobody /\ ~destroyed
    /\ owner' = t
    /\ Go(t, "pick")
    /\ UNCHANGED <<queue, complete, active, result, ui, destroyed, cancelled, call,
                   model, server>>

\* AsyncKeepAlive takes the mutex of the handle.  There is one handle, and so
\* the threads work one after the other.
Enter(t) ==
    /\ At(t, "queued") /\ owner = Nobody /\ ~destroyed
    /\ owner' = t
    /\ active' = active + 1
    /\ Go(t, "pick")
    /\ UNCHANGED <<queue, complete, result, ui, destroyed, cancelled, call,
                   model, server>>

\* The view model is no more.
Late(t) ==
    /\ At(t, "queued") /\ owner = Nobody /\ destroyed
    /\ Go(t, "done")
    /\ UNCHANGED <<queue, dialog, call, model, server>>

Waiting == {k \in DOMAIN tasks : tasks[k].state = "None"}

\* ProcessQueue, under its mutex: the first task that waits.
Pick(t) ==
    /\ At(t, "pick")
    /\ IF complete \/ result # "None"
       THEN Go(t, "leave") /\ UNCHANGED <<tasks, complete>>
       ELSE IF Waiting = {}
       THEN complete' = TRUE /\ UNCHANGED <<tasks, thread>>
       ELSE LET k == CHOOSE k \in Waiting : \A j \in Waiting : k <= j IN
            /\ tasks' = [tasks EXCEPT ![k].state = "Running"]
            /\ thread' = [thread EXCEPT ![t] = [at |-> "send", task |-> k]]
            /\ UNCHANGED complete
    /\ UNCHANGED <<item, active, result, ui, owner, destroyed, cancelled, call,
                   model, server>>

\* Variant: a thread that leaves because of the user stays counted.
LeaveKeepsCount(t) ==
    /\ At(t, "leave")
    /\ active' = IF complete THEN active - 1 ELSE active
    /\ result' = IF active = 1 /\ complete THEN "OK" ELSE result
    /\ owner' = Nobody
    /\ Go(t, "done")
    /\ UNCHANGED <<queue, complete, ui, destroyed, cancelled, call, model, server>>

\* The thread leaves, and the last to leave a queue that is complete closes
\* the dialog.
Leave(t) ==
    /\ At(t, "leave")
    /\ active' = active - 1
    /\ result' = IF active = 1 /\ complete THEN "OK" ELSE result
    /\ owner' = Nobody
    /\ Go(t, "done")
    /\ UNCHANGED <<queue, complete, ui, destroyed, cancelled, call, model, server>>

-----------------------------------------------------------------------------
(* A task of the queue                                                     *)

Of(t) == tasks[thread[t].task].of
Sending(t, kind) == At(t, "send") /\ Of(t) \in kind
Receiving(t, kind) == At(t, "receive") /\ Of(t) \in kind

\* The task is over, and what else it queued comes last.
TaskDone(t, more) ==
    /\ tasks' = [tasks EXCEPT ![thread[t].task].state = "Done"] \o more
    /\ Go(t, "pick")
    /\ call' = [call EXCEPT ![t] = << >>]

SendBadge(t) ==
    /\ Sending(t, Badges)
    /\ Go(t, "receive")
    /\ UNCHANGED <<queue, dialog, call, model, server>>

\* UploadAchievement, UploadLeaderboard, UploadRichPresence
SendAsset(t) ==
    /\ Sending(t, Assets)
    /\ call' = [call EXCEPT ![t] = [a \in {Of(t)} |-> model[a].now]]
    /\ Go(t, "receive")
    /\ UNCHANGED <<queue, dialog, model, server>>

\* The notes that are uploaded along: those queued first, up to the limit.
Rank(n) == CHOOSE k \in DOMAIN tasks : tasks[k].of = n
Along(n) ==
    LET open == {m \in Notes \ {n} : item[m] = "None"}
    IN {m \in open :
          Cardinality({o \in open : Rank(o) < Rank(m)}) < BatchSize - 1}

\* Variant: a note is uploaded although it went along with another.
SendNotesAgain(t) ==
    /\ Sending(t, Notes)
    /\ LET batch == {Of(t)} \cup Along(Of(t)) IN
       /\ call' = [call EXCEPT ![t] = [n \in batch |-> model[n].now]]
       /\ item' = [i \in Items |-> IF i \in batch THEN "Uploading" ELSE item[i]]
    /\ Go(t, "receive")
    /\ UNCHANGED <<tasks, dialog, model, server>>

\* UploadMemoryNotes, under its mutex
SendNotes(t) ==
    /\ Sending(t, Notes)
    /\ IF item[Of(t)] # "None"
       THEN TaskDone(t, << >>) /\ UNCHANGED item
       ELSE /\ LET batch == {Of(t)} \cup Along(Of(t)) IN
               /\ call' = [call EXCEPT ![t] = [n \in batch |-> model[n].now]]
               /\ item' = [i \in Items |-> IF i \in batch THEN "Uploading"
                                                         ELSE item[i]]
            /\ Go(t, "receive")
            /\ UNCHANGED tasks
    /\ UNCHANGED <<dialog, model, server>>

\* The server takes what it accepts of a request.
Accept(taken, version) ==
    /\ held' = [i \in Items |-> IF i \in taken THEN version[i] ELSE held[i]]
    /\ accepted' = [x \in DOMAIN accepted |-> IF x \in taken THEN accepted[x] + 1
                                                            ELSE accepted[x]]

WaitingFor(b) ==
    {a \in Assets : item[a] = "WaitingForImage" /\ HasLocalBadge(a)
                    /\ BadgeOf[a] = b}

\* The uploads of the achievements that waited for an image, in any order
Uploads(set) ==
    {s \in [1..Cardinality(set) -> [of : set, state : {"None"}]] :
        \A a \in set : \E k \in DOMAIN s : s[k].of = a}

\* The image was taken: the achievements that wait for it are uploaded next.
\* (The state of their items stays.)
BadgeUploaded(t) ==
    /\ Receiving(t, Badges)
    /\ LET ready == WaitingFor(Of(t)) IN
       /\ model' = [i \in Items |-> IF i \in ready
                                    THEN [model[i] EXCEPT !.now = "badged"]
                                    ELSE model[i]]
       /\ \E more \in Uploads(ready) : TaskDone(t, more)
    /\ accepted' = [accepted EXCEPT ![Of(t)] = @ + 1]
    /\ UNCHANGED <<item, dialog, held, lost>>

BadgeRefused(t) ==
    /\ Receiving(t, Badges)
    /\ item' = [i \in Items |-> IF i \in Assets /\ i \in WaitingFor(Of(t))
                                THEN "Failed" ELSE item[i]]
    /\ TaskDone(t, << >>)
    /\ UNCHANGED <<dialog, model, server>>

\* Variant: the local checkpoint is not the server's after that.
AssetUploadedLocally(t) ==
    /\ Receiving(t, Assets)
    /\ Accept({Of(t)}, call[t])
    /\ model' = [model EXCEPT ![Of(t)].local = model[Of(t)].now]
    /\ item' = [item EXCEPT ![Of(t)] = "Success"]
    /\ TaskDone(t, << >>)
    /\ UNCHANGED <<dialog, lost>>

AssetUploaded(t) ==
    /\ Receiving(t, Assets)
    /\ Accept({Of(t)}, call[t])
    /\ model' = [model EXCEPT ![Of(t)] = Published(@)]
    /\ item' = [item EXCEPT ![Of(t)] = "Success"]
    /\ TaskDone(t, << >>)
    /\ UNCHANGED <<dialog, lost>>

AssetRefused(t) ==
    /\ Receiving(t, Assets)
    /\ item' = [item EXCEPT ![Of(t)] = "Failed"]
    /\ TaskDone(t, << >>)
    /\ UNCHANGED <<dialog, model, server>>

\* Notes that the user may not change are refused, the others accepted.
NotesUploaded(t, denied) ==
    /\ Receiving(t, Notes) /\ denied \subseteq DOMAIN call[t]
    /\ LET batch == DOMAIN call[t]
           taken == batch \ denied
       IN
       /\ Accept(taken, call[t])
       /\ model' = [i \in Items |-> IF i \in taken THEN Published(model[i])
                                                   ELSE model[i]]
       /\ item' = [i \in Items |-> CASE i \in taken -> "Success"
                                     [] i \in denied -> "Failed"
                                     [] OTHER -> item[i]]
    /\ TaskDone(t, << >>)
    /\ UNCHANGED <<dialog, lost>>

\* A failure that may pass: the request is sent again after a rest.
Retry(t) ==
    /\ At(t, "receive")
    /\ Go(t, IF Of(t) \in Notes THEN "receive" ELSE "send")

\* The server is busy or cannot be reached.
Busy(t) ==
    /\ Retry(t)
    /\ UNCHANGED <<queue, dialog, call, model, server>>

\* The connection is lost after the server took the request: once, which bounds
\* how often a request is sent again.
Lose(t) ==
    /\ Retry(t) /\ lost = {}
    /\ IF Of(t) \in Badges
       THEN accepted' = [accepted EXCEPT ![Of(t)] = @ + 1] /\ UNCHANGED held
       ELSE Accept(DOMAIN call[t], call[t])
    /\ lost' = lost \cup DOMAIN call[t] \cup {Of(t)}
    /\ UNCHANGED <<queue, dialog, call, model>>

-----------------------------------------------------------------------------
(* The thread of the user interface                                        *)

Cancel ==
    /\ ui = "modal"
    /\ result' = "Cancel" /\ cancelled' = TRUE
    /\ UNCHANGED <<queue, complete, active, ui, owner, destroyed, thread, call,
                   model, server>>

\* ProgressDialog::DoCloseWindow, called again until no thread works
Close ==
    /\ ui = "modal" /\ result # "None"
    /\ IF active # 0
       THEN result' = "Cancel" /\ UNCHANGED ui
       ELSE ui' = "over" /\ UNCHANGED result
    /\ UNCHANGED <<queue, complete, active, owner, destroyed, cancelled, thread,
                   call, model, server>>

\* Publish reverts what was not published.
RestoreLocalCheckpoints ==
    /\ ui = "over"
    /\ model' = [i \in Items |-> IF i \in Assets /\ item[i] # "unqueued"
                                 THEN [model[i] EXCEPT !.now = model[i].local]
                                 ELSE model[i]]
    /\ ui' = "results"
    /\ UNCHANGED <<queue, complete, active, result, owner, destroyed, cancelled,
                   thread, call, server>>

\* Variant: the destructor does not wait.
DestroyAtOnce ==
    /\ ui = "results"
    /\ destroyed' = TRUE /\ ui' = "gone"
    /\ UNCHANGED <<queue, complete, active, result, owner, cancelled, thread, call,
                   model, server>>

\* The results are shown, and the destructor waits for the mutex.
Destroy ==
    /\ ui = "results" /\ owner = Nobody
    /\ destroyed' = TRUE /\ ui' = "gone"
    /\ UNCHANGED <<queue, complete, active, result, owner, cancelled, thread, call,
                   model, server>>

-----------------------------------------------------------------------------
Settle(t) ==
    \/ BadgeUploaded(t) \/ BadgeRefused(t)
    \/ AssetUploaded(t) \/ AssetRefused(t)
    \/ \E denied \in SUBSET Notes : NotesUploaded(t, denied)

Work(t) ==
    \/ Enter(t) \/ Late(t) \/ Pick(t) \/ Leave(t)
    \/ SendBadge(t) \/ SendAsset(t) \/ SendNotes(t)

Finish == Close \/ RestoreLocalCheckpoints \/ Destroy

Next ==
    \/ \E a \in Assets : QueueAsset(a)
    \/ \E n \in Notes : QueueMemoryNote(n)
    \/ BeginTasks \/ Cancel \/ Finish
    \/ \E t \in Threads : Work(t) \/ Settle(t) \/ Busy(t) \/ Lose(t)

Spec == Init /\ [][Next]_vars

\* The threads of the pool and of the user interface run, and the server does
\* not stay busy forever.
FairSpec ==
    /\ Spec /\ WF_vars(Finish)
    /\ \A t \in Threads : WF_vars(Work(t)) /\ SF_vars(Settle(t))

-----------------------------------------------------------------------------
TypeOK ==
    /\ tasks \in Seq([of : Items \cup Badges, state : {"None", "Running", "Done"}])
    /\ item \in [Items -> ItemStates]
    /\ complete \in BOOLEAN /\ destroyed \in BOOLEAN /\ cancelled \in BOOLEAN
    /\ active \in 0..MaxThreads
    /\ result \in {"None", "OK", "Cancel"}
    /\ ui \in {"queueing", "modal", "over", "results", "gone"}
    /\ thread \in [Threads -> [at : {"none", "queued", "pick", "send", "receive",
                                     "leave", "done"},
                               task : 0..Len(tasks)]]
    /\ owner \in Threads \cup {Nobody}
    /\ model \in [Items -> [now : Versions, local : Versions, server : Versions]]
    /\ held \in [Items -> Versions]
    /\ accepted \in [Items \cup Badges -> Nat]
    /\ lost \subseteq Items \cup Badges

Over == ui \in {"results", "gone"}

\* Unless the user cancels, everything that was queued has succeeded or failed
\* when the dialog closes: no achievement is left waiting for its image, no note
\* for its request.
ResultsComplete ==
    Over /\ ~cancelled =>
        \A i \in Items : item[i] \in {"unqueued", "Success", "Failed"}

\* Whether it was cancelled or not, what is reported as successful is what the
\* server has, and everything else is as before (Publish: "if anything failed,
\* revert to pre-publish state"), its image included.
ResultsTrue ==
    Over => \A i \in Items :
        IF item[i] = "Success"
        THEN model[i].server = held[i] /\ model[i].now = held[i]
        ELSE model[i] = Committed

\* Nothing is sent that the server took, if its answer came: neither an image
\* that two achievements use nor a note that went along with another.
SentOnce ==
    \A x \in DOMAIN accepted : accepted[x] > 1 => x \in lost

\* No thread uses the view model once it is destroyed.
NotUsedDestroyed ==
    ui = "gone" => \A t \in Threads : thread[t].at \in {"none", "queued", "done"}

\* The dialog closes and the view model goes, whatever the server does and
\* whenever the user cancels.
PublishEnds == ui = "modal" ~> ui = "gone"
=============================================================================
