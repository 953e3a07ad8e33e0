# RAIntegration in TLA+

RAIntegration is the C++ library (`RA_Integration.dll`) that emulators load to
offer RetroAchievements and the toolkit with which achievements are written.
This directory holds TLA+ modules that model parts of it, the TLC
configurations that check them on small instances, and theorems about them that
TLAPS checks for every instance. `PROJECT.json` relates each definition to the
lines it models, and lists the runs, the mutations of the model that each
property must notice, the hazards the properties are for, and the disagreements
between documentation and code that the runs show.

Paths below are relative to `src/src/`.

## The system

| component | state | operations | works with |
|---|---|---|---|
| Background threads (`services/impl/ThreadPool`) | queue of functions, sorted list of delayed functions, two condition variables, shutdown flag | Initialize, RunAsync, ScheduleAsync, RunThread, ProcessDelayedTasks, Shutdown | everything that downloads, uploads, polls or ticks |
| Assets (`devkit/data/models/AssetModelBase`, `devkit/data/DataModelBase`) | property values, a stack of transactions with the originals of what changed, three text buffers per definition | edit, Create/Update/Restore of the local and the server checkpoint, Serialize, Deserialize | GameAssets, editors, the runtime |
| Achievements, leaderboards, rich presence (`devkit/data/models/*Model`) | an asset each, a pointer into the runtime, a change-tracking reaction per property | activate, deactivate, DoFrame, sync to the runtime | assets, LocalBadges, the runtime |
| Asset collection and user file (`devkit/data/models/GameAssets`) | the assets of the loaded game, next local id | SaveAssets, ReloadAssets, Create/Find | assets, local storage, list view models |
| Publishing (`ui/viewmodels/AssetUploadViewModel`, `AssetListViewModel`) | queue of uploads with a state each, under a mutex | QueueAsset, upload badge, upload achievement, handle the answers | ThreadPool, server, assets |
| Local badges (`devkit/data/models/LocalBadgesModel`) | committed and uncommitted uses of each image file | AddReference, RemoveReference, Commit | achievements, file system |
| Memory notes (`devkit/data/models/MemoryNotesModel`) | note and original note per address, pending notes, refreshing flag | Refresh, SetNote, Serialize, Deserialize | server callbacks, DoFrame |
| Loaded game (`data/context/GameContext`) and identification (`services/GameIdentifier`) | game id and hash, load counter, load mutex; pending id and hash | BeginLoadGame, EndLoadGame, IdentifyHash, ActivateGame | AchievementRuntime, assets, notes, sessions |
| Achievement runtime (`services/AchievementRuntime`, `devkit/context/impl/RcClient`) | the rcheevos client | load callbacks, pause, DoFrame, raising events | everything above |
| Play sessions (`data/context/SessionTracker`) | current session, sums per game, write position in the file | Begin/End/UpdateSession, LoadSessions | ThreadPool, clock, local storage |
| Change notification (`devkit/data/NotifyTargetSet`, `AsyncObject`, `ModelBase`) | copy-on-write list of targets with a lock count per copy; handle with a destroyed flag | Add, Remove, Clear, Lock, Unlock; keep-alive, destruction | every model and view model |
| Frame events (`services/FrameEventQueue`) | functions and messages for the next frame | QueueFunction, QueuePause..., DoFrame | runtime, bookmarks |
| Overlay popups, image repository, login, server API, emulator memory, memory search, view models | see `PROJECT.json` | | |

What makes it hard: worker threads share a hand-written pool whose waits have no
predicates; server answers arrive on other threads after the game, the asset or
the window they are for has changed or gone; every asset exists in three
versions of which only one is stored whole; saving writes one file for assets
in different stages; notifications modify the lists they are sent over; and the
emulator thread, the window thread and the workers meet in `GameContext`.

What correctness means, component by component:

- *ThreadPool*: no task is lost, run twice, early, or after shutdown; a delayed
  task always has a scheduler that wakes in time; a pool with work works;
  shutdown ends.
- *Assets*: Changes tells the truth about the three versions; a text whose hash
  is kept can be found; save, publish, discard, revert and reload move whole
  versions; what is saved is what is written, and reads back.
- *GameAssets*: an asset that is not selected is not saved; a restart gives the
  saved state; local ids stay distinct.
- *Publishing*: each asset is uploaded once, after its badge; what is reported
  as published is what the server has; the dialog ends, and no thread outlives it.
- *LocalBadges*: a file exists while an achievement, saved or not, uses it.
- *MemoryNotes*: the last note set wins; what appears as unmodified is the
  server's; what is modified is saved.
- *GameContext*: loads and ends of loads balance, and every load ends; the
  identifier, hash, assets and notes are those of one game; the runtime is resumed.
- *SessionTracker*: play time is counted once; a crash loses little of it and
  adds nothing.
- *NotifyTargetSet, AsyncObject*: an iteration sees the list it locked; a
  callback runs on a live object or not at all.

## The modules

### ThreadPool

`ThreadPool.tla` models `services/impl/ThreadPool.cpp` and `.hh` completely. A
step is what a thread does between two points at which another thread can be
seen to run: a critical section of `m_oMutex`, one read or write of the shutdown
flag, one notification. Each worker has a `pc` in `RunThread` or
`ProcessDelayedTasks`; each thread that calls the pool has a `call` record, as
RunAsync and ScheduleAsync test the flag, insert, and notify in three steps. A
worker calls them from inside a task (`pc = "body"`), a `Clients` thread at any
time.

| model | code |
|---|---|
| `queue`, `delayed` | `m_vQueue`, `m_vDelayedTasks` |
| `Enter`/`Refuse`, `Push`, `Schedule`, `NotifyWork`, `NotifyDelayed` | RunAsync and ScheduleAsync in `ThreadPool.hh` |
| `Poll`, `CallTask`, `SkipTask`, `FinishTask`, `Again`, `BeforeWait`, `Park`, `AfterWait` | the loops of RunThread |
| `ScheduleLoop`, `MoveDue`, `AfterMove`, `NotifyReady`, `WaitForNext`, `Timeout` | ProcessDelayedTasks |
| `SetFlag`, `NotifyAllDelayed`, `NotifyAllWork`, `Join` | Shutdown, called with false and then with true |
| `SpuriousWakeup` | what the language allows a condition variable |
| `fate`, `due` | history, not in the code |

A condition variable is the set of workers that wait at a `pc`; `notify_one`
wakes one of them and nobody when there is none. Insertion by ScheduleAsync
is the loop of the code with its iterator that starts at the first element and
advances before it compares. `m_nThreads` is never assigned, so
`m_nThreads - 1` is the largest `size_t` and the branch of ProcessDelayedTasks
that would notify all never runs; the model has only the other branch.

Abstracted: what a task does, except that it may call the pool; logging; the
exception handler, which ends a task like a return does.

`TaskService.tla` is the abstract specification: what the callers of
`IThreadPool` are promised, without threads. `ThreadPool` refines it with
`closing <- shutdown`.

### Asset checkpoints

`AssetModel.tla` holds the data of one asset and the operations of
`DataModelBase` and `AssetModelBase` as operators from asset to asset: a field
per transactional property, a stack of transactions, the three text buffers of
the definition, `IsModified` and `Changes`. `AssetCheckpoint.tla` is one asset
under every operation of its callers, in every order:

| action | code |
|---|---|
| `LoadFromServer` | AchievementRuntime, after a game is loaded |
| `LoadFromFile`, `Reload`, `RevertToServer`, `Save` | GameAssets::ReloadAssets, SaveAssets |
| `CreateNew`, `Clone`, `RevertToServer`, `Delete` | AssetListViewModel |
| `EditProperty`, `EditDefinition`, `Discard` | AssetEditorViewModel |
| `Publish`, `PublishWithBadge`, `PromoteOrDemote` | AssetUploadViewModel, answers of both kinds |

An upload is one action because it is made under a modal dialog: no operation
on the asset comes between the request and the handling of the answer. One
definition stands for the up to four of a leaderboard, which never interact. The
hash of a text is taken to be injective. `Props` stands for the properties that
Serialize writes with `GetLocalValue`. Validation errors are left out: they
disable buttons. The texts and values are model values.

`AssetVersions.tla` is the abstract specification: three whole contents (server,
local, current) that each operation moves as wholes. The refinement rebuilds
the local contents from the fields and the newer transaction's originals, and
the server contents from those and the older one's.

### Change notification

`NotifyTargetSet.tla` models `devkit/data/NotifyTargetSet.hh`, and a
notification as its users make one: `LockIfNotEmpty`, the loop over `Targets()`,
`Unlock`. What a target does when it is called is any sequence of `Add`,
`Remove`, `Clear` and nested notifications.

| model | code |
|---|---|
| `node` | `vTargetList` and `nLockCount` of each `TargetListNode`, a cell of the heap that is allocated again after it was freed |
| `chain` | `m_pTargetList` and the `pNext` behind it, with `m_pTargetList` last |
| `running` | the iterators of the loops under way, the innermost last; `in` is the node their pointers point into |
| `Add`, `Remove`, `Clear` | the operation with its EnsureMutable (`Replace`) |
| `Begin`, `Deliver`, `End` | LockIfNotEmpty, one round of the loop, Unlock (`Release`) |

The iterator has no reference to its node, and `Release` does not use `in`:
Unlock has to find the lock from the lock counts. All calls are from one thread,
as the set has no mutex. Lock() without the test for an empty set is left out
(only tests call it), and so is a target that throws, which nothing catches.

`Notifications.tla` is the abstract specification: a list of targets, and
notifications that each go over the list there was when they began. The
refinement maps an iterator to the list of the node it points into.

### Loading a game

`GameLoad.tla` models how a game is identified, loaded and unloaded: parts of
`services/GameIdentifier.cpp`, `data/context/GameContext.cpp`,
`services/AchievementRuntime.cpp` and, for emulators that use `rc_client`
themselves, `services/AchievementRuntimeExports.cpp`.

| model | code |
|---|---|
| `pending`, `gameId`, `gameHash`, `loadCount`, `paused` | `m_sPendingHash` and `m_nPendingGameId`, `m_nGameId`, `m_sGameHash`, `m_nLoadCount`, `m_bPaused` |
| `assets`, `notes`, `updating` | what is in `m_vAssets`, and how many updates of it are open |
| `load[l]` | a call of BeginLoadGame with its callback, at the `stage` it has reached |
| `IdentifyHash`, `IdentifyNothing`, `Activate`, `LoadSelected`, `LoadExternal`, `Unload`, `SetGameHash` | the emulator's thread: IdentifyHash, ActivateGame, the menu, begin_load_game |
| `BeginLoadGame`, `Pause`, `Request` | GameContext::BeginLoadGame and AchievementRuntime::BeginLoadGame |
| `SetsArrive`, `SessionStarts`, `Fail`, `bound`, `current`, `game` | `rc_client`, external: one load at a time, a newer one aborts the older |
| `InitializeAchievementSets`, `InitializeIds`, `InitializeAssets`, `FinishLoadGame`, `FinishFailed` | the callbacks of a load |
| `ReadGameId`, `Merge`, `EndLoadGame`, `NotesArrive` | EndLoadGame, and EndLoad by the answer to the download of notes |
| `wish`, `overlapped`, `forced` | history, not in the code |

The emulator's thread does not wait for a load, so identifications, unloads and
further loads come between any two steps of it. `Resolve` gives the games a hash
may be identified as, by the server or by the user. `Activate` takes any game, like the
exported `_RA_ActivateGame`: ActivateGame loads it with the pending hash even if that was
identified as another game, `rc_client` binds an unknown hash to it, and the empty hash
which line 204 then sets lasts until the callback of the load puts the loaded one there
(`Exports.hh:61` calls the parameter "the unique identifier of the game to activate", and
asks for nothing more). `forced` records these games for each hash. `TogglePaused` is only taken
while nothing is loading: during a load its check box writes the flag that the
load is going to restore. `InitializeIds` needs a game, because the code
dereferences the pointer it gets. Left out is the second download that LoadGameCallback
makes for the compatibility test, when the server knows the hash under a virtual
identifier (`AchievementRuntime.cpp:623-662`).

### Publishing

`AssetUpload.tla` models one publish: `ui/viewmodels/AssetUploadViewModel.cpp`
on `ProgressViewModel.cpp`, what `AssetListViewModel::Publish` does before and
after, `ProgressDialog::DoCloseWindow`, and the keep-alive of `AsyncObject.hh`.

| model | code |
|---|---|
| `tasks`, `complete`, `active` | `m_vTasks`, `m_bQueueComplete`, `m_vActiveThreads` |
| `item` | `m_vUploadQueue` |
| `owner`, `destroyed` | the mutex and the flag of the AsyncHandle |
| `QueueAsset`, `QueueMemoryNote`, `BeginTasks` | filling the queue; the dialog becomes visible |
| `Enter`, `Late`, `Pick`, `Leave` | a thread of the pool in BeginTasks and ProcessQueue |
| `SendBadge`, `BadgeUploaded`, `BadgeRefused` and those of `Asset`, `Notes` | UploadBadge, UploadAchievement (and UploadLeaderboard, UploadRichPresence), UploadMemoryNotes |
| `Busy`, `Lose` | an answer that makes the code try again; the connection lost after the request was carried out |
| `Cancel`, `Close`, `RestoreLocalCheckpoints`, `Destroy` | the thread of the user interface |
| `held`, `accepted` | the server |
| `lost`, `cancelled` | history |

Contents are abstract: the server's old one, what the user committed, and that
with the name the server gave the image. A publish is of notes or of other
assets, never of both, as the two lists have a view model each.
A consequence of the keep-alive is that the "up to four threads" of BeginTasks
run one after the other: they share one handle and its mutex.

### Memory notes

`MemoryNotes.tla` models `devkit/data/models/MemoryNotesModel.cpp` at the grain
of its critical sections. Three threads set notes: the user's, the loader that
merges the file (`Deserialize`), and the callback with the server's answer
(`ApplyFetched`, `EndRefresh`, `Replay`); a fourth publishes (`SetServerNote`,
without the mutex). `SetNote` is two sections: it captures or drops the
original, and `AddMemoryNote` replaces the text later. OnMemoryNoteChanged follows
without the mutex, in two steps more: `LookForModified` reads whether there are originals,
`SetChanges` sets the property by what was read (`telling`). Only where SetNote removes a
note does it run with the mutex (`mutex`). `SetServerNote` ends with the same two
steps. The program may end or crash at any point
and be started again, while another user has changed a note (`Restart`).
The rest is history. `latest` is the text set last by the user or the file. `raced` are
the addresses that two threads were changing at once, of which the code promises
nothing (the hazards say what happens to them). `overtaken` are the threads that looked
for originals before another one changed these, `outdated` that such a thread was the
last that set Changes; `SavedNotesComplete` excepts saves after that, and the run
`ForgottenNotes.cfg` shows what they lose.

### Play sessions

`SessionTracker.tla` models `data/context/SessionTracker.cpp`. `EndSession` is
three steps (write the line, keep the position, add to the sum), as the thread
of the pool that runs `UpdateSession` takes no lock; that is three steps too
(`Check`, `Decide`, `Write`), and writes whatever game, start and position are
current by then. The sum and the current game are changed together: only a reader of
the play time on another thread could see one without the other. `Restart` is a crash or an orderly end, at any point, followed by
LoadSessions. Time is in steps of thirty seconds, the unit of all delays; what is
due is done before time passes (`Tick`). One thread begins and ends sessions, and
a line is written whole. `played` and `raced` are history.

## The runs

Thread pool, two workers (the fewest Initialize allows; with more workers each
race below remains and further ones are symmetric):

| run | bounds | shows |
|---|---|---|
| `MCThreadPool.cfg` | 2 tasks, 1 client, delays 0 and 1, clock to 1, both calls of Shutdown, `FairSpec` | `TypeOK`, `Custody`, `DelayedSorted`, `NeverEarly`, `SchedulerPresent`, `WokenInTime`, `DueTaskMoved` hold, and the pool implements `TaskService` |
| `LostWakeup.cfg` | 1 task, `FairSpec` | violated: queued work may wait for ever |
| `ShutdownHang.cfg` | 1 task, `FairSpec` | violated: `Shutdown(true)` may never return |

Two tasks are one that is delayed and one that is inserted before or after it or
pushed meanwhile; they are handed out in order, as nothing tells them apart. An
insertion between two delayed tasks takes a third, and is covered by the theorems, which
are for any number. Two delays make an earlier, an equal and a later time; the clock
needs one step to tell early from due. `MaxTime` bounds
the clock and every due time (a schedule beyond it is not made); `MaxRounds`
bounds the calls of Shutdown, of which the program makes two.

*Fairness.* Every thread that can take a step takes one (the operating system
schedules each thread, the mutex is never held across a wait, a task returns);
time passes; a Shutdown that has begun goes on. Nobody has to submit a task, to
shut down, or to wake a thread without a reason. Weak fairness per worker is
enough for an admissible counterexample: in both liveness counterexamples the
stuck worker is waiting with no step enabled.

Assets:

| run | bounds | shows |
|---|---|---|
| `MCAssetCheckpoint.cfg` | 2 properties of 2 values; 3 nonempty texts typed by the user, and the empty one from the server or file | `TypeOK`, `RevertSucceeds`, `ChangesAgree`, `HashFollowsText`, `TextRecoverable`, `SavedTextWritten`, `ReloadRestoresSaved` hold, and the asset implements `AssetVersions` |
| `EmptyNotWritten.cfg` | 1 property, the empty text typed as well | violated: a definition that is cleared and saved is not written |
| `LocalNotWritten.cfg` | 1 property, the empty text typed as well | violated: a local asset may report None |

The state space is finite without a bound: the operations return to two
transactions. Two values tell changed from unchanged, two properties a change of
one from a change of both; three typed texts let server, local and current all
differ. `CHECK_DEADLOCK FALSE` because an asset ends when it is deleted and the
program when an `Expects` fails, and the pool when it is joined.

`MCAssetCheckpoint.cfg` leaves clearing a definition out of the user's edits because the
finding on it would end the run. `TypeOK`, `RevertSucceeds` and `ChangesAgree` hold with it
too: their theorems are for any edits, and the other five have it as a
hypothesis. `ChangesAgree` asks nothing but "not Modified" of a local asset without a
difference to its server checkpoint, which reports None against the assertion in
SaveAssets: that is the finding of `LocalNotWritten.cfg`.

Change notification:

| run | bounds | shows |
|---|---|---|
| `MCNotifyTargetSet.cfg` | 2 targets, 3 nested notifications, 4 nodes; targets and nodes symmetric | `TypeOK`, `LocksOwned`, `CopiesReleased`, `LocksNested` hold, and the set implements `Notifications`; no deadlock |

`MaxDepth` bounds the nesting. Three notifications let two of them iterate
different copies while the list in front is changed, and a cell that was freed
be allocated for another copy under the outermost one. There are never more
nodes than notifications and the first, hence 4. Two targets make lists whose
first or last element is removed.

The other components:

| run | bounds | shows |
|---|---|---|
| `MCGameLoad.cfg` | 2 games with a hash each, one of which may also stay unidentified, any game activated with either; 2 loads, `FairSpec` | `TypeOK`, `LoadsCounted`, `ResumedAfterLoad`, `OneGame`, `HashesPaired`, `LoadEnds` hold |
| `MCAssetUpload.cfg` | 3 assets, two of them with the same image, or 4 notes in requests of 2; 3 threads; one lost answer; `FairSpec` | `TypeOK`, `ResultsComplete`, `ResultsTrue`, `SentOnce`, `NotUsedDestroyed`, `PublishEnds` hold |
| `MCMemoryNotes.cfg` | 2 symmetric addresses, 2 texts, 1 restart, 3 edits, reverts and publishes | `TypeOK`, `LastSetWins`, `UnmodifiedIsServers`, `SavedNotesComplete` hold |
| `ForgottenNotes.cfg` | the same | violated: notes that report None may have one that is modified |
| `MCSessionTracker.cfg` | 2 symmetric games, 3 sessions, 13 steps of thirty seconds | `TypeOK`, `PlaytimeTrue`, `CrashLosesLittle` hold |

Two loads of two games are what overlapping needs: one that is under way and one
that aborts it; two hashes make one that stays pending and one that is loaded.
`LoadsCounted` is checked for loads that overlap and `LoadEnds` up to the moment
they do; `ResumedAfterLoad`, `OneGame` and `HashesPaired` (but for `bound`) hold of
loads that do not overlap, with failures, unloads, external loads and
identifications in between, and are wrong for loads that do (a load that is aborted by an
unload or by another load counts as overlapped): the pause of one load
is restored by the other, the assets of both are in the list, and a load that finds
another identifier returns from EndLoadGame and is never counted down. That is how
the code is, and why `overlapped` is in the properties.

Four notes and requests of two make a note that goes along, one that finds itself
done and one left for the next request; two assets that wait for one image and one
that does not, the orders of their answers. Three threads are a first, a last and
one between. An answer is lost once, which bounds the attempts.

Three actions on notes are enough to set, set again and revert or publish one, or to set
and publish one while the other is changed; one restart gives the file of one run to
another. Sessions of three minutes and restarts fit into 13 steps with updates at
half a minute and two minutes after that; three sessions give an update whose session
has ended, whose start is that of the next, and one that goes on.

*Fairness.* `GameLoad`: the server answers or the connection fails, worker threads
run, and the emulator's thread leaves the calls it has entered; nobody has to load,
unload or identify. Weak fairness of the loads together is enough, since a load takes
finitely many steps. `AssetUpload`: weak fairness of the threads and of closing; strong
fairness of each answer other than "busy", as a server that is busy for ever
does keep the dialog open, and the code repeats the request without a limit. Fairness of
`Enter` takes for granted that the pool starts what was queued, which `LostWakeup.cfg` shows
that it may fail to do.
`CHECK_DEADLOCK FALSE` where the bound on loads, steps or sessions ends a behaviour, or the
dialog is gone.

## Findings

Five runs show where documentation and code disagree. TLC ends each with a
counterexample; the line of the repository that says otherwise is quoted in
`PROJECT.json`. Further defects that the models show, and that the properties of
the passing runs except, are in the notes of the hazards: two schedulers at once,
loads that overlap, a hash bound to a game that was activated instead of its own, an edit while notes are
published, an upload that is repeated after its answer was lost, an update that
writes across the end of its session.

1. *Lost wakeup* (`LostWakeup`). RunThread releases the mutex after it found the
   queue empty, tests the flag, locks it again and waits without a predicate. A
   task pushed in between is announced to nobody and waits for the next
   notification.
2. *Shutdown hangs* (`ShutdownHang`). Shutdown notifies without the mutex; a
   worker between its test of the flag and its wait is never woken, and the
   join never returns.
3. *A cleared definition* (`EmptyNotWritten`). The empty text is also the value
   of an unused buffer. A definition that is cleared and saved is, in some
   orders, not marked as modified, and the file keeps the old text. (From there
   a publish and a reload lead to a revert that shows another text than the
   server's.)
4. *A local asset that reports None* (`LocalNotWritten`). A new asset that is saved before
   anything was entered equals the server checkpoint that CreateNew has taken of it,
   reports None, and is not written, where SaveAssets asserts that unmodified local
   items report Unpublished.
5. *Forgotten notes* (`ForgottenNotes`). OnMemoryNoteChanged looks for originals and sets
   Changes without the mutex. While the thread that publishes a note is between the
   two, having seen none left, the user modifies another note; Changes ends as
   None, and the next save leaves that note out of the file.

## What is proved

`ThreadPoolProofs.tla` (with `NatLemmas.tla`, facts about sequences and least
elements), for any finite set of at least two workers, any clients, tasks,
delays and bounds:

- `TypeCorrect`: `Spec => []TypeOK`. Inductive by itself.
- `SchedulerAlwaysPresent`: `Spec => []SchedulerPresent`. A worker leaves
  ProcessDelayedTasks only in the step in which it finds the list empty, or
  after the flag is set; a list that becomes nonempty puts the scheduler into
  the queue in the same step. The invariant has to say where the scheduler is on
  the way from the queue through `held` to the loop.
- `DelayedAlwaysSorted`: `Spec => []DelayedSorted`. Inductive with the type
  invariant. The work is in the lemma that the position `InsertAt` finds, whose
  search skips the first element, keeps the list sorted, and that `MoveDue`
  removes a prefix.

- `CustodyKept`: `Spec => []Custody`. The cardinalities are first replaced by what
  they count (`Placed`): no task is twice in the queue, in the delayed list, in the
  workers' hands or in the callers' (`Once`), none is in two of them (`Apart`), and it is
  in one of them exactly from its acceptance to its start (`Tracked`). One lemma per
  hand-over shows that a task leaves one place in the step in which it enters the
  next; the one that takes work is the scheduler's, which moves a prefix of the
  delayed list to the queue at once.
- `NeverStartedEarly`: `Spec => []NeverEarly`. `Timed` says that an entry of the
  delayed list carries the time of its task, and that a task queued, held or
  started is due. It needs `Placed`: a task that starts is not at the same time
  in a caller's hands with another time.
- `AlwaysWokenInTime`: `Spec => []WokenInTime`. When an insertion makes a sleeping
  scheduler's deadline too late, the new task is the first of the list, and then the
  caller is about to notify; that a notification wakes every sleeper, and that a
  scheduler that leaves the list has found it empty or another one is on its way,
  are the remaining cases. It uses `SchedulerPresent`.
- `Refinement`: `Spec => ImplementsService`. Each of the four steps that change a task's
  fate is the abstract step of that kind, by `Custody` and `Timed`; shutdown is
  `Close`, time is `Tick`, and all others are stutters.

They assume `PoolAssumption` and nothing else. A recursive search is written as
`CHOOSE` of the first position that satisfies the loop's exit condition, whose
existence `LeastNat` proves without induction over data.

`NotifyTargetSetProofs.tla`, for any targets, nodes and depth:

- `TypeCorrect`, `LocksAlwaysOwned`, `LocksAlwaysNested`, `CopiesAlwaysReleased`: `Spec`
  implies `[]TypeOK`, `[]LocksOwned`, `[]LocksNested` and `[]CopiesReleased`. None is
  inductive by itself:
  a lock count stays a natural number because Unlock finds the node of the
  notification that ends, which it does because locked nodes are nested. The
  inductive invariant `IInv` is `TypeOK`, `LocksOwned`, `CopiesReleased`,
  `LocksNested` and two facts more, that no node is twice in the chain and that
  the end of an iterator is the length of the list it points into. The step that
  matters is `End`: the innermost notification's node is the first one if that
  has any lock and else the second, since every other node but the first is
  locked and nothing locked later lies in front of it.
- `Refinement`: `Spec => ImplementsNotifications`. With `IInv`, a step of each
  operation is a step of the abstract operation of that name: the nodes that
  iterators point into are locked and `Replace` leaves them alone, and a node
  that is freed has no iterator.

They assume nothing but `DepthAssumption`.

`AssetUploadProofs.tla`, for any assets, notes, images, any number of threads and
any size of a request:

- `TypeCorrect`, `NeverUsedDestroyed`, `ResultsAlwaysTrue`, `AlwaysSentOnce`:
  `Spec` implies `[]TypeOK`, `[]NotUsedDestroyed`, `[]ResultsTrue` and
  `[]SentOnce`. The inductive invariant `IInv` has six parts. `Exclusive`: the
  mutex of the keep-alive is held exactly while a thread uses the view model, so
  that `m_vActiveThreads` is 0 or 1 (this part is kept by every step on its own).
  `Typed`. `TasksOK`: what is uploaded has at most one task, a task that a thread
  works on is running, one whose item succeeded is over, and an achievement waits
  for its image or has a task, never both; that is what keeps an achievement from
  being queued twice when its image arrives. `CallsOK`: a request holds what is
  there now of what it uploads, since nothing edits the assets while the dialog is
  open; with it an answer can make the checkpoints what the server has. `ModelsOK`
  and `AcceptedOK`: what succeeded is the server's and was taken once, unless an
  answer was lost. The step that takes work is `BadgeUploaded`: the uploads it
  queues, in any order, are the ready achievements, each once, because a list as
  long as a set that has all its elements has none twice.
- `ResultsAlwaysComplete`: `Spec => []ResultsComplete`. `Progress` says what everything
  unfinished waits for: an item without a result has a task that is not over or a
  request under way, one that waits for its image has the task of the image, a task that
  runs has its thread, and the dialog is complete only when every task is done. So when it
  ends without a cancellation nothing is left that an item could wait for.

They assume `UploadAssumption`: the kinds of uploads are disjoint and finite.

`GameLoadProofs.tla`, for any games and hashes, any way to resolve a hash and any
number of loads:

- `TypeCorrect`, `LoadsAlwaysCounted`: `Spec` implies `[]TypeOK` and
  `[]LoadsCounted`, with loads overlapping in any way. Neither is inductive alone: the
  counter stays a natural number because it counts the loads, and a load or a
  download is counted once because of `Progress` (the emulator's thread is with the
  load that it has begun, and notes are fetched only for loads whose callback is done).
- `AlwaysResumed`, `AlwaysOneGame`, `AlwaysPaired`: `Spec` implies
  `[]ResumedAfterLoad`, `[]OneGame` and `[]HashesPaired`. The properties speak of
  moments when nothing is under way; the inductive invariant `Sequential` says what
  GameContext holds at each stage of the only load (`Alone`: what is cleared, what is
  filled, what the outcome is, what the runtime was before the pause) and between
  loads (`Rest`). `HashesOK` holds however loads overlap: every pair of a game and a
  hash, pending, of a load, bound by rc_client or loaded, is one that was identified, or
  activated. An activation of another game than the pending one adds its pair to
  `forced`, which never shrinks; every other step moves pairs that exist.
  The steps that take work are the end of a load, which has to give back everything
  that `Rest` promises in success, failure and external loads, and the setting of the
  hash after the answer may have come already.

They assume `LoadAssumption`: the special identifiers are no game's, and `Resolve`
gives games for hashes.

`MemoryNotesProofs.tla`, for any addresses, texts, notes of the server and authors, and
any number of edits and restarts:

- `TypeCorrect`, `LastAlwaysWins`, `UnmodifiedAlwaysServers`, `SavedAlwaysComplete`:
  `Spec` implies `[]TypeOK`, `[]LastSetWins`, `[]UnmodifiedIsServers` and
  `SavedNotesComplete`, which speaks of saves that are not `outdated`. The properties speak of moments when nothing is under way, so
  the inductive invariant follows each note in between. `Phases` says what may go on
  before the answer is applied (nothing is published, and only the callback sets
  notes). `Followed` says where the text that was set last is: put aside or still in
  the file, waiting to be applied, about to replace the note (the original was already
  captured or dropped), or in the note. `Settled` ties that text to the original and
  to the server's note. The step that takes work is `SetNote`, whose first section
  decides by the text alone whether the original is dropped, captured or left, so that
  it has to be shown for each case that the note which replaces the old one has the
  server's author again when it has the server's text. `Followed` says nothing of the
  addresses in `raced`, as the properties do not.

They assume `NotesAssumption`: the values for no note, no text and no author are
not among the others, and no note of the server is empty.

`AssetCheckpointProofs.tla`, for any properties (none included), values and texts, and
any order of the operations:

- `TypeCorrect`, `RevertAlwaysSucceeds`, `ChangesAlwaysAgree`: `Spec` implies `[]TypeOK`,
  `[]RevertSucceeds` and `[]ChangesAgree`. Transactions are read as levels: `Level1` is
  the local checkpoint, `Level2` the server's. The inductive invariant says that the
  asset is as constructed or `Whole`: `Tracked` (a transaction notes only what differs
  from the level above it, so that "has originals" means "differs"), `Agrees` (Changes
  follows from IsModified and the older transaction) and `TextsOK` (which buffers are
  in use in which state, and that no level below memory is in the state Modified,
  which is why a revert never fails). The lemmas give for each operation of
  AssetModelBase what becomes of the three levels, and compose as the code does;
  `CommitInto`, whose three branches merge two transactions, takes the work.
- `HashAlwaysFollowsText`, `TextAlwaysRecoverable`, `SavedTextAlwaysWritten`,
  `ReloadAlwaysRestoresSaved` and `Refinement` (`ImplementsVersions`), each with the
  hypothesis `Empty \notin Edits`: the user clears no definition, though the server and
  the file may give an empty one. Without it they are false, which is the
  third finding. The invariant adds `Exact` (the state of each level names the
  buffer that has its text) and `OneCategory` (between operations the three levels are
  of one category). The refinement has one step per action: an operation moves
  the levels as the abstract one moves its three contents.

They assume `AssetAssumption` and `EditAssumption`: the special values are distinct.
`Assign` sets all properties of a line in one step of the transaction (`SetFields`):
nothing looks at the asset in between, and a fold over a set could not be proved about.

`SessionTrackerProofs.tla`, for any games, any number of sessions and updates and any
time:

- `TypeCorrect`, `PlaytimeAlwaysTrue`, `CrashAlwaysLosesLittle`: `Spec` implies
  `[]TypeOK`, `[]PlaytimeTrue` and `[]CrashLosesLittle`. `FileTrue` says that the lines of
  the file add up to the statistics and the part of the current session that is
  written; `Lag` that the session's line is behind the clock by no more than an update,
  because one is still scheduled that is `Due` in time; both hold until an update
  writes across the end of its session. What a file adds up to (`Total`, a
  function by recursion over the lines) is proved for an appended line, for a
  replaced last line and for a file read twice: the least line where two sums differ
  takes the place of an induction.

They assume `SessionAssumption`: no game is the value for none, and the bounds are
numbers.

Only model-checked: liveness (`DueTaskMoved`, `LoadEnds`, `PublishEnds`), since liveness under fairness and `ENABLED` are
out of the prover's reach; what the recursive functions compute beyond
`Total`, as induction over data is; and the five violations.

## What is not modelled

The table of components in `PROJECT.json` gives the reason for each.

- The parsing of notes, triggers and server answers, formatting, the Win32
  interface, painting and layout: no state that outlives a call, or no order.
- The code of rcheevos, an empty submodule here: `rc_client` is external in
  `GameLoad`, and the runtime's per-frame work forwards to it.
- Memory search, pointer finder, image repository, overlay, login, server API: pure
  computations or pure I/O.
- `GameAssets` as a collection, `LocalBadges`, `FrameEventQueue`: they have
  hazards, listed without a property, and would be the next modules. `GameAssets`
  would compose several assets of `AssetModel`, whose one asset already fills a run.
- Threads that share a component whose code takes no lock for it (two emulator threads,
  a session begun by a callback), and undefined behaviour behind a dangling pointer.

## Plan

1. `LocalBadges` over `AssetModel`: reference counts against the three versions.
2. `GameAssets`: SaveAssets with a selection, local ids, the achievement type that
   Serialize takes from memory.
3. `FrameEventQueue`.
4. Theorems about those modules: that a badge in use by some level of an asset keeps its
   count, and that SaveAssets writes what each asset's local level has.
