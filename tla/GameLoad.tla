------------------------------ MODULE GameLoad ------------------------------
(***************************************************************************)
(* Loading a game: GameIdentifier resolves a hash to a game, GameContext   *)
(* clears what belonged to the previous game and asks AchievementRuntime   *)
(* to load the new one, and the answers come on worker threads: the sets   *)
(* of the game, the start of the session, the memory notes.                *)
(*                                                                         *)
(* The emulator's thread runs IdentifyHash, ActivateGame and the menu.  It *)
(* does not wait for a load: it may activate another game, or none, while  *)
(* the answers to the first are still to come.  Each load is a thread of   *)
(* its own; a step is what it does between two accesses to the members of  *)
(* GameContext that another thread writes.  rc_client is external: it      *)
(* works on one load, a newer one aborts the older, whose callback is then *)
(* called with an error.                                                   *)
(***************************************************************************)
EXTENDS Naturals, FiniteSets

CONSTANTS
    Games,      \* identifiers of games
    Hashes,     \* hashes of game contents
    MaxLoads,   \* a bound on the calls of BeginLoadGame
    Resolve,    \* the games a hash can be identified as, by server or user
    NoGame,     \* identifier 0
    Placeholder,\* 0xFFFFFFFF, passed when the game is not known yet
    NoHash      \* the empty string

ASSUME LoadAssumption ==
    /\ MaxLoads \in Nat
    /\ NoGame \notin Games /\ Placeholder \notin Games \cup {NoGame}
    /\ NoHash \notin Hashes
    /\ Resolve \in [Hashes -> SUBSET (Games \cup {NoGame})]

Loads == 1..MaxLoads        \* numbered as BeginLoadGame is called
NoLoad == 0

VARIABLES
    pending,    \* m_sPendingHash and m_nPendingGameId
    gameId,     \* m_nGameId
    gameHash,   \* m_sGameHash
    loadCount,  \* m_nLoadCount
    updating,   \* the nesting of BeginUpdate of m_vAssets
    assets,     \* the games whose sets and achievements are in m_vAssets
    notes,      \* the load that put the MemoryNotesModel into m_vAssets
    paused,     \* AchievementRuntime::m_bPaused
    bound,      \* the game rc_client associates with each hash
    current,    \* the load rc_client works on
    game,       \* the game rc_client has loaded: its identifier and hash
    load,       \* the progress of each load, and what its callback carries
    fetching,   \* loads whose memory notes are being downloaded
    main,       \* where the emulator's thread is
    wish,       \* history: whether the user paused the processing
    overlapped, \* history: a load began or ended one that was under way
    forced      \* history: the games activated while a hash was pending that
                \* was identified as another game, or none, and is not theirs

context == <<gameId, gameHash, loadCount, updating, assets, notes, paused>>
client == <<bound, current, game>>
history == <<wish, overlapped, forced>>
vars == <<pending, context, client, load, fetching, main, history>>

-----------------------------------------------------------------------------
(* A load goes through these stages, in this order but for failures.       *)

Stages == {"none",
           "begun",     \* BeginLoadGame has cleared the assets
           "sent",      \* rc_client asks for the sets
           "sets",      \* they arrived, the load was not aborted
           "started",   \* the session is being started
           "loaded",    \* LoadGameCallback is called
           "append",    \* the identifier is set, the assets are not there
           "failed",    \* the callback is called with an error
           "finish",    \* FinishLoadGame is called with success
           "end",       \* EndLoadGame is called
           "lock",      \* it has read m_nGameId and waits for m_mLoadMutex
           "merged",    \* it holds the mutex; notes requested, file merged
           "done",
           "left"}      \* it returned early: the game had changed

UnderWay == {l \in Loads : load[l].stage \notin {"none", "done", "left"}}
Left == {l \in Loads : load[l].stage = "left"}
Quiet == main.at = "idle" /\ UnderWay = {} /\ fetching = {}

\* m_mLoadMutex is held between the steps of the code only by EndLoadGame
MutexFree == \A l \in Loads : load[l].stage # "merged"

Fresh == [stage |-> "none", game |-> NoGame, hash |-> NoHash,
          external |-> FALSE, wasPaused |-> FALSE, aborted |-> FALSE,
          gets |-> NoGame, ok |-> FALSE, seen |-> NoGame]

Idle == [at |-> "idle", load |-> NoLoad, activating |-> NoGame]

Init ==
    /\ pending = [hash |-> NoHash, game |-> NoGame]
    /\ gameId = NoGame /\ gameHash = NoHash
    /\ loadCount = 0 /\ updating = 0
    /\ assets = {} /\ notes = NoLoad /\ paused = FALSE
    /\ bound = [h \in Hashes |-> NoGame]
    /\ current = NoLoad
    /\ game = [id |-> NoGame, hash |-> NoHash]
    /\ load = [l \in Loads |-> Fresh]
    /\ fetching = {}
    /\ main = Idle
    /\ wish = FALSE /\ overlapped = FALSE
    /\ forced = [h \in Hashes |-> {}]

\* The bound on loads is one on identifications and pauses too: they happen
\* while a load is left to come.
LoadsRemain == \E l \in Loads : load[l].stage = "none"

\* (What a load does not read again is reset where it moves on.)
MoveTo(l, stage) == load' = [load EXCEPT ![l].stage = stage]

\* The call is over, and what it knew is gone.  History: the game of a load
\* that failed without FinishLoadGame, or whose notes are in the assets.
Leave(l, stage) ==
    LET unfinished == load[l].external /\ ~load[l].ok
        gets == IF unfinished \/ notes = l THEN load[l].gets ELSE NoGame
    IN  load' = [load EXCEPT ![l] = [Fresh EXCEPT !.stage = stage, !.gets = gets,
                                                 !.external = unfinished]]

-----------------------------------------------------------------------------
(* GameIdentifier, on the emulator's thread                                *)

\* Variant: a hash that is not identified leaves the previous one pending.
IdentifyHashKeepsOld(h, g) ==
    /\ main.at = "idle" /\ LoadsRemain /\ g \in Resolve[h]
    /\ pending' = [hash |-> IF g # NoGame /\ pending.hash # NoHash
                            THEN pending.hash ELSE h, game |-> g]
    /\ gameHash' = IF g # NoGame /\ g = gameId THEN h ELSE gameHash
    /\ UNCHANGED <<gameId, loadCount, updating, assets, notes, paused, client,
                   load, fetching, main, history>>

\* The hash is resolved to a game by the server, the cache or the user, or
\* to none.  A game that is already loaded gets the hash of its other disc.
IdentifyHash(h, g) ==
    /\ main.at = "idle" /\ LoadsRemain /\ g \in Resolve[h]
    /\ pending' = [hash |-> h, game |-> g]
    /\ gameHash' = IF g # NoGame /\ g = gameId THEN h ELSE gameHash
    /\ UNCHANGED <<gameId, loadCount, updating, assets, notes, paused, client,
                   load, fetching, main, history>>

\* IdentifyGame without contents.  (A failure before that, or to make a hash,
\* or the lack of a login, changes nothing.)
IdentifyNothing ==
    /\ main.at = "idle" /\ LoadsRemain
    /\ pending' = [hash |-> NoHash, game |-> NoGame]
    /\ UNCHANGED <<context, client, load, fetching, main, history>>

\* The load rc_client works on, if any, is marked as aborted.
AbortCurrent == [l \in Loads |-> IF l = current
                                 THEN [load[l] EXCEPT !.aborted = TRUE]
                                 ELSE load[l]]

UnloadGame ==
    /\ game' = [id |-> NoGame, hash |-> NoHash]
    /\ current' = NoLoad
    /\ load' = AbortCurrent

\* ActivateGame(0), by the exported function or for contents that were not
\* identified: LoadGame ends after the assets are cleared.  The setting of the
\* hash is a step of its own.
Unload(exported) ==
    /\ main.at = "idle"
    /\ IF exported \/ gameId # NoGame
       THEN UnloadGame
       ELSE UNCHANGED <<current, game, load>>
    /\ assets' = {} /\ notes' = NoLoad
    /\ gameId' = NoGame /\ gameHash' = NoHash
    /\ overlapped' = (overlapped \/ UnderWay # {})
    /\ main' = [Idle EXCEPT !.at = "hash"]
    /\ UNCHANGED <<pending, loadCount, updating, paused, bound, fetching, wish, forced>>

\* The end of ActivateGame: the pending hash is that of the pending game only.
SetGameHash ==
    /\ main.at = "hash"
    /\ gameHash' = IF main.activating = pending.game THEN pending.hash ELSE NoHash
    /\ main' = Idle
    /\ UNCHANGED <<pending, gameId, loadCount, updating, assets, notes, paused,
                   client, load, fetching, history>>

-----------------------------------------------------------------------------
(* GameContext::LoadGame, on the emulator's thread                         *)

\* BeginLoadGame up to the pause.  The assets are cleared inside an update
\* that EndLoadGame ends.
BeginLoadGame(l, g, h, caller) ==
    /\ main.at = "idle" /\ load[l].stage = "none"
    /\ \A k \in 1..(l - 1) : load[k].stage # "none"
    /\ assets' = {} /\ notes' = NoLoad
    /\ updating' = updating + 1
    /\ loadCount' = loadCount + 1
    /\ gameId' = g
    /\ load' = [load EXCEPT ![l] = [Fresh EXCEPT !.stage = "begun", !.game = g,
                                    !.hash = h, !.external = caller = "external"]]
    /\ main' = [at |-> "pause", load |-> l,
                activating |-> IF caller = "activate" THEN g ELSE NoGame]
    /\ overlapped' = (overlapped \/ UnderWay # {})
    /\ UNCHANGED <<pending, gameHash, paused, client, fetching, wish>>

\* ActivateGame of any game, as the emulator decides: of the one that was
\* identified last or of another.  Both are loaded with the pending hash.
Activate(l, g) ==
    /\ BeginLoadGame(l, g, pending.hash, "activate")
    /\ forced' = [h \in Hashes |-> IF h = pending.hash /\ g # pending.game
                                  THEN forced[h] \cup ({g} \ Resolve[h])
                                  ELSE forced[h]]

\* ShowGameHash in the menu: the user names the game of an unknown hash
LoadSelected(l, g) ==
    /\ gameId = NoGame /\ gameHash # NoHash /\ g \in Resolve[gameHash]
    /\ BeginLoadGame(l, g, gameHash, "menu")
    /\ UNCHANGED forced

\* begin_load_game, called by an emulator that uses rc_client itself
LoadExternal(l, h) ==
    BeginLoadGame(l, Placeholder, h, "external") /\ UNCHANGED forced

\* Variant: the runtime is paused before its state is read.
PauseReadsAfter ==
    /\ main.at = "pause"
    /\ load' = [load EXCEPT ![main.load].wasPaused = TRUE]
    /\ paused' = TRUE
    /\ main' = [main EXCEPT !.at = "request"]
    /\ UNCHANGED <<pending, gameId, gameHash, loadCount, updating, assets, notes,
                   client, fetching, history>>

Pause ==
    /\ main.at = "pause"
    /\ load' = [load EXCEPT ![main.load].wasPaused = paused]
    /\ paused' = TRUE
    /\ main' = [main EXCEPT !.at = "request"]
    /\ UNCHANGED <<pending, gameId, gameHash, loadCount, updating, assets, notes,
                   client, fetching, history>>

\* AchievementRuntime::BeginLoadGame: the game before is unloaded, and a hash
\* that rc_client does not know is bound to the game to load.  (It refuses to
\* load without a hash, whatever that is bound to.)
Request ==
    LET l == main.load
        h == load[l].hash
        g == load[l].game
    IN
    /\ main.at = "request"
    /\ game' = [id |-> NoGame, hash |-> NoHash]
    /\ bound' = IF h # NoHash /\ bound[h] = NoGame /\ g # Placeholder
                THEN [bound EXCEPT ![h] = g] ELSE bound
    /\ load' = [AbortCurrent EXCEPT ![l].stage = "sent"]
    /\ current' = l
    /\ main' = IF main.activating # NoGame THEN [main EXCEPT !.at = "hash"] ELSE Idle
    /\ UNCHANGED <<pending, context, fetching, history>>

-----------------------------------------------------------------------------
(* The answers, on worker threads                                          *)

Aborted(l) == load[l].aborted
NoLonger(l) == IF current = l THEN NoLoad ELSE current

\* rc_client calls the callback with an error: the server or the network
\* failed, or a newer load or an unload aborted this one.
Fail(l) ==
    /\ load[l].stage \in {"sent", "started"}
    /\ current' = NoLonger(l)
    /\ load' = [load EXCEPT ![l].stage = "failed", ![l].hash = NoHash,
                            ![l].aborted = FALSE]
    /\ UNCHANGED <<pending, context, bound, game, fetching, main, history>>

\* The sets of the game arrive: of the game bound to the hash, or of the one
\* the server knows for it.  A hash of no game gives an empty answer.
SetsArrive(l, g) ==
    LET h == load[l].hash IN
    /\ load[l].stage = "sent" /\ ~Aborted(l) /\ h # NoHash
    /\ g \in (IF bound[h] = NoGame THEN Resolve[h] ELSE {bound[h]})
    /\ bound' = [bound EXCEPT ![h] = g]
    /\ current' = IF g = NoGame THEN NoLonger(l) ELSE current
    /\ load' = [load EXCEPT ![l].gets = g,
                    ![l].stage = IF g = NoGame THEN "loaded" ELSE "sets"]
    /\ UNCHANGED <<pending, context, game, fetching, main, history>>

\* PostProcessGameDataResponse and InitializeAchievementSets: they do not
\* look again whether the load was aborted since the answer arrived.
InitializeAchievementSets(l) ==
    /\ load[l].stage = "sets"
    /\ gameId' = load[l].gets
    /\ assets' = assets \cup {load[l].gets}
    /\ MoveTo(l, "started")
    /\ UNCHANGED <<pending, gameHash, loadCount, updating, notes, paused, client,
                   fetching, main, history>>

SessionStarts(l) ==
    /\ load[l].stage = "started" /\ ~Aborted(l)
    /\ game' = [id |-> load[l].gets, hash |-> load[l].hash]
    /\ current' = NoLonger(l)
    /\ MoveTo(l, "loaded")
    /\ UNCHANGED <<pending, context, bound, fetching, main, history>>

\* LoadGameCallback, InitializeFromAchievementRuntime: the identifier and the
\* hash are those of the game that rc_client has now.  (A hash of no game gives
\* one without identifier.  A game unloaded since then is a null pointer; the
\* step needs one, as the program ends there.)
InitializeIds(l) ==
    /\ load[l].stage = "loaded"
    /\ load[l].gets = NoGame \/ game.id # NoGame
    /\ gameId' = game.id
    /\ gameHash' = IF load[l].gets = NoGame THEN load[l].hash ELSE game.hash
    /\ load' = [load EXCEPT ![l].stage = "append", ![l].hash = NoHash]
    /\ UNCHANGED <<pending, loadCount, updating, assets, notes, paused, client,
                   fetching, main, history>>

\* The achievements are appended, under m_mLoadMutex, and the callback called.
\* For a hash of no game its result is an error or, with no identifier, none.
InitializeAssets(l) ==
    /\ load[l].stage = "append" /\ MutexFree
    /\ assets' = assets \cup ({game.id} \ {NoGame})
    /\ \E ok \in {TRUE, load[l].gets # NoGame} :
          load' = [load EXCEPT ![l].ok = ok,
                      ![l].stage = IF ~ok THEN "failed"
                                   ELSE IF load[l].external THEN "end"
                                   ELSE "finish"]
    /\ UNCHANGED <<pending, gameId, gameHash, loadCount, updating, notes, paused,
                   client, fetching, main, history>>

\* Variant: only the hash is cleared when the console is not the game's.
FinishLoadGameKeepsId(l, valid) ==
    /\ load[l].stage = "finish"
    /\ \/ /\ valid /\ game.id # NoGame
          /\ MoveTo(l, "end")
          /\ UNCHANGED <<gameId, gameHash>>
       \/ /\ ~valid \/ game.id = NoGame
          /\ gameHash' = NoHash
          /\ load' = [load EXCEPT ![l].ok = FALSE, ![l].stage = "end"]
          /\ UNCHANGED gameId
    /\ UNCHANGED <<pending, loadCount, updating, assets, notes, paused, client,
                   fetching, main, history>>

\* FinishLoadGame with success: a hash of no game, or of a game for another
\* console, unloads what was loaded.
FinishLoadGame(l, valid) ==
    /\ load[l].stage = "finish"
    /\ \/ /\ valid /\ game.id # NoGame
          /\ MoveTo(l, "end")
          /\ UNCHANGED <<gameId, gameHash>>
       \/ /\ ~valid \/ game.id = NoGame
          /\ gameId' = NoGame /\ gameHash' = NoHash
          /\ load' = [load EXCEPT ![l].ok = FALSE, ![l].stage = "end"]
    /\ UNCHANGED <<pending, loadCount, updating, assets, notes, paused, client,
                   fetching, main, history>>

\* FinishLoadGame with an error.  The callback of an external load goes to
\* EndLoadGame and keeps the placeholder.
FinishFailed(l) ==
    /\ load[l].stage = "failed"
    /\ gameId' = IF load[l].external THEN gameId ELSE NoGame
    /\ MoveTo(l, "end")
    /\ UNCHANGED <<pending, gameHash, loadCount, updating, assets, notes, paused,
                   client, fetching, main, history>>

\* EndLoadGame reads m_nGameId before it takes the mutex.
ReadGameId(l) ==
    /\ load[l].stage = "end"
    /\ load' = [load EXCEPT ![l].seen = gameId, ![l].stage = "lock"]
    /\ UNCHANGED <<pending, context, client, fetching, main, history>>

\* Variant: the download of the notes is not counted.
MergeUncounted(l) ==
    /\ load[l].stage = "lock" /\ MutexFree
    /\ \/ /\ gameId # load[l].seen
          /\ Leave(l, "left")
          /\ UNCHANGED <<loadCount, fetching, notes>>
       \/ /\ gameId = load[l].seen
          /\ IF load[l].ok /\ gameId # NoGame
             THEN /\ fetching' = fetching \cup {l}
                  /\ notes' = l
             ELSE UNCHANGED <<fetching, notes>>
          /\ MoveTo(l, "merged")
          /\ UNCHANGED loadCount
    /\ UNCHANGED <<pending, gameId, gameHash, updating, assets, paused, client,
                   main, history>>

\* It returns if the game changed in between, and else requests the notes and
\* merges the user's file.
Merge(l) ==
    /\ load[l].stage = "lock" /\ MutexFree
    /\ \/ /\ gameId # load[l].seen
          /\ Leave(l, "left")
          /\ UNCHANGED <<loadCount, fetching, notes>>
       \/ /\ gameId = load[l].seen
          /\ IF load[l].ok /\ gameId # NoGame
             THEN /\ loadCount' = loadCount + 1
                  /\ fetching' = fetching \cup {l}
                  /\ notes' = l
             ELSE UNCHANGED <<loadCount, fetching, notes>>
          /\ load' = [load EXCEPT ![l].stage = "merged", ![l].seen = NoGame]
    /\ UNCHANGED <<pending, gameId, gameHash, updating, assets, paused, client,
                   main, history>>

\* Variant: a load that failed does not end the update and the count.
EndLoadGameOnlyOnSuccess(l) ==
    /\ load[l].stage = "merged"
    /\ paused' = IF load[l].wasPaused THEN paused ELSE FALSE
    /\ updating' = IF load[l].ok THEN updating - 1 ELSE updating
    /\ loadCount' = IF load[l].ok THEN loadCount - 1 ELSE loadCount
    /\ Leave(l, "done")
    /\ UNCHANGED <<pending, gameId, gameHash, assets, notes, client, fetching,
                   main, history>>

\* Variant: the caller ends the load that EndLoadGame has ended.
EndLoadGameTwice(l) ==
    /\ load[l].stage = "merged"
    /\ paused' = IF load[l].wasPaused THEN paused ELSE FALSE
    /\ updating' = IF updating > 0 THEN updating - 1 ELSE updating
    /\ loadCount' = loadCount - 2
    /\ Leave(l, "done")
    /\ UNCHANGED <<pending, gameId, gameHash, assets, notes, client, fetching,
                   main, history>>

\* The rest of EndLoadGame: the runtime is resumed if this load paused it.
EndLoadGame(l) ==
    /\ load[l].stage = "merged"
    /\ paused' = IF load[l].wasPaused THEN paused ELSE FALSE
    /\ updating' = IF updating > 0 THEN updating - 1 ELSE updating
    /\ loadCount' = loadCount - 1
    /\ Leave(l, "done")
    /\ UNCHANGED <<pending, gameId, gameHash, assets, notes, client, fetching,
                   main, history>>

\* The answer to MemoryNotesModel::Refresh, success or not, calls EndLoad.
NotesArrive(l) ==
    /\ l \in fetching
    /\ fetching' = fetching \ {l}
    /\ loadCount' = loadCount - 1
    /\ UNCHANGED <<pending, gameId, gameHash, updating, assets, notes, paused,
                   client, load, main, history>>

\* The check box of the asset list.  During a load it is the load that decides.
TogglePaused ==
    /\ Quiet /\ LoadsRemain
    /\ paused' = ~paused /\ wish' = ~paused
    /\ UNCHANGED <<pending, gameId, gameHash, loadCount, updating, assets, notes,
                   client, load, fetching, main, overlapped, forced>>

-----------------------------------------------------------------------------
Step(l) ==
    \/ Fail(l) \/ InitializeAchievementSets(l)
    \/ \E g \in Games \cup {NoGame} : SetsArrive(l, g)
    \/ SessionStarts(l) \/ InitializeIds(l) \/ InitializeAssets(l)
    \/ \E valid \in BOOLEAN : FinishLoadGame(l, valid)
    \/ FinishFailed(l) \/ ReadGameId(l) \/ Merge(l) \/ EndLoadGame(l)
    \/ NotesArrive(l)

EmulatorStep == Pause \/ Request \/ SetGameHash

Next ==
    \/ \E h \in Hashes, g \in Games \cup {NoGame} : IdentifyHash(h, g)
    \/ IdentifyNothing \/ TogglePaused
    \/ \E exported \in BOOLEAN : Unload(exported)
    \/ EmulatorStep
    \/ \E l \in Loads, g \in Games : Activate(l, g)
    \/ \E l \in Loads, g \in Games : LoadSelected(l, g)
    \/ \E l \in Loads, h \in Hashes : LoadExternal(l, h)
    \/ \E l \in Loads : Step(l)

Spec == Init /\ [][Next]_vars

\* The server answers every request or the connection fails, worker threads
\* run, and the emulator's thread leaves the calls it has entered.  (A load
\* takes finitely many steps, so fairness to the loads together is fairness to
\* each.)
FairSpec ==
    Spec /\ WF_vars(EmulatorStep) /\ WF_vars(\E l \in Loads : Step(l))

-----------------------------------------------------------------------------
TypeOK ==
    /\ pending \in [hash : Hashes \cup {NoHash}, game : Games \cup {NoGame}]
    /\ gameId \in Games \cup {NoGame, Placeholder}
    /\ gameHash \in Hashes \cup {NoHash}
    /\ loadCount \in Nat /\ updating \in Nat
    /\ assets \subseteq Games
    /\ notes \in Loads \cup {NoLoad}
    /\ paused \in BOOLEAN /\ wish \in BOOLEAN /\ overlapped \in BOOLEAN
    /\ bound \in [Hashes -> Games \cup {NoGame}]
    /\ current \in Loads \cup {NoLoad}
    /\ game \in [id : Games \cup {NoGame}, hash : Hashes \cup {NoHash}]
    /\ load \in [Loads -> [stage : Stages, game : Games \cup {NoGame, Placeholder},
                           hash : Hashes \cup {NoHash},
                           external : BOOLEAN, wasPaused : BOOLEAN, aborted : BOOLEAN,
                           gets : Games \cup {NoGame}, ok : BOOLEAN,
                           seen : Games \cup {NoGame, Placeholder}]]
    /\ fetching \subseteq Loads
    /\ main \in [at : {"idle", "pause", "request", "hash"},
                 load : Loads \cup {NoLoad}, activating : Games \cup {NoGame}]
    /\ forced \in [Hashes -> SUBSET Games]

\* However loads overlap, m_nLoadCount counts every load that has not ended,
\* every download of notes and every load that returned early, and the assets
\* are in as many updates.  So OnEndGameLoad is not announced, and the asset
\* list not rebuilt, while anything is still to come.
LoadsCounted ==
    /\ updating = Cardinality(UnderWay) + Cardinality(Left)
    /\ loadCount = updating + Cardinality(fetching)

\* When loads do not overlap, whatever becomes of each, the runtime is
\* processing afterwards unless the user had paused it (bWasPaused).
ResumedAfterLoad == Quiet /\ ~overlapped => paused = wish

\* An external load that failed after its sets arrived leaves their identifier.
LeftByExternal(g) ==
    \E l \in Loads : /\ load[l].external /\ load[l].stage = "done"
                     /\ load[l].gets = g

\* When loads do not overlap, the assets and the notes are those of the game
\* whose identifier GameContext reports, whichever loads and unloads came
\* before and however they ended.
OneGame ==
    Quiet /\ ~overlapped /\ gameId \in Games /\ ~LeftByExternal(gameId) =>
        /\ assets = {gameId}
        /\ notes # NoLoad
        /\ notes # NoLoad => load[notes].gets = gameId

\* What a hash was identified as, or the emulator activated with it.
PairedWith(h) == Resolve[h] \cup forced[h]

\* Hashes and games are paired as they were identified, or as the emulator
\* activated another game with a hash: in rc_client always, in GameContext when
\* loads do not overlap.  The pending hash, the hash a load was given, the hash
\* of the loaded game and that of another disc are four sources that come in
\* any order, and none gives a hash to a game that it was never meant for.
HashesPaired ==
    /\ \A h \in Hashes : bound[h] \in PairedWith(h) \cup {NoGame}
    /\ Quiet /\ ~overlapped /\ gameId \in Games /\ ~LeftByExternal(gameId)
          /\ gameHash # NoHash =>
       gameId \in PairedWith(gameHash)

\* Every load ends: IsGameLoading does not stay true, whatever fails, unless
\* loads overlapped.
LoadEnds == loadCount > 0 ~> loadCount = 0 \/ overlapped
=============================================================================
