--------------------------- MODULE SessionTracker ---------------------------
(***************************************************************************)
(* How long each game is played: SessionTracker.  A session is a line at   *)
(* the end of a file, which the pool rewrites every two minutes while the  *)
(* session goes on.  When the program ends, or crashes, the lines are all  *)
(* that is left, and the next run adds them up.                            *)
(*                                                                         *)
(* UpdateSession runs on a thread of the pool and takes no lock: it finds  *)
(* the session it was scheduled for, measures it, and writes whatever is   *)
(* the current game, start and position by then.  One thread begins and    *)
(* ends sessions.  Time passes in steps of thirty seconds, once everything *)
(* that is due was done; a line is written whole.                          *)
(***************************************************************************)
EXTENDS Naturals, Sequences

CONSTANTS
    Games,
    NoGame,
    MaxTime,    \* bounds the time
    MaxSessions \* bounds how many sessions are begun

ASSUME SessionAssumption ==
    /\ NoGame \notin Games
    /\ MaxTime \in Nat \ {0} /\ MaxSessions \in Nat

VARIABLES
    game,     \* m_nCurrentGameId
    start,    \* m_tSessionStart: the time of day
    begun,    \* m_tpSessionStart
    stats,    \* m_vGameStats: the total play time of each game
    position, \* m_nFileWritePosition: how many lines are before it
    file,     \* the file of the user
    ui,       \* where the thread of the emulator is, and what it begins next
    updates,  \* calls of UpdateSession: scheduled or running
    now,      \* the time
    sessions, \* how many sessions were begun
    played,   \* history: the time that each game was really played
    raced     \* history: an update wrote after its session had ended

vars == <<game, start, begun, stats, position, file, ui, updates, now, sessions,
          played, raced>>

-----------------------------------------------------------------------------
Second30 == 1
Minute == 2
Ping == 4        \* SERVER_PING_FREQUENCY

Total(lines, g) ==
    LET sum[n \in 0..Len(lines)] ==
          IF n = 0 THEN 0
          ELSE sum[n - 1] + (IF lines[n].game = g THEN lines[n].length ELSE 0)
    IN  sum[Len(lines)]

At(place, next) == [at |-> place, next |-> next]

Init ==
    /\ game = NoGame /\ start = 0 /\ begun = 0
    /\ stats = [g \in Games |-> 0]
    /\ position = 0 /\ file = << >>
    /\ ui = At("idle", NoGame) /\ updates = {}
    /\ now = 1 /\ sessions = 0
    /\ played = [g \in Games |-> 0] /\ raced = FALSE

-----------------------------------------------------------------------------
\* SessionTracker::WriteSessionStats: what follows in the file stays.
Written(length) ==
    LET line == [game |-> game, start |-> start, length |-> length]
    IN IF position < Len(file) THEN [file EXCEPT ![position + 1] = line]
                               ELSE Append(file, line)

\* UpdateSession, scheduled by a session ("by" tells two that started at the same
\* time apart), and the number of sessions begun when it measured ("in")
Scheduled(by, from, due) ==
    [by |-> by, start |-> from, due |-> due, at |-> "scheduled", length |-> 0,
     in |-> 0]
Again(u) == Scheduled(u.by, u.start, now + Ping)

\* EndSession writes the session,
StartEnd(next) ==
    /\ ui.at = "idle" /\ game # NoGame
    /\ file' = Written(now - begun)
    /\ ui' = At("written", next)
    /\ UNCHANGED <<game, start, begun, stats, position, updates, now, sessions,
                   played, raced>>

\* keeps the position after it,
Advance ==
    /\ ui.at = "written"
    /\ position' = position + 1
    /\ ui' = [ui EXCEPT !.at = "advanced"]
    /\ UNCHANGED <<game, start, begun, stats, file, updates, now, sessions, played,
                   raced>>

\* Variant: the session ends and the game stays.
AddEndedKeepsGame ==
    /\ ui.at = "advanced"
    /\ stats' = [stats EXCEPT ![game] = @ + now - begun]
    /\ start' = 0
    /\ ui' = [ui EXCEPT !.at = IF ui.next = NoGame THEN "idle" ELSE "begin"]
    /\ UNCHANGED <<game, begun, position, file, updates, now, sessions, played, raced>>

\* and adds the session to the time of its game.
AddEnded ==
    /\ ui.at = "advanced"
    /\ stats' = [stats EXCEPT ![game] = @ + now - begun]
    /\ game' = NoGame /\ start' = 0
    /\ ui' = [ui EXCEPT !.at = IF ui.next = NoGame THEN "idle" ELSE "begin"]
    /\ UNCHANGED <<begun, position, file, updates, now, sessions, played, raced>>

EndSession == StartEnd(NoGame)

\* Variant: what goes on is not ended.
BeginSessionAlone(g) ==
    /\ ui.at = "idle" /\ sessions < MaxSessions
    /\ ui' = At("begin", g)
    /\ UNCHANGED <<game, start, begun, stats, position, file, updates, now, sessions,
                   played, raced>>

\* BeginSession ends the session that goes on, if any,
BeginSession(g) ==
    /\ sessions < MaxSessions
    /\ \/ StartEnd(g)
       \/ /\ ui.at = "idle" /\ game = NoGame
          /\ ui' = At("begin", g)
          /\ UNCHANGED <<game, start, begun, stats, position, file, updates, now,
                         sessions, played, raced>>

\* and schedules the first update.
Begun ==
    /\ ui.at = "begin"
    /\ game' = ui.next /\ start' = now /\ begun' = now
    /\ ui' = At("idle", NoGame)
    /\ sessions' = sessions + 1
    /\ updates' = updates \cup {Scheduled(sessions', now, now + Second30)}
    /\ UNCHANGED <<stats, position, file, now, played, raced>>

-----------------------------------------------------------------------------
Replaced(u, v) == updates' = (updates \ {u}) \cup {v}

\* UpdateSession: "make sure we're still tracking the same game", then measure.
Check(u) ==
    /\ u.at = "scheduled" /\ u.due <= now
    /\ IF u.start # start
       THEN updates' = updates \ {u}
       ELSE Replaced(u, [u EXCEPT !.at = "measured", !.length = now - begun,
                                  !.in = sessions])
    /\ UNCHANGED <<game, start, begun, stats, position, file, ui, now, sessions,
                   played, raced>>

\* Variant: a short session is not looked at again.
DecideOnce(u) ==
    /\ u.at = "measured"
    /\ updates' = IF game # NoGame /\ u.length > Minute
                  THEN (updates \ {u}) \cup {[u EXCEPT !.at = "writing"]}
                  ELSE updates \ {u}
    /\ UNCHANGED <<game, start, begun, stats, position, file, ui, now, sessions,
                   played, raced>>

\* A session of less than a minute is not written yet.
Decide(u) ==
    /\ u.at = "measured"
    /\ Replaced(u, IF game # NoGame /\ u.length > Minute
                   THEN [u EXCEPT !.at = "writing"]
                   ELSE Again(u))
    /\ UNCHANGED <<game, start, begun, stats, position, file, ui, now, sessions,
                   played, raced>>

\* What is written is the current game and start, with the length measured.
Write(u) ==
    /\ u.at = "writing"
    /\ file' = Written(u.length)
    /\ Replaced(u, Again(u))
    /\ raced' = (raced \/ u.in # sessions \/ ui.at # "idle")
    /\ UNCHANGED <<game, start, begun, stats, position, ui, now, sessions, played>>

UpdateSession(u) == Check(u) \/ Decide(u) \/ Write(u)

-----------------------------------------------------------------------------
\* The emulator and the pool keep up: what is due is done before time passes.
Tick ==
    /\ now < MaxTime /\ ui.at = "idle"
    /\ \A u \in updates : u.at = "scheduled" /\ u.due > now
    /\ now' = now + 1
    /\ played' = [g \in Games |-> IF g = game THEN played[g] + 1 ELSE played[g]]
    /\ UNCHANGED <<game, start, begun, stats, position, file, ui, updates, sessions,
                   raced>>

\* The program crashes, or ends, at any moment, and LoadSessions adds up the file.
Restart ==
    /\ sessions > 0 /\ sessions < MaxSessions
    /\ game' = NoGame /\ start' = 0 /\ begun' = 0
    /\ stats' = [g \in Games |-> Total(file, g)]
    /\ position' = Len(file)
    /\ ui' = At("idle", NoGame) /\ updates' = {}
    /\ played' = stats' /\ raced' = FALSE
    /\ UNCHANGED <<file, now, sessions>>

Next ==
    \/ \E g \in Games : BeginSession(g)
    \/ EndSession \/ Advance \/ AddEnded \/ Begun
    \/ \E u \in updates : UpdateSession(u)
    \/ Tick \/ Restart

Spec == Init /\ [][Next]_vars

-----------------------------------------------------------------------------
\* A current game has a start, and the position is inside the file.
TypeOK ==
    /\ game \in Games \cup {NoGame}
    /\ start \in 0..MaxTime /\ begun \in 0..MaxTime
    /\ game # NoGame => start # 0 /\ start = begun
    /\ stats \in [Games -> Nat] /\ played \in [Games -> Nat]
    /\ file \in Seq([game : Games \cup {NoGame}, start : 0..MaxTime, length : Nat])
    /\ position \in 0..Len(file)
    /\ ui \in [at : {"idle", "written", "advanced", "begin"},
               next : Games \cup {NoGame}]
    /\ updates \subseteq
            [by : 1..MaxSessions, start : 1..MaxTime, due : 1..(MaxTime + Ping),
             at : {"scheduled", "measured", "writing"}, length : 0..MaxTime,
             in : 0..MaxSessions]
    /\ now \in 1..MaxTime /\ sessions \in 0..MaxSessions

\* SessionTracker::GetTotalPlaytime
GetTotalPlaytime(g) == stats[g] + IF game = g THEN now - begun ELSE 0

\* The play time shown for a game is the time it was played, however sessions
\* follow each other.
PlaytimeTrue == \A g \in Games : GetTotalPlaytime(g) = played[g]

\* A crash loses no session that has ended and of the current one at most the
\* time between two updates, half a minute more at first; and the next run never
\* counts what was not played.  An update that writes while its session ends, or
\* after it, is the exception.
MostLost == Ping + Second30
CrashLosesLittle ==
    ~raced => \A g \in Games :
        LET kept == Total(file, g) IN
        /\ kept <= GetTotalPlaytime(g)
        /\ GetTotalPlaytime(g) <= kept + (IF game = g THEN MostLost ELSE 0)
=============================================================================
