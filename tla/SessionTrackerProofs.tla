------------------------ MODULE SessionTrackerProofs ------------------------
(***************************************************************************)
(* Proofs about SessionTracker for any games, any time and any number of   *)
(* sessions and of updates.                                                *)
(***************************************************************************)
EXTENDS SessionTracker, NatLemmas, SequenceTheorems

Line == [game : Games \cup {NoGame}, start : 0..MaxTime, length : Nat]
LengthOf(line, g) == IF line.game = g THEN line.length ELSE 0

-----------------------------------------------------------------------------
(* What Total adds up: it is defined by recursion over the lines, and the  *)
(* least line where something goes wrong takes the place of an induction.  *)

IsSum(sum, lines, g, last) ==
    /\ sum \in [0..last -> Nat] /\ sum[0] = 0
    /\ \A n \in 1..last : sum[n] = sum[n - 1] + LengthOf(lines[n], g)

LEMMA LengthIsNat ==
    ASSUME NEW lines \in Seq(Line), NEW n \in 1..Len(lines), NEW g
    PROVE  LengthOf(lines[n], g) \in Nat
<1>1. lines[n] \in Line
  BY ElementOfSeq
<1> QED
  BY <1>1 DEF LengthOf, Line

LEMMA SumExists ==
    ASSUME NEW lines \in Seq(Line), NEW g
    PROVE  \E sum : IsSum(sum, lines, g, Len(lines))
<1> DEFINE Missing == {n \in 0..Len(lines) : ~\E sum : IsSum(sum, lines, g, n)}
<1>1. Len(lines) \in Nat
  BY LenProperties
<1>2. SUFFICES ASSUME Missing # {} PROVE FALSE
  BY <1>1
<1>3. Missing \subseteq Nat
  BY <1>1
<1>4. PICK n \in Missing : \A m \in Missing : n <= m
  <2> HIDE DEF Missing
  <2> QED
    BY <1>2, <1>3, LeastNat
<1>5. n # 0
  <2>1. IsSum([m \in 0..0 |-> 0], lines, g, 0)
    BY DEF IsSum
  <2> QED
    BY <1>4, <2>1
<1>6. n - 1 \in 0..Len(lines) /\ n - 1 \notin Missing /\ n \in 1..Len(lines)
  BY <1>1, <1>4, <1>5
<1>7. PICK sum : IsSum(sum, lines, g, n - 1)
  BY <1>6
<1>8. LengthOf(lines[n], g) \in Nat
  BY <1>6, LengthIsNat
<1> DEFINE more == [m \in 0..n |-> IF m = n THEN sum[n - 1] + LengthOf(lines[n], g)
                                   ELSE sum[m]]
<1>9. more \in [0..n -> Nat] /\ more[0] = 0
  BY <1>6, <1>7, <1>8 DEF IsSum
<1>10. ASSUME NEW m \in 1..n PROVE more[m] = more[m - 1] + LengthOf(lines[m], g)
  <2>1. CASE m = n
    BY <1>6, <2>1
  <2>2. CASE m # n
    <3>1. m \in 1..(n - 1) /\ m - 1 # n /\ m - 1 \in 0..n /\ m \in 0..n
      BY <1>6, <2>2
    <3> QED
      BY <1>7, <2>2, <3>1 DEF IsSum
  <2> QED
    BY <2>1, <2>2
<1>11. IsSum(more, lines, g, n)
  BY <1>9, <1>10 DEF IsSum
<1> QED
  BY <1>4, <1>11

LEMMA SumsAgree ==
    ASSUME NEW lines \in Seq(Line), NEW other \in Seq(Line), NEW g,
           NEW j \in 0..Len(lines), NEW k \in 0..Len(other),
           NEW sum, IsSum(sum, lines, g, j), NEW acc, IsSum(acc, other, g, k),
           NEW last \in Nat, last <= j, last <= k,
           \A n \in 1..last : lines[n] = other[n]
    PROVE  sum[last] = acc[last]
<1> DEFINE Wrong == {n \in 0..last : sum[n] # acc[n]}
<1>1. Wrong \subseteq Nat
  OBVIOUS
<1>2. SUFFICES ASSUME Wrong # {} PROVE FALSE
  OBVIOUS
<1>3. PICK n \in Wrong : \A m \in Wrong : n <= m
  <2> HIDE DEF Wrong
  <2> QED
    BY <1>1, <1>2, LeastNat
<1>4. n # 0
  BY <1>3 DEF IsSum
<1>5. n - 1 \in 0..last /\ n \in 1..last /\ n \in 1..j /\ n \in 1..k
  BY <1>4, LenProperties
<1>6. sum[n - 1] = acc[n - 1]
  BY <1>3, <1>5
<1>7. lines[n] = other[n]
  BY <1>5
<1>8. sum[n] = sum[n - 1] + LengthOf(lines[n], g)
      /\ acc[n] = acc[n - 1] + LengthOf(other[n], g)
  BY <1>5 DEF IsSum
<1> QED
  BY <1>3, <1>6, <1>7, <1>8

LEMMA TotalIsSum ==
    ASSUME NEW lines \in Seq(Line), NEW g
    PROVE  \E sum : IsSum(sum, lines, g, Len(lines)) /\ Total(lines, g) = sum[Len(lines)]
<1> DEFINE Added(f) == [n \in 0..Len(lines) |->
                          IF n = 0 THEN 0
                          ELSE f[n - 1] + (IF lines[n].game = g THEN lines[n].length
                                           ELSE 0)]
           sum == CHOOSE f : f = Added(f)
<1>1. Len(lines) \in Nat
  BY LenProperties
<1>2. PICK f : IsSum(f, lines, g, Len(lines))
  BY SumExists
<1>3. f = Added(f)
  <2>1. \A n \in 0..Len(lines) : f[n] = Added(f)[n]
    BY <1>1, <1>2 DEF IsSum, LengthOf
  <2> QED
    BY <1>2, <2>1 DEF IsSum
<1>4. sum = Added(sum)
  <2> HIDE DEF Added
  <2> QED
    BY <1>3
<1>5. Total(lines, g) = sum[Len(lines)]
  BY DEF Total
<1> HIDE DEF sum
<1>6. \A n \in 1..Len(lines) : sum[n] = sum[n - 1] + LengthOf(lines[n], g)
  BY <1>1, <1>4, SMTT(30) DEF LengthOf
<1>7. sum[0] = 0 /\ DOMAIN sum = 0..Len(lines) /\ sum = [n \in 0..Len(lines) |-> sum[n]]
  BY <1>1, <1>4
<1>8. \A n \in 0..Len(lines) : sum[n] = f[n]
  <2> DEFINE Wrong == {n \in 0..Len(lines) : sum[n] # f[n]}
  <2>1. SUFFICES ASSUME Wrong # {} PROVE FALSE
    OBVIOUS
  <2>2. Wrong \subseteq Nat
    OBVIOUS
  <2>3. PICK n \in Wrong : \A m \in Wrong : n <= m
    <3> HIDE DEF Wrong
    <3> QED
      BY <2>1, <2>2, LeastNat
  <2>4. n # 0
    BY <1>2, <1>7, <2>3 DEF IsSum
  <2>5. n - 1 \in 0..Len(lines) /\ n \in 1..Len(lines)
    BY <1>1, <2>4
  <2>6. sum[n - 1] = f[n - 1]
    BY <2>3, <2>5
  <2> QED
    BY <1>2, <1>6, <2>3, <2>5, <2>6 DEF IsSum
<1>9. sum \in [0..Len(lines) -> Nat]
  BY <1>2, <1>7, <1>8 DEF IsSum
<1>10. IsSum(sum, lines, g, Len(lines))
  BY <1>6, <1>7, <1>9 DEF IsSum
<1> QED
  BY <1>5, <1>10

LEMMA TotalIsNat ==
    ASSUME NEW lines \in Seq(Line), NEW g
    PROVE  Total(lines, g) \in Nat
<1>1. Len(lines) \in 0..Len(lines)
  BY LenProperties
<1> QED
  BY <1>1, TotalIsSum DEF IsSum

LEMMA TotalOfNone ==
    ASSUME NEW g PROVE Total(<< >>, g) = 0
<1>1. << >> \in Seq(Line) /\ Len(<< >>) = 0
  BY EmptySeq
<1> QED
  BY <1>1, TotalIsSum DEF IsSum

\* One more line adds its length.
LEMMA TotalGrows ==
    ASSUME NEW lines \in Seq(Line), NEW more \in Seq(Line), NEW g,
           Len(more) = Len(lines) + 1,
           \A n \in 1..Len(lines) : more[n] = lines[n]
    PROVE  Total(more, g) = Total(lines, g) + LengthOf(more[Len(more)], g)
<1>1. Len(lines) \in Nat /\ Len(more) \in Nat
  BY LenProperties
<1>2. PICK sum : IsSum(sum, lines, g, Len(lines)) /\ Total(lines, g) = sum[Len(lines)]
  BY TotalIsSum
<1>3. PICK acc : IsSum(acc, more, g, Len(more)) /\ Total(more, g) = acc[Len(more)]
  BY TotalIsSum
<1>4. /\ Len(lines) \in 0..Len(lines) /\ Len(more) \in 0..Len(more)
      /\ Len(lines) <= Len(lines) /\ Len(lines) <= Len(more)
  BY <1>1
<1>5. sum[Len(lines)] = acc[Len(lines)]
  <2>1. \A n \in 1..Len(lines) : lines[n] = more[n]
    OBVIOUS
  <2>2. IsSum(sum, lines, g, Len(lines)) /\ IsSum(acc, more, g, Len(more))
    BY <1>2, <1>3
  <2> HIDE DEF IsSum
  <2> QED
    BY <1>1, <1>4, <2>1, <2>2, SumsAgree
<1>6. acc[Len(more)] = acc[Len(more) - 1] + LengthOf(more[Len(more)], g)
  BY <1>1, <1>3 DEF IsSum
<1> QED
  BY <1>1, <1>2, <1>3, <1>5, <1>6

\* So does a line that takes the place of the last one.
LEMMA TotalReplaced ==
    ASSUME NEW lines \in Seq(Line), NEW more \in Seq(Line), NEW g,
           Len(lines) # 0, Len(more) = Len(lines),
           \A n \in 1..Len(lines) - 1 : more[n] = lines[n]
    PROVE  Total(more, g) + LengthOf(lines[Len(lines)], g)
             = Total(lines, g) + LengthOf(more[Len(more)], g)
<1> DEFINE kept == SubSeq(lines, 1, Len(lines) - 1)
<1>1. Len(lines) \in Nat
  BY LenProperties
<1>2. kept \in Seq(Line) /\ Len(kept) = Len(lines) - 1
      /\ \A n \in 1..Len(kept) : kept[n] = lines[n]
  <2>1. 1 \in 1..(Len(lines) + 1) /\ Len(lines) - 1 \in 0..Len(lines)
    BY <1>1
  <2> QED
    BY <1>1, SubSeqProperties
<1> HIDE DEF kept
<1>3. Total(lines, g) = Total(kept, g) + LengthOf(lines[Len(lines)], g)
  BY <1>1, <1>2, TotalGrows
<1>4. Total(more, g) = Total(kept, g) + LengthOf(more[Len(more)], g)
  BY <1>1, <1>2, TotalGrows
<1>5. Len(lines) \in 1..Len(lines) /\ Len(more) \in 1..Len(more)
  BY <1>1
<1>6. LengthOf(lines[Len(lines)], g) \in Nat /\ LengthOf(more[Len(more)], g) \in Nat
  BY <1>5, LengthIsNat
<1>7. Total(kept, g) \in Nat
  BY <1>2, TotalIsNat
<1> QED
  BY <1>3, <1>4, <1>6, <1>7

-----------------------------------------------------------------------------
(* The inductive invariant.                                                *)

\* What BeginSession and EndSession rely on: a session has a start, the position
\* is before the line of the session that goes on or after all lines.
Steps ==
    /\ game = NoGame <=> start = 0
    /\ begun <= now
    /\ ui.at \in {"written", "advanced"} => game # NoGame
    /\ ui.at = "begin" => game = NoGame /\ ui.next # NoGame
    /\ ui.next # NoGame => sessions < MaxSessions
    /\ position = Len(file) \/ position + 1 = Len(file)
    /\ ui.at = "written" => position < Len(file)
    /\ \A u \in updates : u.in <= sessions

\* What an update measured is the time of the session until now: time does not pass
\* before the update is over.
Measured ==
    \A u \in updates :
        u.at # "scheduled" /\ u.in = sessions /\ game # NoGame =>
            u.length = now - begun

\* The line of the session that goes on, if it is in the file.
Pending == position < Len(file)
Last == file[Len(file)]
Saved(g) == IF Pending /\ Last.game = g THEN Last.length ELSE 0
Ended == ui.at = "advanced"

\* The lines are the statistics, and the line of the session that goes on.
FileTrue ==
    \A g \in Games :
        Total(file, g) = stats[g] + (IF ~Ended THEN Saved(g)
                                     ELSE IF g = game THEN now - begun ELSE 0)

\* The update that the session scheduled comes before too much is unsaved: after
\* half a minute the session is too short to be written, and then there are two
\* minutes to go.
Due(u) ==
    /\ u.by = sessions /\ u.start = start
    /\ now <= begun + Saved(game) + MostLost
    /\ IF u.at = "scheduled"
       THEN /\ now <= u.due
            /\ \/ u.due = begun + Second30
               \/ begun + MostLost <= u.due /\ u.due <= begun + Saved(game) + MostLost
       ELSE /\ now = begun + Second30 \/ begun + MostLost <= now
            /\ u.in = sessions

Lag ==
    /\ Pending => Last.game \in {game, NoGame}
    /\ game # NoGame /\ ~Ended => Saved(game) <= now - begun
    /\ ui.at = "written" => Last.game = game /\ Last.length = now - begun
    /\ Ended => ~Pending
    /\ ui.at = "idle" /\ game # NoGame => \E u \in updates : Due(u)

Typed == TypeOK /\ Steps
Kept == ~raced => FileTrue /\ Lag
IInv == Typed /\ PlaytimeTrue /\ Measured /\ Kept

LEMMA InitInvariant == Init => IInv
<1> SUFFICES ASSUME Init PROVE IInv
  OBVIOUS
<1>1. file = << >> /\ file \in Seq(Line) /\ Len(file) = 0
  BY EmptySeq DEF Init
<1>2. TypeOK
  BY <1>1, SessionAssumption DEF Init, TypeOK, At, Line
<1>3. Steps
  BY <1>1 DEF Init, Steps, At
<1>4. PlaytimeTrue /\ Measured
  BY SessionAssumption DEF Init, PlaytimeTrue, GetTotalPlaytime, Measured
<1>5. FileTrue
  <2>1. \A g \in Games : Total(file, g) = 0
    BY <1>1, TotalOfNone
  <2>2. ~Ended /\ ~Pending
    BY <1>1 DEF Init, Ended, Pending, At
  <2>3. SUFFICES ASSUME NEW g \in Games
        PROVE  Total(file, g) = stats[g] + (IF ~Ended THEN Saved(g)
                                            ELSE IF g = game THEN now - begun ELSE 0)
    BY DEF FileTrue
  <2>4. stats[g] = 0 /\ Saved(g) = 0
    BY <2>2 DEF Init, Saved
  <2> QED
    BY <2>1, <2>2, <2>4
<1>6. Lag
  BY <1>1 DEF Init, Lag, Pending, Ended, At
<1> QED
  BY <1>2, <1>3, <1>4, <1>5, <1>6 DEF IInv, Typed, Kept

-----------------------------------------------------------------------------
(* What the operations do to the file and to the updates.                  *)

LEMMA FileTyped ==
    ASSUME Typed
    PROVE  file \in Seq(Line) /\ Len(file) \in Nat
<1>1. file \in Seq(Line)
  BY DEF Typed, TypeOK, Line
<1> QED
  BY <1>1, LenProperties

\* Wherever the line is written, it is the last one then, and the lines before the
\* position stay.
LEMMA WrittenFacts ==
    ASSUME Typed, NEW length \in Nat, file' = Written(length)
    PROVE  /\ file' \in Seq(Line) /\ Len(file') = position + 1
           /\ file'[Len(file')] = [game |-> game, start |-> start, length |-> length]
           /\ \A g \in Games : Total(file', g) + Saved(g)
                                 = Total(file, g) + (IF game = g THEN length ELSE 0)
<1> DEFINE line == [game |-> game, start |-> start, length |-> length]
<1>1. file \in Seq(Line) /\ Len(file) \in Nat /\ position \in Nat
  BY FileTyped DEF Typed, TypeOK
<1>2. line \in Line
  BY DEF Typed, TypeOK, Line
<1>3. position = Len(file) \/ position + 1 = Len(file)
  BY DEF Typed, Steps
<1>4. CASE position = Len(file)
  <2>1. file' = Append(file, line)
    BY <1>1, <1>4 DEF Written
  <2>2. /\ file' \in Seq(Line) /\ Len(file') = Len(file) + 1
        /\ file'[Len(file) + 1] = line
        /\ \A n \in 1..Len(file) : file'[n] = file[n]
    BY <1>1, <1>2, <2>1, AppendProperties
  <2>3. ASSUME NEW g \in Games
        PROVE  Total(file', g) = Total(file, g) + LengthOf(file'[Len(file')], g)
    BY <1>1, <2>2, TotalGrows
  <2>4. ~Pending
    BY <1>1, <1>4 DEF Pending
  <2>5. \A g \in Games : Saved(g) = 0 /\ Total(file, g) \in Nat
    BY <1>1, <2>4, TotalIsNat DEF Saved
  <2>6. \A g \in Games : LengthOf(file'[Len(file')], g) = IF game = g THEN length ELSE 0
    BY <2>2 DEF LengthOf
  <2> QED
    BY <1>4, <2>2, <2>3, <2>5, <2>6
<1>5. CASE position + 1 = Len(file)
  <2>1. position < Len(file)
    BY <1>1, <1>5
  <2>2. file' = [file EXCEPT ![position + 1] = line]
    BY <2>1 DEF Written
  <2>3. position + 1 \in 1..Len(file)
    BY <1>1, <1>5
  <2>4. /\ file' \in Seq(Line) /\ Len(file') = Len(file)
        /\ \A n \in 1..Len(file) : n # position + 1 => file'[n] = file[n]
        /\ file'[position + 1] = line
    BY <1>1, <1>2, <2>2, <2>3, ExceptSeq
  <2>5. \A n \in 1..Len(file) - 1 : file'[n] = file[n]
    BY <1>1, <1>5, <2>4
  <2>6. ASSUME NEW g \in Games
        PROVE  Total(file', g) + LengthOf(file[Len(file)], g)
                 = Total(file, g) + LengthOf(file'[Len(file')], g)
    BY <1>1, <1>5, <2>4, <2>5, TotalReplaced
  <2>7. \A g \in Games : Saved(g) = LengthOf(file[Len(file)], g)
    BY <2>1 DEF Saved, Pending, Last, LengthOf
  <2>8. \A g \in Games : LengthOf(file'[Len(file')], g) = IF game = g THEN length ELSE 0
    BY <1>5, <2>4 DEF LengthOf
  <2> QED
    BY <1>5, <2>4, <2>6, <2>7, <2>8
<1> QED
  BY <1>3, <1>4, <1>5

Update == [by : 1..MaxSessions, start : 1..MaxTime, due : 1..(MaxTime + Ping),
           at : {"scheduled", "measured", "writing"}, length : 0..MaxTime,
           in : 0..MaxSessions]

LEMMA UpdateTyped ==
    ASSUME Typed, NEW u \in updates
    PROVE  /\ u \in Update /\ u.in <= sessions /\ u.in \in Nat /\ u.length \in Nat
           /\ u.due \in Nat /\ u.by \in Nat
<1>1. u \in Update
  BY DEF Typed, TypeOK, Update
<1> QED
  BY <1>1 DEF Typed, Steps, Update

\* The next update of the session is due in two minutes.
LEMMA AgainTyped ==
    ASSUME Typed, NEW u \in Update
    PROVE  /\ Again(u) \in Update /\ Again(u).in = 0 /\ Again(u).at = "scheduled"
           /\ Again(u).by = u.by /\ Again(u).start = u.start
           /\ Again(u).due = now + Ping
<1>1. now \in 1..MaxTime /\ now + Ping \in 1..(MaxTime + Ping)
  BY SessionAssumption DEF Typed, TypeOK, Ping
<1>2. 0 \in 0..MaxTime /\ 0 \in 0..MaxSessions
  BY SessionAssumption
<1> QED
  BY <1>1, <1>2 DEF Again, Scheduled, Update

\* An update that goes on is measured: the time of the session, and which it is.
LEMMA CheckFacts ==
    ASSUME Typed, NEW u \in updates, Check(u)
    PROVE  \/ u.start # start /\ updates' = updates \ {u}
           \/ \E v \in Update :
                 /\ u.start = start /\ Replaced(u, v)
                 /\ v.at = "measured" /\ v.length = now - begun /\ v.in = sessions
                 /\ v.by = u.by /\ v.start = u.start
<1> DEFINE v1 == [u EXCEPT !.at = "measured"]
           v2 == [v1 EXCEPT !.length = now - begun]
           v == [v2 EXCEPT !.in = sessions]
<1>1. u \in Update
  BY UpdateTyped
<1>2. now - begun \in 0..MaxTime /\ sessions \in 0..MaxSessions
  <2>1. /\ now \in 1..MaxTime /\ begun \in 0..MaxTime /\ begun <= now
        /\ sessions \in 0..MaxSessions
    BY DEF Typed, TypeOK, Steps
  <2> QED
    BY <2>1, SessionAssumption
<1>3. \/ u.start # start /\ updates' = updates \ {u}
      \/ u.start = start /\ Replaced(u, v)
  BY DEF Check
<1>4. v1 \in Update /\ v1.at = "measured" /\ v1.by = u.by /\ v1.start = u.start
  BY <1>1 DEF Update
<1> HIDE DEF v1
<1>5. /\ v2 \in Update /\ v2.at = v1.at /\ v2.by = v1.by /\ v2.start = v1.start
      /\ v2.length = now - begun
  BY <1>2, <1>4 DEF Update
<1> HIDE DEF v2
<1>6. /\ v \in Update /\ v.at = v2.at /\ v.by = v2.by /\ v.start = v2.start
      /\ v.length = v2.length /\ v.in = sessions
  BY <1>2, <1>5 DEF Update
<1> HIDE DEF v
<1> QED
  BY <1>3, <1>4, <1>5, <1>6

\* It is written, or comes again.
LEMMA DecideFacts ==
    ASSUME Typed, NEW u \in updates, Decide(u)
    PROVE  \/ ~(game # NoGame /\ u.length > Minute) /\ Replaced(u, Again(u))
           \/ \E v \in Update :
                 /\ game # NoGame /\ u.length > Minute /\ Replaced(u, v)
                 /\ v.at = "writing" /\ v.length = u.length /\ v.in = u.in
                 /\ v.by = u.by /\ v.start = u.start
<1> DEFINE v == [u EXCEPT !.at = "writing"]
<1>1. u \in Update
  BY UpdateTyped
<1>2. IF game # NoGame /\ u.length > Minute THEN Replaced(u, v) ELSE Replaced(u, Again(u))
  BY DEF Decide
<1>3. /\ v \in Update /\ v.at = "writing" /\ v.length = u.length /\ v.in = u.in
      /\ v.by = u.by /\ v.start = u.start
  BY <1>1 DEF Update
<1> HIDE DEF v
<1> QED
  BY <1>2, <1>3

-----------------------------------------------------------------------------
(* Types, and what the steps of a session rely on.                         *)

Ui == [at : {"idle", "written", "advanced", "begin"}, next : Games \cup {NoGame}]

\* One update takes the place of another, or of none.
LEMMA ReplacedTyped ==
    ASSUME Typed, NEW u \in updates, NEW v \in Update, v.in <= sessions, Replaced(u, v)
    PROVE  updates' \subseteq Update /\ \A w \in updates' : w.in <= sessions
BY DEF Replaced, Typed, TypeOK, Steps, Update

LEMMA TypedStep == Typed /\ [Next]_vars => Typed'
<1> SUFFICES ASSUME Typed, [Next]_vars PROVE Typed'
  OBVIOUS
<1> USE SessionAssumption
<1>1. /\ file \in Seq(Line) /\ Len(file) \in Nat /\ position \in 0..Len(file)
      /\ now \in 1..MaxTime /\ begun \in 0..MaxTime /\ begun <= now
      /\ now - begun \in 0..MaxTime /\ now - begun \in Nat
      /\ sessions \in 0..MaxSessions
      /\ updates \subseteq Update
  BY FileTyped DEF Typed, TypeOK, Steps, Update
<1>2. CASE \E next : StartEnd(next) /\ (next # NoGame => next \in Games /\ sessions < MaxSessions)
  <2>1. PICK next : StartEnd(next) /\ (next # NoGame => next \in Games /\ sessions < MaxSessions)
    BY <1>2
  <2>2. file' = Written(now - begun)
    BY <2>1 DEF StartEnd
  <2>3. file' \in Seq(Line) /\ Len(file') = position + 1
    BY <1>1, <2>2, WrittenFacts
  <2>4. ui' = [at |-> "written", next |-> next] /\ next \in Games \cup {NoGame}
    BY <2>1 DEF StartEnd, At
  <2>5. ui' \in Ui /\ position \in 0..Len(file')
    BY <1>1, <2>3, <2>4 DEF Ui
  <2>6. TypeOK'
    BY <2>1, <2>3, <2>5 DEF StartEnd, Typed, TypeOK, Line, Ui
  <2>7. Steps'
    BY <1>1, <2>1, <2>3, <2>4 DEF StartEnd, Typed, Steps
  <2> QED
    BY <2>6, <2>7 DEF Typed
<1>3. CASE \E g \in Games : BeginSession(g)
  <2>1. PICK g \in Games : BeginSession(g)
    BY <1>3
  <2>2. CASE StartEnd(g)
    BY <1>2, <2>1, <2>2 DEF BeginSession
  <2>3. CASE ~StartEnd(g)
    <3>1. /\ game = NoGame /\ sessions < MaxSessions
          /\ ui' = [at |-> "begin", next |-> g]
          /\ UNCHANGED <<game, start, begun, stats, position, file, updates, now,
                         sessions, played>>
      BY <2>1, <2>3 DEF BeginSession, At
    <3>2. TypeOK'
      BY <1>1, <3>1 DEF Typed, TypeOK
    <3>3. Steps'
      BY <1>1, <3>1 DEF Typed, Steps
    <3> QED
      BY <3>2, <3>3 DEF Typed
  <2> QED
    BY <2>2, <2>3
<1>4. CASE EndSession
  BY <1>2, <1>4 DEF EndSession
<1>5. CASE Advance
  <2>1. ui' = [at |-> "advanced", next |-> ui.next] /\ ui.next \in Games \cup {NoGame}
    BY <1>5 DEF Advance, Typed, TypeOK
  <2>2. position + 1 = Len(file)
    BY <1>1, <1>5 DEF Advance, Typed, Steps
  <2>3. position' \in 0..Len(file)
    BY <1>1, <1>5, <2>2 DEF Advance
  <2>4. ui' \in Ui /\ position' \in 0..Len(file)
    BY <2>1, <2>3 DEF Ui
  <2>5. TypeOK'
    BY <1>5, <2>4 DEF Advance, Typed, TypeOK, Ui
  <2>6. Steps'
    BY <1>1, <1>5, <2>1, <2>2 DEF Advance, Typed, Steps
  <2> QED
    BY <2>5, <2>6 DEF Typed
<1>6. CASE AddEnded
  <2>1. game \in Games
    BY <1>6 DEF AddEnded, Typed, Steps, TypeOK
  <2>2. stats[game] + now - begun \in Nat
    BY <1>1, <2>1, SMTT(30) DEF Typed, TypeOK
  <2>3. stats' \in [Games -> Nat]
    BY <1>6, <2>2 DEF AddEnded, Typed, TypeOK
  <2>4. ui' = [at |-> (IF ui.next = NoGame THEN "idle" ELSE "begin"), next |-> ui.next]
        /\ ui.next \in Games \cup {NoGame}
    BY <1>6 DEF AddEnded, Typed, TypeOK
  <2>5. ui' \in Ui
    BY <2>4 DEF Ui
  <2>6. TypeOK'
    BY <1>6, <2>3, <2>5, SMTT(30) DEF AddEnded, Typed, TypeOK, Ui
  <2>7. Steps'
    BY <1>1, <1>6, <2>4 DEF AddEnded, Typed, Steps
  <2> QED
    BY <2>6, <2>7 DEF Typed
<1>7. CASE Begun
  <2>1. /\ ui.next \in Games /\ ui.next # NoGame /\ sessions < MaxSessions
    BY <1>7 DEF Begun, Typed, TypeOK, Steps
  <2>2. sessions' = sessions + 1 /\ sessions' \in 1..MaxSessions
    BY <1>1, <1>7, <2>1 DEF Begun
  <2> DEFINE first == Scheduled(sessions', now, now + Second30)
  <2>3. now \in 1..MaxTime /\ now + Second30 \in 1..(MaxTime + Ping)
    BY <1>1 DEF Second30, Ping
  <2>4. 0 \in 0..MaxTime /\ 0 \in 0..MaxSessions
    OBVIOUS
  <2>5. first \in Update /\ first.in = 0
    BY <2>2, <2>3, <2>4 DEF Scheduled, Update
  <2>6. updates' = updates \cup {first}
    BY <1>7 DEF Begun
  <2> HIDE DEF first
  <2>7. updates' \subseteq Update
    BY <1>1, <2>5, <2>6
  <2>8. ui' = [at |-> "idle", next |-> NoGame]
    BY <1>7 DEF Begun, At
  <2>9. TypeOK'
    BY <1>1, <1>7, <2>1, <2>2, <2>3, <2>7, <2>8 DEF Begun, Typed, TypeOK, Update
  <2>10. \A u \in updates' : u.in <= sessions'
    BY <1>1, <2>2, <2>5, <2>6, UpdateTyped
  <2>11. Steps'
    BY <1>1, <1>7, <2>1, <2>2, <2>8, <2>10 DEF Begun, Typed, Steps
  <2> QED
    BY <2>9, <2>11 DEF Typed
<1>8. ASSUME updates' \subseteq Update, \A w \in updates' : w.in <= sessions,
             UNCHANGED <<game, start, begun, stats, position, file, ui, now, sessions,
                         played>>
      PROVE  Typed'
  <2>1. TypeOK'
    BY <1>1, <1>8 DEF Typed, TypeOK, Update
  <2>2. Steps'
    BY <1>1, <1>8 DEF Typed, Steps
  <2> QED
    BY <2>1, <2>2 DEF Typed
<1>9. ASSUME NEW u \in updates, Check(u) PROVE Typed'
  <2>1. \/ updates' = updates \ {u}
        \/ \E v \in Update : Replaced(u, v) /\ v.in = sessions
    BY <1>9, CheckFacts
  <2>2. updates' \subseteq Update /\ \A w \in updates' : w.in <= sessions
    <3>1. CASE updates' = updates \ {u}
      BY <1>1, <3>1, UpdateTyped
    <3>2. CASE \E v \in Update : Replaced(u, v) /\ v.in = sessions
      BY <1>1, <1>9, <3>2, ReplacedTyped
    <3> QED
      BY <2>1, <3>1, <3>2
  <2> QED
    BY <1>8, <1>9, <2>2 DEF Check
<1>10. ASSUME NEW u \in updates, Decide(u) PROVE Typed'
  <2>1. u \in Update /\ u.in <= sessions
    BY <1>10, UpdateTyped
  <2>2. Again(u) \in Update /\ Again(u).in <= sessions
    BY <1>1, <2>1, AgainTyped
  <2>3. \E v \in Update : Replaced(u, v) /\ v.in <= sessions
    BY <1>10, <2>1, <2>2, DecideFacts
  <2>4. updates' \subseteq Update /\ \A w \in updates' : w.in <= sessions
    BY <1>10, <2>3, ReplacedTyped
  <2> QED
    BY <1>8, <1>10, <2>4 DEF Decide
<1>11. ASSUME NEW u \in updates, Write(u) PROVE Typed'
  <2>1. u \in Update /\ u.in <= sessions /\ u.length \in Nat
    BY <1>11, UpdateTyped
  <2>2. Again(u) \in Update /\ Again(u).in <= sessions /\ Replaced(u, Again(u))
    BY <1>1, <1>11, <2>1, AgainTyped DEF Write
  <2>3. updates' \subseteq Update /\ \A w \in updates' : w.in <= sessions
    BY <1>1, <1>11, <2>2, ReplacedTyped
  <2>4. file' \in Seq(Line) /\ Len(file') = position + 1
    BY <1>11, <2>1, WrittenFacts DEF Write
  <2>5. TypeOK'
    BY <1>1, <1>11, <2>3, <2>4, SMTT(30) DEF Write, Typed, TypeOK, Update, Line
  <2>6. Steps'
    BY <1>1, <1>11, <2>3, <2>4 DEF Write, Typed, Steps
  <2> QED
    BY <2>5, <2>6 DEF Typed
<1>12. CASE Tick
  <2>1. now' = now + 1 /\ now' \in 1..MaxTime
    BY <1>1, <1>12 DEF Tick
  <2>2. played' \in [Games -> Nat]
    BY <1>12 DEF Tick, Typed, TypeOK
  <2>3. TypeOK'
    BY <1>1, <1>12, <2>1, <2>2 DEF Tick, Typed, TypeOK
  <2>4. Steps'
    BY <1>1, <1>12, <2>1 DEF Tick, Typed, Steps
  <2> QED
    BY <2>3, <2>4 DEF Typed
<1>13. CASE Restart
  <2>1. stats' \in [Games -> Nat] /\ played' \in [Games -> Nat]
    BY <1>1, <1>13, TotalIsNat DEF Restart
  <2>2. ui' = [at |-> "idle", next |-> NoGame]
    BY <1>13 DEF Restart, At
  <2>3. TypeOK'
    BY <1>1, <1>13, <2>1, <2>2 DEF Restart, Typed, TypeOK
  <2>4. Steps'
    BY <1>1, <1>13, <2>2 DEF Restart, Typed, Steps
  <2> QED
    BY <2>3, <2>4 DEF Typed
<1>14. CASE UNCHANGED vars
  BY <1>14 DEF vars, Typed, TypeOK, Steps
<1> QED
  BY <1>3, <1>4, <1>5, <1>6, <1>7, <1>9, <1>10, <1>11, <1>12, <1>13, <1>14
     DEF Next, UpdateSession

-----------------------------------------------------------------------------
(* The play time that is shown, and the time that an update measured.      *)

LEMMA Numbers ==
    ASSUME Typed
    PROVE  /\ now \in Nat /\ begun \in Nat /\ begun <= now /\ now - begun \in Nat
           /\ sessions \in Nat /\ position \in Nat /\ Len(file) \in Nat
           /\ file \in Seq(Line) /\ game \in Games \cup {NoGame} /\ NoGame \notin Games
           /\ \A g \in Games : stats[g] \in Nat /\ played[g] \in Nat
           /\ updates \subseteq Update
<1>1. /\ now \in 1..MaxTime /\ begun \in 0..MaxTime /\ begun <= now
      /\ sessions \in 0..MaxSessions /\ position \in 0..Len(file)
      /\ game \in Games \cup {NoGame} /\ updates \subseteq Update
      /\ \A g \in Games : stats[g] \in Nat /\ played[g] \in Nat
  BY DEF Typed, TypeOK, Steps, Update
<1> QED
  BY <1>1, FileTyped, SessionAssumption

LEMMA PlaytimeStep == Typed /\ PlaytimeTrue /\ [Next]_vars => PlaytimeTrue'
<1> SUFFICES ASSUME Typed, PlaytimeTrue, [Next]_vars, NEW g \in Games
             PROVE  (GetTotalPlaytime(g) = played[g])'
  BY DEF PlaytimeTrue
<1>1. stats[g] + (IF game = g THEN now - begun ELSE 0) = played[g]
  BY DEF PlaytimeTrue, GetTotalPlaytime
<1>2. CASE UNCHANGED <<game, begun, stats, now, played>>
  BY <1>1, <1>2 DEF GetTotalPlaytime
<1>3. CASE AddEnded
  <2>1. game' = NoGame /\ stats'[g] = IF g = game THEN stats[g] + now - begun ELSE stats[g]
    BY <1>3 DEF AddEnded, Typed, TypeOK
  <2>2. UNCHANGED played
    BY <1>3 DEF AddEnded
  <2> QED
    BY <1>1, <2>1, <2>2, Numbers DEF GetTotalPlaytime
<1>4. CASE Begun
  <2>1. game = NoGame
    BY <1>4 DEF Begun, Typed, Steps
  <2>2. begun' = now /\ now' = now /\ UNCHANGED <<stats, played>>
    BY <1>4 DEF Begun
  <2>3. now' - begun' = 0
    BY <2>2, Numbers
  <2> QED
    BY <1>1, <2>1, <2>2, <2>3, Numbers DEF GetTotalPlaytime
<1>5. CASE Tick
  <2>1. /\ played'[g] = (IF g = game THEN played[g] + 1 ELSE played[g])
        /\ now' = now + 1 /\ UNCHANGED <<game, begun, stats>>
    BY <1>5 DEF Tick
  <2>2. CASE game = g
    BY <1>1, <2>1, <2>2, Numbers, SMTT(30) DEF GetTotalPlaytime
  <2>3. CASE game # g
    BY <1>1, <2>1, <2>3 DEF GetTotalPlaytime
  <2> QED
    BY <2>2, <2>3
<1>6. CASE Restart
  <2>1. game' = NoGame /\ stats'[g] = Total(file, g) /\ played'[g] = stats'[g]
    BY <1>6 DEF Restart
  <2>2. Total(file, g) \in Nat
    BY Numbers, TotalIsNat
  <2> QED
    BY <2>1, <2>2, Numbers DEF GetTotalPlaytime
<1> QED
  BY <1>2, <1>3, <1>4, <1>5, <1>6
     DEF Next, vars, BeginSession, EndSession, StartEnd, Advance, UpdateSession, Check,
         Decide, Write

LEMMA MeasuredStep == Typed /\ Measured /\ [Next]_vars => Measured'
<1> SUFFICES ASSUME Typed, Measured, [Next]_vars PROVE Measured'
  OBVIOUS
<1> DEFINE Fine(u) == u.at # "scheduled" /\ u.in = sessions /\ game # NoGame =>
                          u.length = now - begun
<1>1. \A u \in updates : Fine(u)
  BY DEF Measured
<1>2. CASE UNCHANGED <<game, begun, now, sessions>> /\ \A u \in updates' : Fine(u)
  BY <1>2 DEF Measured
<1>3. ASSUME NEW u \in updates, NEW v, Fine(v), Replaced(u, v)
      PROVE  \A w \in updates' : Fine(w)
  BY <1>1, <1>3 DEF Replaced
<1>4. ASSUME NEW u \in updates, Check(u) PROVE Measured'
  <2>1. UNCHANGED <<game, begun, now, sessions>>
    BY <1>4 DEF Check
  <2>2. CASE updates' = updates \ {u}
    BY <1>1, <1>2, <2>1, <2>2
  <2>3. CASE \E v \in Update : Replaced(u, v) /\ v.length = now - begun
    BY <1>2, <1>3, <2>1, <2>3
  <2> QED
    BY <1>4, <2>2, <2>3, CheckFacts
<1>5. ASSUME NEW u \in updates, Decide(u) PROVE Measured'
  <2>1. UNCHANGED <<game, begun, now, sessions>> /\ u.at = "measured"
    BY <1>5 DEF Decide
  <2>2. CASE Replaced(u, Again(u))
    <3>1. Fine(Again(u))
      BY AgainTyped, UpdateTyped
    <3> QED
      BY <1>2, <1>3, <2>1, <2>2, <3>1
  <2>3. CASE \E v \in Update : Replaced(u, v) /\ v.length = u.length /\ v.in = u.in
    <3>1. PICK v \in Update : Replaced(u, v) /\ v.length = u.length /\ v.in = u.in
      BY <2>3
    <3>2. Fine(v)
      BY <1>1, <2>1, <3>1
    <3> QED
      BY <1>2, <1>3, <2>1, <3>1, <3>2
  <2> QED
    BY <1>5, <2>2, <2>3, DecideFacts
<1>6. ASSUME NEW u \in updates, Write(u) PROVE Measured'
  <2>1. UNCHANGED <<game, begun, now, sessions>> /\ Replaced(u, Again(u))
    BY <1>6 DEF Write
  <2>2. Fine(Again(u))
    BY AgainTyped, UpdateTyped
  <2> QED
    BY <1>2, <1>3, <2>1, <2>2
<1>7. CASE Begun
  <2>1. sessions' = sessions + 1
        /\ updates' = updates \cup {Scheduled(sessions', now, now + Second30)}
    BY <1>7 DEF Begun
  <2>2. ASSUME NEW u \in updates' PROVE u.at = "scheduled" \/ u.in # sessions'
    <3>1. CASE u \in updates
      BY <2>1, <3>1, UpdateTyped, Numbers
    <3>2. CASE u \notin updates
      BY <2>1, <2>2, <3>2 DEF Scheduled
    <3> QED
      BY <3>1, <3>2
  <2> QED
    BY <2>2 DEF Measured
<1>8. CASE AddEnded
  BY <1>8 DEF AddEnded, Measured
<1>9. CASE Tick
  BY <1>9 DEF Tick, Measured
<1>10. CASE Restart
  BY <1>10 DEF Restart, Measured
<1>11. CASE UNCHANGED <<game, begun, now, sessions, updates>>
  BY <1>11 DEF Measured
<1> QED
  BY <1>4, <1>5, <1>6, <1>7, <1>8, <1>9, <1>10, <1>11
     DEF Next, vars, BeginSession, EndSession, StartEnd, Advance, UpdateSession

-----------------------------------------------------------------------------
(* What is in the file.                                                    *)

LEMMA SavedIsNat ==
    ASSUME Typed, NEW g
    PROVE  Saved(g) \in Nat
<1>1. CASE Pending
  <2>1. Len(file) \in 1..Len(file)
    BY <1>1, Numbers DEF Pending
  <2>2. Last \in Line
    BY <2>1, Numbers, ElementOfSeq DEF Last
  <2> QED
    BY <2>2 DEF Saved, Line
<1>2. CASE ~Pending
  BY <1>2 DEF Saved
<1> QED
  BY <1>1, <1>2

\* A line that is written is the one of the session that goes on.
LEMMA LineWritten ==
    ASSUME Typed, FileTrue, ~Ended, NEW length \in Nat, file' = Written(length),
           UNCHANGED <<game, stats, position, now, begun>>, ~Ended'
    PROVE  /\ Pending' /\ Last'.game = game /\ Last'.length = length
           /\ Saved(game)' = length
           /\ FileTrue'
<1>1. /\ Len(file') = position + 1
      /\ file'[Len(file')] = [game |-> game, start |-> start, length |-> length]
      /\ \A g \in Games : Total(file', g) + Saved(g)
                            = Total(file, g) + (IF game = g THEN length ELSE 0)
  BY WrittenFacts
<1>2. Pending' /\ Last'.game = game /\ Last'.length = length
  BY <1>1, Numbers DEF Pending, Last
<1>3. \A g : Saved(g)' = IF game = g THEN length ELSE 0
  BY <1>2 DEF Saved
<1>4. SUFFICES ASSUME NEW g \in Games
      PROVE  (Total(file, g) = stats[g] + (IF ~Ended THEN Saved(g)
                                 ELSE IF g = game THEN now - begun ELSE 0))'
  BY <1>2, <1>3 DEF FileTrue
<1>5. Total(file, g) = stats[g] + Saved(g)
  BY DEF FileTrue
<1>6. Total(file', g) + Saved(g) = Total(file, g) + (IF game = g THEN length ELSE 0)
  BY <1>1
<1>7. file' \in Seq(Line)
  BY WrittenFacts
<1>8. Total(file', g) \in Nat /\ Saved(g) \in Nat /\ stats[g] \in Nat
  BY <1>7, TotalIsNat, SavedIsNat, Numbers
<1>9. Total(file', g) = stats[g] + (IF game = g THEN length ELSE 0)
  BY <1>5, <1>6, <1>8
<1> QED
  BY <1>3, <1>9

LEMMA KeptAtBounds ==
    ASSUME Typed, Kept, ~raced',
           EndSession \/ (\E g \in Games : BeginSession(g)) \/ Advance \/ AddEnded \/ Begun
    PROVE  FileTrue' /\ Lag'
<1>1. ~raced /\ UNCHANGED raced
  BY DEF EndSession, BeginSession, StartEnd, Advance, AddEnded, Begun
<1>2. FileTrue /\ Lag
  BY <1>1 DEF Kept
<1>3. ASSUME NEW next, StartEnd(next) PROVE FileTrue' /\ Lag'
  <2>1. /\ ui.at = "idle" /\ ui' = [at |-> "written", next |-> next]
        /\ file' = Written(now - begun)
        /\ UNCHANGED <<game, stats, position, now, begun>>
    BY <1>3 DEF StartEnd, At
  <2>2. ~Ended /\ ~Ended' /\ ui'.at = "written"
    BY <2>1 DEF Ended
  <2>3. FileTrue' /\ Pending' /\ Last'.game = game /\ Last'.length = now - begun
        /\ Saved(game)' = now - begun
    BY <1>2, <2>1, <2>2, LineWritten, Numbers
  <2>4. Saved(game)' <= now' - begun'
    BY <2>1, <2>3, Numbers
  <2>5. Lag'
    BY <2>1, <2>2, <2>3, <2>4 DEF Lag
  <2> QED
    BY <2>3, <2>5
<1>4. ASSUME NEW g \in Games, game = NoGame, ui.at = "idle", ui' = At("begin", g),
             UNCHANGED <<game, start, begun, stats, position, file, now, sessions>>
      PROVE  FileTrue' /\ Lag'
  <2>1. ~Ended /\ ~Ended' /\ ui'.at = "begin"
    BY <1>4 DEF Ended, At
  <2>2. \A h : Saved(h)' = Saved(h)
    BY <1>4 DEF Saved, Pending, Last
  <2>3. FileTrue'
    BY <1>2, <1>4, <2>1, <2>2 DEF FileTrue
  <2>4. Lag'
    BY <1>2, <1>4, <2>1, <2>2 DEF Lag, Pending, Last
  <2> QED
    BY <2>3, <2>4
<1>5. CASE Advance
  <2>1. /\ ui.at = "written" /\ ui'.at = "advanced" /\ position' = position + 1
        /\ UNCHANGED <<game, begun, stats, file, now>>
    BY <1>5 DEF Advance, Typed, TypeOK
  <2>2. position + 1 = Len(file) /\ Pending
    BY <2>1, Numbers DEF Typed, Steps, Pending
  <2>3. ~Pending' /\ ~Ended /\ Ended'
    BY <2>1, <2>2, Numbers DEF Pending, Ended
  <2>4. Last.game = game /\ Last.length = now - begun
    BY <1>2, <2>1 DEF Lag
  <2>5. ASSUME NEW g \in Games
        PROVE  (Total(file, g) = stats[g] + (IF ~Ended THEN Saved(g)
                                   ELSE IF g = game THEN now - begun ELSE 0))'
    <3>1. Total(file, g) = stats[g] + Saved(g)
      BY <1>2, <2>3 DEF FileTrue
    <3>2. Saved(g) = IF g = game THEN now - begun ELSE 0
      BY <2>2, <2>4 DEF Saved
    <3> QED
      BY <2>1, <2>3, <3>1, <3>2
  <2>6. FileTrue'
    BY <2>5 DEF FileTrue
  <2>7. Lag'
    BY <2>1, <2>3 DEF Lag
  <2> QED
    BY <2>6, <2>7
<1>6. CASE AddEnded
  <2>1. /\ Ended /\ game' = NoGame /\ game \in Games
        /\ stats' = [stats EXCEPT ![game] = @ + now - begun]
        /\ ui'.at \in {"idle", "begin"}
        /\ UNCHANGED <<position, file>>
    BY <1>6 DEF AddEnded, Ended, Typed, TypeOK, Steps
  <2>2. ~Ended' /\ ~Pending'
    BY <1>2, <2>1 DEF Lag, Ended, Pending
  <2>3. ASSUME NEW g \in Games
        PROVE  (Total(file, g) = stats[g] + (IF ~Ended THEN Saved(g)
                                   ELSE IF g = game THEN now - begun ELSE 0))'
    <3>1. Total(file, g) = stats[g] + (IF g = game THEN now - begun ELSE 0)
      BY <1>2, <2>1 DEF FileTrue
    <3>2. stats'[g] = stats[g] + (IF g = game THEN now - begun ELSE 0)
      BY <2>1, Numbers, SMTT(30) DEF Typed, TypeOK
    <3>3. Saved(g)' = 0
      BY <2>2 DEF Saved
    <3>4. stats[g] + (IF g = game THEN now - begun ELSE 0) \in Nat
      BY Numbers
    <3> QED
      BY <2>1, <2>2, <3>1, <3>2, <3>3, <3>4
  <2>4. FileTrue'
    BY <2>3 DEF FileTrue
  <2>5. Lag'
    BY <2>1, <2>2 DEF Lag
  <2> QED
    BY <2>4, <2>5
<1>7. CASE Begun
  <2>1. PICK first : first = Scheduled(sessions + 1, now, now + Second30)
    OBVIOUS
  <2>2. /\ ui.at = "begin" /\ game = NoGame /\ game' = ui.next /\ ui.next \in Games
        /\ start' = now /\ begun' = now
        /\ ui'.at = "idle"
        /\ sessions' = sessions + 1 /\ updates' = updates \cup {first}
        /\ UNCHANGED <<stats, position, file, now>>
    BY <1>7, <2>1 DEF Begun, At, Typed, TypeOK, Steps
  <2>3. ~Ended /\ ~Ended' /\ (Pending' <=> Pending) /\ Last' = Last
    BY <2>2 DEF Ended, Pending, Last
  <2>4. \A g \in Games : Saved(g) = 0 /\ Saved(g)' = 0
    BY <1>2, <2>2, <2>3, Numbers DEF Lag, Saved
  <2>5. FileTrue'
    BY <1>2, <2>2, <2>3, <2>4 DEF FileTrue
  <2>6. Due(first)'
    <3>1. /\ first.by = sessions + 1 /\ first.start = now /\ first.at = "scheduled"
          /\ first.due = now + Second30
      BY <2>1 DEF Scheduled
    <3>2. Saved(game)' = 0 /\ now \in Nat
      BY <2>2, <2>4, Numbers
    <3>3. now <= now + 0 + MostLost /\ now <= now + Second30
      BY <3>2 DEF MostLost, Ping, Second30
    <3> QED
      BY <2>2, <3>1, <3>2, <3>3 DEF Due
  <2>7. first \in updates'
    BY <2>2
  <2>8. Saved(game)' <= now' - begun'
    BY <2>2, <2>4, Numbers
  <2>9. Lag'
    BY <1>2, <2>2, <2>3, <2>6, <2>7, <2>8 DEF Lag
  <2> QED
    BY <2>5, <2>9
<1> QED
  BY <1>3, <1>4, <1>5, <1>6, <1>7 DEF EndSession, BeginSession

\* The updates follow each other in time, and each saves what was played since.
LEMMA DueNext ==
    ASSUME Typed, Measured, FileTrue, Lag, ui.at = "idle", game # NoGame,
           NEW u \in updates, UpdateSession(u), ~raced'
    PROVE  \E w \in updates' : Due(w)'
<1>1. /\ UNCHANGED <<game, start, begun, stats, position, ui, now, sessions>>
      /\ UNCHANGED file \/ Write(u)
  BY DEF UpdateSession, Check, Decide, Write
<1>2. PICK v \in updates : Due(v)
  BY DEF Lag
<1>3. now \in Nat /\ begun \in Nat /\ Saved(game) \in Nat /\ Saved(game) <= now - begun
  BY Numbers, SavedIsNat DEF Lag, Ended
<1>4. /\ v.by \in Nat /\ v.due \in Nat /\ v.length \in Nat
      /\ v.at \in {"scheduled", "measured", "writing"}
  BY UpdateTyped DEF Update
<1>5. /\ Saved(game)' \in Nat /\ Saved(game) <= Saved(game)'
      /\ Write(u) => Saved(game)' = now - begun
  <2>1. CASE UNCHANGED file
    <3>1. Saved(game)' = Saved(game)
      BY <1>1, <2>1 DEF Saved, Pending, Last
    <3>2. CASE Write(u)
      <4>1. file' = Written(u.length) /\ Len(file') = position + 1 /\ u.length = now - begun
            /\ ~Ended /\ ~Ended'
        BY <1>1, <3>2, WrittenFacts, UpdateTyped DEF Write, Measured, Ended
      <4> QED
        BY <1>1, <1>3, <3>2, <4>1, LineWritten, UpdateTyped
    <3> QED
      BY <1>3, <3>1, <3>2
  <2>2. CASE Write(u)
    <3>1. file' = Written(u.length) /\ u.length = now - begun /\ ~Ended /\ ~Ended'
      BY <1>1, <2>2 DEF Write, Measured, Ended
    <3>2. Saved(game)' = u.length
      BY <1>1, <3>1, LineWritten, UpdateTyped
    <3> QED
      BY <1>3, <3>1, <3>2, Numbers
  <2> QED
    BY <1>1, <2>1, <2>2
<1>6. CASE u # v
  <2>1. v \in updates'
    BY <1>2, <1>6 DEF UpdateSession, Check, Decide, Write, Replaced
  <2>2. Due(v)'
    BY <1>1, <1>2, <1>3, <1>4, <1>5 DEF Due, MostLost, Ping, Second30
  <2> QED
    BY <2>1, <2>2
<1>7. CASE u = v /\ Check(u)
  <2>1. u.start = start /\ u.at = "scheduled" /\ u.due <= now /\ now <= u.due
    BY <1>2, <1>7 DEF Due, Check
  <2>2. PICK w \in Update : /\ Replaced(u, w) /\ w.at = "measured" /\ w.in = sessions
                            /\ w.by = u.by /\ w.start = u.start
    BY <1>7, <2>1, CheckFacts
  <2>3. now = begun + Second30 \/ begun + MostLost <= now
    BY <1>2, <1>3, <1>4, <1>7, <2>1 DEF Due
  <2>4. now <= begun + Saved(game) + MostLost /\ u.by = sessions
    BY <1>2, <1>7 DEF Due
  <2>5. Saved(game)' = Saved(game)
    BY <1>1, <1>7 DEF Check, Saved, Pending, Last
  <2>6. Due(w)'
    BY <1>1, <2>1, <2>2, <2>3, <2>4, <2>5 DEF Due
  <2> QED
    BY <2>2, <2>6 DEF Replaced
<1>8. CASE u = v /\ Decide(u)
  <2>1. /\ u.at = "measured" /\ u.in = sessions /\ u.by = sessions /\ u.start = start
        /\ now = begun + Second30 \/ begun + MostLost <= now
        /\ now <= begun + Saved(game) + MostLost
    BY <1>2, <1>8 DEF Due, Decide
  <2>2. u.length = now - begun
    BY <2>1 DEF Measured
  <2>3. Saved(game)' = Saved(game)
    BY <1>1, <1>8 DEF Decide, Saved, Pending, Last
  <2>4. CASE \E w \in Update : /\ Replaced(u, w) /\ w.at = "writing" /\ w.in = u.in
                               /\ w.by = u.by /\ w.start = u.start
    <3>1. PICK w \in Update : /\ Replaced(u, w) /\ w.at = "writing" /\ w.in = u.in
                              /\ w.by = u.by /\ w.start = u.start
      BY <2>4
    <3>2. Due(w)'
      BY <1>1, <2>1, <2>3, <3>1 DEF Due
    <3> QED
      BY <3>1, <3>2 DEF Replaced
  <2>5. CASE ~(u.length > Minute) /\ Replaced(u, Again(u))
    <3>1. now = begun + Second30
      BY <1>3, <2>1, <2>2, <2>5 DEF Minute, Second30, MostLost, Ping
    <3>2. PICK w : w = Again(u)
      OBVIOUS
    <3>3. w.at = "scheduled" /\ w.by = u.by /\ w.start = u.start /\ w.due = now + Ping
      BY <3>2, AgainTyped, UpdateTyped
    <3>4. Due(w)'
      BY <1>1, <1>3, <2>1, <2>3, <3>1, <3>3 DEF Due, Second30, MostLost, Ping
    <3> QED
      BY <2>5, <3>4, <3>2 DEF Replaced
  <2> QED
    BY <1>8, <2>4, <2>5, DecideFacts
<1>9. CASE u = v /\ Write(u)
  <2>1. /\ u.at = "writing" /\ u.by = sessions /\ u.start = start
        /\ now = begun + Second30 \/ begun + MostLost <= now
        /\ Replaced(u, Again(u))
    BY <1>2, <1>9 DEF Due, Write
  <2>2. PICK w : w = Again(u)
    OBVIOUS
  <2>3. w.at = "scheduled" /\ w.by = u.by /\ w.start = u.start /\ w.due = now + Ping
    BY <2>2, AgainTyped, UpdateTyped
  <2>4. w \in updates'
    BY <2>1, <2>2 DEF Replaced
  <2>5. Saved(game)' = now - begun
    BY <1>5, <1>9
  <2>6. Due(w)'
    BY <1>1, <1>3, <2>1, <2>3, <2>5 DEF Due, Second30, MostLost, Ping
  <2> QED
    BY <2>4, <2>6
<1> QED
  BY <1>6, <1>7, <1>8, <1>9 DEF UpdateSession

LEMMA KeptByUpdates ==
    ASSUME Typed, Measured, Kept, ~raced', NEW u \in updates, UpdateSession(u)
    PROVE  FileTrue' /\ Lag'
<1>1. ~raced
  BY DEF UpdateSession, Check, Decide, Write, Typed, TypeOK
<1>2. FileTrue /\ Lag
  BY <1>1 DEF Kept
<1>3. UNCHANGED <<game, start, begun, stats, position, ui, now, sessions>>
  BY DEF UpdateSession, Check, Decide, Write
<1>4. ui.at = "idle" /\ game # NoGame => \E w \in updates' : Due(w)'
  BY <1>2, DueNext
<1>5. CASE UNCHANGED file
  <2>1. \A h : Saved(h)' = Saved(h)
    BY <1>3, <1>5 DEF Saved, Pending, Last
  <2>2. FileTrue'
    BY <1>2, <1>3, <1>5, <2>1 DEF FileTrue, Ended
  <2>3. Lag'
    BY <1>2, <1>3, <1>4, <1>5, <2>1 DEF Lag, Ended, Pending, Last
  <2> QED
    BY <2>2, <2>3
<1>6. CASE Write(u)
  <2>1. file' = Written(u.length) /\ u.in = sessions /\ ui.at = "idle" /\ u.at = "writing"
    BY <1>6 DEF Write
  <2>2. ~Ended /\ ~Ended' /\ ui'.at = "idle"
    BY <1>3, <2>1 DEF Ended
  <2>3. /\ Pending' /\ Last'.game = game /\ Saved(game)' = u.length /\ FileTrue'
    BY <1>2, <1>3, <2>1, <2>2, LineWritten, UpdateTyped
  <2>4. game # NoGame => Saved(game)' <= now - begun
    BY <2>1, <2>3, Numbers DEF Measured
  <2>5. Lag'
    BY <1>3, <1>4, <2>2, <2>3, <2>4 DEF Lag
  <2> QED
    BY <2>3, <2>5
<1> QED
  BY <1>5, <1>6 DEF UpdateSession, Check, Decide

LEMMA KeptStep == IInv /\ [Next]_vars => Kept'
<1> SUFFICES ASSUME Typed, Measured, Kept, [Next]_vars, ~raced' PROVE FileTrue' /\ Lag'
  BY DEF IInv, Kept
<1>1. CASE EndSession \/ (\E g \in Games : BeginSession(g)) \/ Advance \/ AddEnded \/ Begun
  BY <1>1, KeptAtBounds
<1>2. ASSUME NEW u \in updates, UpdateSession(u) PROVE FileTrue' /\ Lag'
  BY <1>2, KeptByUpdates
<1>3. CASE Tick
  <2>1. /\ ui.at = "idle" /\ now' = now + 1 /\ \A u \in updates : u.at = "scheduled" /\ u.due > now
        /\ UNCHANGED <<game, start, begun, stats, position, file, ui, updates, sessions, raced>>
    BY <1>3 DEF Tick
  <2>2. FileTrue /\ Lag
    BY <2>1 DEF Kept
  <2>3. \A h : Saved(h)' = Saved(h)
    BY <2>1 DEF Saved, Pending, Last
  <2>4. ~Ended /\ ~Ended' /\ ui'.at = "idle"
    BY <2>1 DEF Ended
  <2>5. FileTrue'
    BY <2>1, <2>2, <2>3, <2>4 DEF FileTrue
  <2>6. now \in Nat /\ begun \in Nat /\ Saved(game) \in Nat
    BY Numbers, SavedIsNat
  <2>7. ASSUME game # NoGame PROVE \E u \in updates : Due(u)'
    <3>1. PICK u \in updates : Due(u)
      BY <2>1, <2>2, <2>7 DEF Lag
    <3>2. u.at = "scheduled" /\ u.due > now /\ u.due \in Nat
      BY <2>1, UpdateTyped
    <3>3. Due(u)'
      BY <2>1, <2>3, <2>6, <3>1, <3>2 DEF Due, Second30, MostLost, Ping
    <3> QED
      BY <3>3
  <2>8. game # NoGame => Saved(game)' <= now' - begun'
    BY <2>1, <2>2, <2>3, <2>4, <2>6 DEF Lag
  <2>9. Lag'
    BY <2>1, <2>2, <2>4, <2>7, <2>8 DEF Lag, Pending, Last
  <2> QED
    BY <2>5, <2>9
<1>4. CASE Restart
  <2>1. /\ game' = NoGame /\ position' = Len(file) /\ ui'.at = "idle" /\ file' = file
        /\ stats' = [g \in Games |-> Total(file, g)]
    BY <1>4 DEF Restart, At
  <2>2. ~Pending' /\ ~Ended'
    BY <2>1, Numbers DEF Pending, Ended
  <2>3. ASSUME NEW g \in Games
        PROVE  (Total(file, g) = stats[g] + (IF ~Ended THEN Saved(g)
                                   ELSE IF g = game THEN now - begun ELSE 0))'
    <3>1. Saved(g)' = 0 /\ Total(file, g) \in Nat
      BY <2>2, Numbers, TotalIsNat DEF Saved
    <3> QED
      BY <2>1, <2>2, <3>1
  <2>4. FileTrue'
    BY <2>3 DEF FileTrue
  <2>5. Lag'
    BY <2>1, <2>2 DEF Lag
  <2> QED
    BY <2>4, <2>5
<1>5. CASE UNCHANGED vars
  <2>1. /\ UNCHANGED <<game, start, begun, stats, position, file, ui, updates, now,
                       sessions, raced>>
    BY <1>5 DEF vars
  <2>2. FileTrue /\ Lag
    BY <2>1 DEF Kept
  <2>3. FileTrue'
    BY <2>1, <2>2 DEF FileTrue, Saved, Pending, Last, Ended
  <2>4. \A u : Due(u) => Due(u)'
    BY <2>1 DEF Due, Saved, Pending, Last
  <2>5. Lag'
    BY <2>1, <2>2, <2>4 DEF Lag, Saved, Pending, Last, Ended
  <2> QED
    BY <2>3, <2>5
<1> QED
  BY <1>1, <1>2, <1>3, <1>4, <1>5 DEF Next

LEMMA Invariance == Spec => []IInv
<1>1. IInv /\ [Next]_vars => IInv'
  BY TypedStep, PlaytimeStep, MeasuredStep, KeptStep DEF IInv
<1> QED
  BY <1>1, InitInvariant, PTL DEF Spec

-----------------------------------------------------------------------------
\* Every member keeps its type, a current game has a start, and the position is
\* inside the file, for any number of updates that overlap sessions.
THEOREM TypeCorrect == Spec => []TypeOK
<1>1. IInv => TypeOK
  BY DEF IInv, Typed
<1> QED
  BY <1>1, Invariance, PTL

\* GetTotalPlaytime is the time each game was really played, for any sequence of
\* sessions, updates, crashes and restarts.
THEOREM PlaytimeAlwaysTrue == Spec => []PlaytimeTrue
<1>1. IInv => PlaytimeTrue
  BY DEF IInv
<1> QED
  BY <1>1, Invariance, PTL

\* UpdateSession and EndSession: whenever the program crashes, the file holds all
\* sessions that ended, and the current one but for the time between two updates.
THEOREM CrashAlwaysLosesLittle == Spec => []CrashLosesLittle
<1>1. IInv => CrashLosesLittle
  <2> SUFFICES ASSUME IInv, ~raced, NEW g \in Games
               PROVE  /\ Total(file, g) <= GetTotalPlaytime(g)
                      /\ GetTotalPlaytime(g)
                           <= Total(file, g) + (IF game = g THEN MostLost ELSE 0)
    BY DEF CrashLosesLittle
  <2>1. FileTrue /\ Lag /\ Typed
    BY DEF IInv, Kept
  <2>2. Total(file, g) = stats[g] + (IF ~Ended THEN Saved(g)
                                     ELSE IF g = game THEN now - begun ELSE 0)
    BY <2>1 DEF FileTrue
  <2>3. /\ now \in Nat /\ begun \in Nat /\ begun <= now /\ stats[g] \in Nat
        /\ Saved(g) \in Nat /\ MostLost = 5 /\ g # NoGame
    BY <2>1, Numbers, SavedIsNat DEF MostLost, Ping, Second30
  <2>4. GetTotalPlaytime(g) = stats[g] + (IF game = g THEN now - begun ELSE 0)
    BY DEF GetTotalPlaytime
  <2>5. CASE game # g
    <3>1. Saved(g) = 0
      BY <2>1, <2>3, <2>5 DEF Lag, Saved
    <3> QED
      BY <2>2, <2>3, <2>4, <2>5, <3>1
  <2>6. CASE game = g /\ Ended
    BY <2>2, <2>3, <2>4, <2>6
  <2>7. CASE game = g /\ ~Ended
    <3>1. ui.at \in {"idle", "written"}
      BY <2>1, <2>3, <2>7 DEF Typed, TypeOK, Steps, Ended
    <3>2. Saved(g) <= now - begun
      BY <2>1, <2>3, <2>7 DEF Lag
    <3>3. now <= begun + Saved(g) + MostLost
      <4>1. CASE ui.at = "idle"
        BY <2>1, <2>3, <2>7, <4>1 DEF Lag, Due
      <4>2. CASE ui.at = "written"
        <5>1. Pending /\ Last.game = g /\ Last.length = now - begun
          BY <2>1, <2>7, <4>2 DEF Lag, Typed, Steps, Pending
        <5>2. Saved(g) = now - begun
          BY <5>1 DEF Saved
        <5> QED
          BY <2>3, <5>2
      <4> QED
        BY <3>1, <4>1, <4>2
    <3> QED
      BY <2>2, <2>3, <2>4, <2>7, <3>2, <3>3
  <2> QED
    BY <2>5, <2>6, <2>7
<1> QED
  BY <1>1, Invariance, PTL
=============================================================================
