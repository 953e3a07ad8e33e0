-------------------------- MODULE GameLoadProofs --------------------------
(***************************************************************************)
(* Proofs about GameLoad for any games, hashes, ways to resolve a hash and *)
(* any number of loads.                                                    *)
(***************************************************************************)
EXTENDS GameLoad, FiniteSetTheorems, TLAPS

Rec == [stage : Stages, game : Games \cup {NoGame, Placeholder},
        hash : Hashes \cup {NoHash},
        external : BOOLEAN, wasPaused : BOOLEAN, aborted : BOOLEAN,
        gets : Games \cup {NoGame}, ok : BOOLEAN,
        seen : Games \cup {NoGame, Placeholder}]

Active == Stages \ {"none", "done", "left"}

\* The emulator's thread is with the load that it has begun; notes are fetched for
\* a load whose rest is done; sets that arrived are those of a game.
Progress ==
    /\ main.at \in {"pause", "request"} =>
          main.load \in Loads /\ load[main.load].stage = "begun"
    /\ \A l \in Loads : load[l].stage = "begun" =>
          main.at \in {"pause", "request"} /\ main.load = l
    /\ \A l \in fetching : load[l].stage \in {"merged", "done"}
    /\ \A l \in Loads : load[l].stage \in {"sets", "started"} => load[l].gets \in Games

Inv == TypeOK /\ LoadsCounted /\ Progress

-----------------------------------------------------------------------------
(* Counting                                                                *)

LEMMA FiniteLoads ==
    ASSUME NEW S \in SUBSET Loads
    PROVE  IsFiniteSet(S) /\ Cardinality(S) \in Nat
<1>1. IsFiniteSet(Loads)
  <2>1. 1 \in Int /\ MaxLoads \in Int
    BY LoadAssumption
  <2> QED
    BY <2>1, FS_Interval DEF Loads
<1>2. IsFiniteSet(S)
  BY <1>1, FS_Subset
<1> QED
  BY <1>2, FS_CardinalityType

LEMMA Grows ==
    ASSUME NEW S \in SUBSET Loads, NEW x, x \notin S
    PROVE  Cardinality(S \cup {x}) = Cardinality(S) + 1
BY FiniteLoads, FS_AddElement

LEMMA Shrinks ==
    ASSUME NEW S \in SUBSET Loads, NEW x \in S
    PROVE  Cardinality(S \ {x}) = Cardinality(S) - 1 /\ Cardinality(S) > 0
<1>1. IsFiniteSet(S) /\ Cardinality(S) \in Nat /\ Cardinality(S \ {x}) \in Nat
  BY FiniteLoads
<1>2. Cardinality(S \ {x}) = Cardinality(S) - 1
  BY <1>1, FS_RemoveElement
<1> QED
  BY <1>1, <1>2

LEMMA Sizes ==
    /\ UnderWay \in SUBSET Loads /\ Left \in SUBSET Loads
    /\ Cardinality(UnderWay) \in Nat /\ Cardinality(Left) \in Nat
BY FiniteLoads DEF UnderWay, Left

LEMMA SameCounts ==
    ASSUME \A k \in Loads : /\ load'[k].stage \in {"none", "done", "left"} <=>
                                 load[k].stage \in {"none", "done", "left"}
                            /\ load'[k].stage = "left" <=> load[k].stage = "left"
    PROVE  UnderWay' = UnderWay /\ Left' = Left
BY DEF UnderWay, Left

\* A load that goes on, before its end.
LEMMA Moves ==
    ASSUME Inv, NEW l \in Loads, load[l].stage \notin {"none", "done", "left", "begun", "merged"},
           NEW r \in Rec, load' = [load EXCEPT ![l] = r],
           r.stage \in Active \ {"begun", "merged"},
           r.stage \in {"sets", "started"} => r.gets \in Games,
           UNCHANGED <<main, updating, loadCount, fetching>>
    PROVE  load' \in [Loads -> Rec] /\ LoadsCounted' /\ Progress'
<1>1. load \in [Loads -> Rec]
  BY DEF Inv, TypeOK, Rec
<1>2. load' \in [Loads -> Rec] /\ \A k \in Loads : load'[k] = IF k = l THEN r ELSE load[k]
  BY <1>1
<1>3. UnderWay' = UnderWay /\ Left' = Left
  BY <1>2, SameCounts DEF Active
<1>4. LoadsCounted'
  BY <1>3 DEF Inv, LoadsCounted
<1>5. l \notin fetching /\ fetching \subseteq Loads
  BY DEF Inv, Progress, TypeOK
<1>6. ASSUME main.at \in {"pause", "request"}
      PROVE  main.load \in Loads /\ load'[main.load].stage = "begun"
  BY <1>2, <1>6 DEF Inv, Progress
<1>7. Progress'
  BY <1>2, <1>5, <1>6 DEF Inv, Progress
<1> QED
  BY <1>2, <1>4, <1>7

LEMMA MovedTo ==
    ASSUME TypeOK, NEW l \in Loads, NEW p \in Stages, MoveTo(l, p)
    PROVE  /\ [load[l] EXCEPT !.stage = p] \in Rec
           /\ [load[l] EXCEPT !.stage = p].stage = p
           /\ [load[l] EXCEPT !.stage = p].gets = load[l].gets
           /\ load' = [load EXCEPT ![l] = [load[l] EXCEPT !.stage = p]]
<1>1. load[l] \in Rec
  BY DEF TypeOK, Rec
<1> QED
  BY <1>1 DEF Rec, MoveTo

-----------------------------------------------------------------------------
(* The steps on worker threads                                             *)

LEMMA MoveStep ==
    ASSUME Inv, NEW l \in Loads, load[l].stage \notin {"none", "done", "left", "begun", "merged"},
           NEW p \in Active \ {"begun", "merged"}, MoveTo(l, p),
           p \in {"sets", "started"} => load[l].gets \in Games,
           UNCHANGED <<main, updating, loadCount, fetching>>
    PROVE  load' \in [Loads -> Rec] /\ LoadsCounted' /\ Progress'
<1> DEFINE r == [load[l] EXCEPT !.stage = p]
<1>1. p \in Stages
  BY DEF Active
<1>2. /\ r \in Rec /\ r.stage = p /\ r.gets = load[l].gets
      /\ load' = [load EXCEPT ![l] = r]
  BY <1>1, MovedTo DEF Inv
<1> HIDE DEF r
<1> QED
  BY <1>2, Moves

\* What a failure leaves of the load
LEMMA FailFacts ==
    ASSUME TypeOK, NEW l \in Loads, Fail(l)
    PROVE  \E r \in Rec : /\ load' = [load EXCEPT ![l] = r]
                          /\ r.stage = "failed" /\ r.hash = NoHash
                          /\ r.game = load[l].game /\ r.external = load[l].external
                          /\ r.wasPaused = load[l].wasPaused
                          /\ r.gets = load[l].gets /\ r.ok = load[l].ok
<1> DEFINE r == [load[l] EXCEPT !.stage = "failed", !.hash = NoHash, !.aborted = FALSE]
<1>1. load[l] \in Rec /\ load \in [Loads -> Rec]
  BY DEF TypeOK, Rec
<1>2. r \in Rec
  BY <1>1, ZenonT(40) DEF Rec, Stages
<1>3. /\ r.stage = "failed" /\ r.hash = NoHash
      /\ r.game = load[l].game /\ r.external = load[l].external
      /\ r.wasPaused = load[l].wasPaused
      /\ r.gets = load[l].gets /\ r.ok = load[l].ok
  BY <1>1 DEF Rec
<1>4. load' = [load EXCEPT ![l] = r]
  BY <1>1 DEF Fail, Rec
<1> HIDE DEF r
<1> QED
  BY <1>2, <1>3, <1>4

LEMMA FailStep ==
    ASSUME Inv, NEW l \in Loads, Fail(l)
    PROVE  Inv'
<1>1. PICK r \in Rec : load' = [load EXCEPT ![l] = r] /\ r.stage = "failed"
  BY FailFacts DEF Inv
<1>2. load' \in [Loads -> Rec] /\ LoadsCounted' /\ Progress'
  BY <1>1, Moves DEF Fail, Active, Stages, context
<1>3. TypeOK'
  BY <1>2 DEF Fail, context, history, NoLonger, Inv, TypeOK, Rec
<1> QED
  BY <1>2, <1>3 DEF Inv

LEMMA SetsArriveStep ==
    ASSUME Inv, NEW l \in Loads, NEW g \in Games \cup {NoGame}, SetsArrive(l, g)
    PROVE  Inv'
<1> DEFINE p == IF g = NoGame THEN "loaded" ELSE "sets"
           r == [load[l] EXCEPT !.gets = g, !.stage = p]
<1>1. load[l] \in Rec /\ load[l].stage = "sent" /\ p \in Stages
  BY DEF SetsArrive, Inv, TypeOK, Rec, Stages
<1>2. r \in Rec /\ r.stage = p /\ r.gets = g
  BY <1>1 DEF Rec
<1>3. load' = [load EXCEPT ![l] = r]
  BY <1>1 DEF SetsArrive, Inv, TypeOK, Rec
<1> HIDE DEF r
<1>4. load' \in [Loads -> Rec] /\ LoadsCounted' /\ Progress'
  BY <1>1, <1>2, <1>3, Moves DEF SetsArrive, Active, Stages, context
<1>5. TypeOK'
  BY <1>4 DEF SetsArrive, context, history, NoLonger, Inv, TypeOK, Rec
<1> QED
  BY <1>4, <1>5 DEF Inv

LEMMA InitializeAchievementSetsStep ==
    ASSUME Inv, NEW l \in Loads, InitializeAchievementSets(l)
    PROVE  Inv'
<1>1. load[l].stage = "sets" /\ load[l].gets \in Games
  BY DEF InitializeAchievementSets, Inv, Progress
<1>2. load' \in [Loads -> Rec] /\ LoadsCounted' /\ Progress'
  BY <1>1, MoveStep DEF InitializeAchievementSets, Active, Stages
<1>3. TypeOK'
  BY <1>1, <1>2 DEF InitializeAchievementSets, client, history, Inv, TypeOK, Rec
<1> QED
  BY <1>2, <1>3 DEF Inv

LEMMA SessionStartsStep ==
    ASSUME Inv, NEW l \in Loads, SessionStarts(l)
    PROVE  Inv'
<1>1. load[l] \in Rec
  BY DEF Inv, TypeOK, Rec
<1>2. load' \in [Loads -> Rec] /\ LoadsCounted' /\ Progress'
  BY MoveStep DEF SessionStarts, Active, Stages, context
<1>3. game' \in [id : Games \cup {NoGame}, hash : Hashes \cup {NoHash}]
  BY <1>1 DEF SessionStarts, Rec
<1>4. TypeOK'
  BY <1>2, <1>3 DEF SessionStarts, context, history, NoLonger, Inv, TypeOK, Rec
<1> QED
  BY <1>2, <1>4 DEF Inv

\* What is left of the load when its identifier is set
LEMMA IdsFacts ==
    ASSUME TypeOK, NEW l \in Loads, InitializeIds(l)
    PROVE  \E r \in Rec : /\ load' = [load EXCEPT ![l] = r]
                          /\ r.stage = "append" /\ r.hash = NoHash
                          /\ r.game = load[l].game /\ r.external = load[l].external
                          /\ r.wasPaused = load[l].wasPaused
                          /\ r.gets = load[l].gets /\ r.ok = load[l].ok
<1> DEFINE r == [load[l] EXCEPT !.stage = "append", !.hash = NoHash]
<1>1. load[l] \in Rec /\ load \in [Loads -> Rec]
  BY DEF TypeOK, Rec
<1>2. r \in Rec
  BY <1>1, ZenonT(40) DEF Rec, Stages
<1>3. /\ r.stage = "append" /\ r.hash = NoHash
      /\ r.game = load[l].game /\ r.external = load[l].external
      /\ r.wasPaused = load[l].wasPaused
      /\ r.gets = load[l].gets /\ r.ok = load[l].ok
  BY <1>1 DEF Rec
<1>4. load' = [load EXCEPT ![l] = r]
  BY <1>1 DEF InitializeIds, Rec
<1> HIDE DEF r
<1> QED
  BY <1>2, <1>3, <1>4

LEMMA InitializeIdsStep ==
    ASSUME Inv, NEW l \in Loads, InitializeIds(l)
    PROVE  Inv'
<1>1. load[l].hash \in Hashes \cup {NoHash}
  BY DEF Inv, TypeOK
<1>2. PICK r \in Rec : load' = [load EXCEPT ![l] = r] /\ r.stage = "append"
  BY IdsFacts DEF Inv
<1>3. load' \in [Loads -> Rec] /\ LoadsCounted' /\ Progress'
  BY <1>2, Moves DEF InitializeIds, Active, Stages
<1>4. TypeOK'
  BY <1>1, <1>3 DEF InitializeIds, client, history, Inv, TypeOK, Rec
<1> QED
  BY <1>3, <1>4 DEF Inv

LEMMA InitializeAssetsStep ==
    ASSUME Inv, NEW l \in Loads, InitializeAssets(l)
    PROVE  Inv'
<1>1. PICK ok \in BOOLEAN :
         load' = [load EXCEPT ![l].ok = ok,
                     ![l].stage = IF ~ok THEN "failed"
                                  ELSE IF load[l].external THEN "end" ELSE "finish"]
  BY DEF InitializeAssets
<1> DEFINE p == IF ~ok THEN "failed" ELSE IF load[l].external THEN "end" ELSE "finish"
           r == [load[l] EXCEPT !.ok = ok, !.stage = p]
<1>2. load[l] \in Rec /\ load[l].stage = "append" /\ p \in {"failed", "end", "finish"}
  BY DEF InitializeAssets, Inv, TypeOK, Rec
<1>3. r \in Rec /\ r.stage = p
  BY <1>2, ZenonT(40) DEF Rec, Stages
<1>4. load' = [load EXCEPT ![l] = r]
  BY <1>1, <1>2 DEF Inv, TypeOK, Rec
<1> HIDE DEF r
<1>5. load' \in [Loads -> Rec] /\ LoadsCounted' /\ Progress'
  BY <1>2, <1>3, <1>4, Moves DEF InitializeAssets, Active, Stages
<1>6. TypeOK'
  BY <1>5 DEF InitializeAssets, client, history, Inv, TypeOK, Rec
<1> QED
  BY <1>5, <1>6 DEF Inv

LEMMA FinishLoadGameStep ==
    ASSUME Inv, NEW l \in Loads, NEW valid, FinishLoadGame(l, valid)
    PROVE  Inv'
<1>1. CASE MoveTo(l, "end") /\ UNCHANGED <<gameId, gameHash>>
  <2>1. load' \in [Loads -> Rec] /\ LoadsCounted' /\ Progress'
    BY <1>1, MoveStep DEF FinishLoadGame, Active, Stages
  <2>2. TypeOK'
    BY <1>1, <2>1 DEF FinishLoadGame, client, history, Inv, TypeOK, Rec
  <2> QED
    BY <2>1, <2>2 DEF Inv
<1>2. CASE /\ gameId' = NoGame /\ gameHash' = NoHash
           /\ load' = [load EXCEPT ![l].ok = FALSE, ![l].stage = "end"]
  <2> DEFINE r == [load[l] EXCEPT !.ok = FALSE, !.stage = "end"]
  <2>1. load[l] \in Rec /\ load[l].stage = "finish"
    BY DEF FinishLoadGame, Inv, TypeOK, Rec
  <2>2. r \in Rec /\ r.stage = "end"
    BY <2>1 DEF Rec, Stages
  <2>3. load' = [load EXCEPT ![l] = r]
    BY <1>2, <2>1 DEF Inv, TypeOK, Rec
  <2> HIDE DEF r
  <2>4. load' \in [Loads -> Rec] /\ LoadsCounted' /\ Progress'
    BY <2>1, <2>2, <2>3, Moves DEF FinishLoadGame, Active, Stages
  <2>5. TypeOK'
    BY <1>2, <2>4 DEF FinishLoadGame, client, history, Inv, TypeOK, Rec
  <2> QED
    BY <2>4, <2>5 DEF Inv
<1> QED
  BY <1>1, <1>2 DEF FinishLoadGame

LEMMA FinishFailedStep ==
    ASSUME Inv, NEW l \in Loads, FinishFailed(l)
    PROVE  Inv'
<1>1. load' \in [Loads -> Rec] /\ LoadsCounted' /\ Progress'
  BY MoveStep DEF FinishFailed, Active, Stages
<1>2. TypeOK'
  BY <1>1 DEF FinishFailed, client, history, Inv, TypeOK, Rec
<1> QED
  BY <1>1, <1>2 DEF Inv

LEMMA ReadGameIdStep ==
    ASSUME Inv, NEW l \in Loads, ReadGameId(l)
    PROVE  Inv'
<1> DEFINE r == [load[l] EXCEPT !.seen = gameId, !.stage = "lock"]
<1>1. load[l] \in Rec /\ load[l].stage = "end" /\ gameId \in Games \cup {NoGame, Placeholder}
  BY DEF ReadGameId, Inv, TypeOK, Rec
<1>2. r \in Rec /\ r.stage = "lock"
  BY <1>1 DEF Rec, Stages
<1>3. load' = [load EXCEPT ![l] = r]
  BY <1>1 DEF ReadGameId, Inv, TypeOK, Rec
<1> HIDE DEF r
<1>4. load' \in [Loads -> Rec] /\ LoadsCounted' /\ Progress'
  BY <1>1, <1>2, <1>3, Moves DEF ReadGameId, Active, Stages, context
<1>5. TypeOK'
  BY <1>4 DEF ReadGameId, context, client, history, Inv, TypeOK, Rec
<1> QED
  BY <1>4, <1>5 DEF Inv

\* Sums of the numbers that are counted
LEMMA Sums ==
    ASSUME NEW a \in Nat, NEW b \in Nat, NEW u, NEW u1, NEW c, NEW c1, NEW f \in Nat,
           u = a + b, c = u + f
    PROVE  /\ u \in Nat /\ c \in Nat
           /\ a > 0 => u > 0 /\ u - 1 \in Nat /\ c - 1 \in Nat
           /\ u + 1 = (a + 1) + b /\ c + 1 = (u + 1) + f /\ c + 1 = u + (f + 1)
           /\ u = (a - 1) + (b + 1) /\ u - 1 = (a - 1) + b /\ c - 1 = (u - 1) + f
           /\ c - 1 = u + (f - 1)
           /\ f > 0 => c - 1 \in Nat
OBVIOUS

LEMMA Counted ==
    ASSUME Inv
    PROVE  /\ Cardinality(UnderWay) \in Nat /\ Cardinality(Left) \in Nat
           /\ Cardinality(fetching) \in Nat
           /\ updating = Cardinality(UnderWay) + Cardinality(Left)
           /\ loadCount = updating + Cardinality(fetching)
BY FiniteLoads, Sizes DEF Inv, TypeOK, LoadsCounted

LEMMA LeaveFacts ==
    ASSUME Inv, NEW l \in Loads, NEW p \in {"done", "left"}, Leave(l, p)
    PROVE  LET unfinished == load[l].external /\ ~load[l].ok IN
           /\ load' \in [Loads -> Rec]
           /\ \A k \in Loads \ {l} : load'[k] = load[k]
           /\ load'[l].stage = p /\ load'[l].hash = NoHash
           /\ load'[l].external = unfinished
           /\ unfinished \/ notes = l => load'[l].gets = load[l].gets
<1> DEFINE unfinished == load[l].external /\ ~load[l].ok
           gets == IF unfinished \/ notes = l THEN load[l].gets ELSE NoGame
           r == [Fresh EXCEPT !.stage = p, !.gets = gets, !.external = unfinished]
<1>1. load[l] \in Rec /\ load \in [Loads -> Rec]
  BY DEF Inv, TypeOK, Rec
<1>2. gets \in Games \cup {NoGame} /\ unfinished \in BOOLEAN
  BY <1>1 DEF Rec
<1>3. unfinished \/ notes = l => gets = load[l].gets
  OBVIOUS
<1>4. load' = [load EXCEPT ![l] = r]
  BY DEF Leave
<1> HIDE DEF unfinished, gets
<1>5. r \in Rec
  BY <1>2, ZenonT(40) DEF Rec, Fresh, Stages
<1>6. r.stage = p /\ r.hash = NoHash /\ r.external = unfinished /\ r.gets = gets
  BY DEF Fresh
<1> HIDE DEF r
<1>7. load' \in [Loads -> Rec] /\ load'[l] = r /\ \A k \in Loads \ {l} : load'[k] = load[k]
  BY <1>1, <1>4, <1>5
<1> QED
  BY <1>3, <1>6, <1>7 DEF unfinished

\* What is left of the load that goes on to request the notes
LEMMA MergedFacts ==
    ASSUME TypeOK, NEW l \in Loads,
           load' = [load EXCEPT ![l].stage = "merged", ![l].seen = NoGame]
    PROVE  \E r \in Rec : /\ load' = [load EXCEPT ![l] = r]
                          /\ r.stage = "merged" /\ r.hash = load[l].hash
                          /\ r.game = load[l].game /\ r.external = load[l].external
                          /\ r.wasPaused = load[l].wasPaused
                          /\ r.gets = load[l].gets /\ r.ok = load[l].ok
<1> DEFINE r == [load[l] EXCEPT !.stage = "merged", !.seen = NoGame]
<1>1. load[l] \in Rec /\ load \in [Loads -> Rec]
  BY DEF TypeOK, Rec
<1>2. r \in Rec
  BY <1>1, ZenonT(40) DEF Rec, Stages
<1>3. /\ r.stage = "merged" /\ r.hash = load[l].hash
      /\ r.game = load[l].game /\ r.external = load[l].external
      /\ r.wasPaused = load[l].wasPaused
      /\ r.gets = load[l].gets /\ r.ok = load[l].ok
  BY <1>1 DEF Rec
<1>4. load' = [load EXCEPT ![l] = r]
  BY <1>1 DEF Rec
<1> HIDE DEF r
<1> QED
  BY <1>2, <1>3, <1>4

LEMMA MergeStep ==
    ASSUME Inv, NEW l \in Loads, Merge(l)
    PROVE  Inv'
<1> DEFINE a == Cardinality(UnderWay)
           b == Cardinality(Left)
           f == Cardinality(fetching)
<1>1. /\ load[l].stage = "lock" /\ l \notin fetching /\ fetching \subseteq Loads
      /\ load \in [Loads -> Rec] /\ UNCHANGED <<main, updating>>
  BY DEF Merge, Inv, Progress, TypeOK, Rec
<1>2. /\ a \in Nat /\ b \in Nat /\ f \in Nat /\ updating = a + b /\ loadCount = updating + f
  BY Counted
<1>3. CASE Leave(l, "left") /\ UNCHANGED <<loadCount, fetching, notes>>
  <2>1. /\ load' \in [Loads -> Rec] /\ load'[l].stage = "left"
        /\ \A k \in Loads \ {l} : load'[k] = load[k]
    BY <1>3, LeaveFacts
  <2>2. UnderWay' = UnderWay \ {l} /\ Left' = Left \cup {l} /\ l \in UnderWay /\ l \notin Left
    BY <1>1, <2>1 DEF UnderWay, Left
  <2>3. Cardinality(UnderWay') = a - 1 /\ Cardinality(Left') = b + 1
    BY <2>2, Sizes, Grows, Shrinks
  <2>4. LoadsCounted'
    <3> HIDE DEF a, b, f
    <3>1. updating = (a - 1) + (b + 1)
      BY <1>2
    <3> QED
      BY <1>1, <1>2, <1>3, <2>3, <3>1 DEF LoadsCounted, f
  <2>5. Progress'
    BY <1>1, <1>3, <2>1 DEF Inv, Progress
  <2>6. TypeOK'
    BY <1>3, <2>1 DEF Merge, client, history, Inv, TypeOK, Rec
  <2> QED
    BY <2>4, <2>5, <2>6 DEF Inv
<1>4. CASE /\ load' = [load EXCEPT ![l].stage = "merged", ![l].seen = NoGame]
           /\ \/ UNCHANGED <<loadCount, fetching, notes>>
              \/ /\ loadCount' = loadCount + 1 /\ fetching' = fetching \cup {l}
                 /\ notes' = l
  <2>1. PICK r \in Rec : load' = [load EXCEPT ![l] = r] /\ r.stage = "merged"
    BY <1>4, MergedFacts DEF Inv
  <2>2. /\ load' \in [Loads -> Rec] /\ load'[l].stage = "merged"
        /\ \A k \in Loads \ {l} : load'[k] = load[k]
    BY <1>1, <2>1
  <2>3. UnderWay' = UnderWay /\ Left' = Left
    BY <1>1, <2>2 DEF UnderWay, Left
  <2>4. fetching' \subseteq Loads /\ loadCount' \in Nat /\ loadCount' = updating + Cardinality(fetching')
    <3>1. CASE UNCHANGED <<loadCount, fetching, notes>>
      BY <1>1, <1>2, <3>1 DEF Inv, TypeOK
    <3>2. CASE loadCount' = loadCount + 1 /\ fetching' = fetching \cup {l}
      <4>1. Cardinality(fetching') = f + 1
        BY <1>1, <3>2, Grows
      <4>2. loadCount \in Nat /\ updating \in Nat
        BY DEF Inv, TypeOK
      <4>3. loadCount' = updating + (f + 1)
        <5> HIDE DEF f
        <5> QED
          BY <1>2, <3>2, <4>2
      <4>4. loadCount' \in Nat
        BY <3>2, <4>2
      <4>5. fetching' \subseteq Loads
        BY <1>1, <3>2
      <4> QED
        BY <4>1, <4>3, <4>4, <4>5
    <3> QED
      BY <1>4, <3>1, <3>2
  <2>5. LoadsCounted'
    BY <1>1, <1>2, <2>3, <2>4 DEF LoadsCounted
  <2>6. Progress'
    <3>1. \A k \in fetching' : k \in fetching \/ k = l
      BY <1>4
    <3> QED
      BY <1>1, <2>2, <2>4, <3>1 DEF Inv, Progress
  <2>7. TypeOK'
    BY <1>4, <2>2, <2>4 DEF Merge, client, history, Inv, TypeOK, Rec
  <2> QED
    BY <2>5, <2>6, <2>7 DEF Inv
<1> QED
  BY <1>3, <1>4 DEF Merge

LEMMA EndLoadGameStep ==
    ASSUME Inv, NEW l \in Loads, EndLoadGame(l)
    PROVE  Inv'
<1> DEFINE a == Cardinality(UnderWay)
           b == Cardinality(Left)
           f == Cardinality(fetching)
<1>1. /\ load[l].stage = "merged" /\ fetching' = fetching /\ main' = main
      /\ load \in [Loads -> Rec] /\ fetching \subseteq Loads
  BY DEF EndLoadGame, Inv, TypeOK, Rec
<1>2. /\ a \in Nat /\ b \in Nat /\ f \in Nat /\ updating = a + b /\ loadCount = updating + f
  BY Counted
<1>3. /\ load' \in [Loads -> Rec] /\ load'[l].stage = "done"
      /\ \A k \in Loads \ {l} : load'[k] = load[k]
  BY LeaveFacts DEF EndLoadGame
<1>4. UnderWay' = UnderWay \ {l} /\ Left' = Left /\ l \in UnderWay
  BY <1>1, <1>3 DEF UnderWay, Left
<1>5. Cardinality(UnderWay') = a - 1 /\ a > 0
  BY <1>4, Sizes, Shrinks
<1>6. /\ updating' \in Nat /\ loadCount' \in Nat
      /\ updating' = (a - 1) + b /\ loadCount' = updating' + f
  <2>1. updating > 0 /\ updating - 1 \in Nat /\ updating - 1 = (a - 1) + b
        /\ loadCount - 1 = (updating - 1) + f /\ loadCount - 1 \in Nat
    <3> HIDE DEF a, b, f
    <3> QED
      BY <1>2, <1>5
  <2> QED
    BY <2>1 DEF EndLoadGame
<1>7. LoadsCounted'
  BY <1>1, <1>4, <1>5, <1>6 DEF LoadsCounted
<1>8. Progress'
  BY <1>1, <1>3 DEF Inv, Progress
<1>9. TypeOK'
  <2>1. paused' \in BOOLEAN
    BY DEF EndLoadGame, Inv, TypeOK
  <2>2. UNCHANGED <<pending, gameId, gameHash, assets, notes, bound, current, game, fetching,
                    main, wish, overlapped, forced>>
    BY DEF EndLoadGame, client, history
  <2> QED
    BY <1>3, <1>6, <2>1, <2>2 DEF Inv, TypeOK, Rec
<1> QED
  BY <1>7, <1>8, <1>9 DEF Inv

LEMMA NotesArriveStep ==
    ASSUME Inv, NEW l \in Loads, NotesArrive(l)
    PROVE  Inv'
<1> DEFINE f == Cardinality(fetching)
<1>1. /\ l \in fetching /\ fetching' = fetching \ {l} /\ loadCount' = loadCount - 1
      /\ UNCHANGED <<load, main, updating>> /\ fetching \subseteq Loads
  BY DEF NotesArrive, Inv, TypeOK
<1>2. /\ f \in Nat /\ loadCount = updating + f /\ updating \in Nat
      /\ updating = Cardinality(UnderWay) + Cardinality(Left)
  BY Counted DEF Inv, TypeOK
<1>3. Cardinality(fetching') = f - 1 /\ f > 0
  BY <1>1, Shrinks
<1>4. loadCount' \in Nat /\ loadCount' = updating + (f - 1)
  <2> HIDE DEF f
  <2> QED
    BY <1>1, <1>2, <1>3
<1>5. UnderWay' = UnderWay /\ Left' = Left
  BY <1>1 DEF UnderWay, Left
<1>6. LoadsCounted'
  BY <1>1, <1>2, <1>3, <1>4, <1>5 DEF LoadsCounted
<1>7. Progress'
  BY <1>1 DEF Inv, Progress
<1>8. TypeOK'
  BY <1>1, <1>4 DEF NotesArrive, client, history, Inv, TypeOK, Rec
<1> QED
  BY <1>6, <1>7, <1>8 DEF Inv

-----------------------------------------------------------------------------
(* The steps on the emulator's thread                                      *)

LEMMA AbortFacts ==
    ASSUME load \in [Loads -> Rec]
    PROVE  /\ AbortCurrent \in [Loads -> Rec]
           /\ \A k \in Loads : /\ AbortCurrent[k].stage = load[k].stage
                               /\ AbortCurrent[k].game = load[k].game
                               /\ AbortCurrent[k].hash = load[k].hash
                               /\ AbortCurrent[k].external = load[k].external
                               /\ AbortCurrent[k].wasPaused = load[k].wasPaused
                               /\ AbortCurrent[k].gets = load[k].gets
                               /\ AbortCurrent[k].ok = load[k].ok
                               /\ AbortCurrent[k].seen = load[k].seen
<1>1. SUFFICES ASSUME NEW k \in Loads
               PROVE  /\ AbortCurrent[k] \in Rec
                      /\ AbortCurrent[k].stage = load[k].stage
                      /\ AbortCurrent[k].game = load[k].game
                      /\ AbortCurrent[k].hash = load[k].hash
                      /\ AbortCurrent[k].external = load[k].external
                      /\ AbortCurrent[k].wasPaused = load[k].wasPaused
                      /\ AbortCurrent[k].gets = load[k].gets
                      /\ AbortCurrent[k].ok = load[k].ok
                      /\ AbortCurrent[k].seen = load[k].seen
  BY DEF AbortCurrent
<1>2. load[k] \in Rec /\ AbortCurrent[k] = IF k = current
                                           THEN [load[k] EXCEPT !.aborted = TRUE] ELSE load[k]
  BY DEF AbortCurrent
<1> QED
  BY <1>2 DEF Rec

\* What leaves the loads where they are
LEMMA StayStep ==
    ASSUME Inv, load' \in [Loads -> Rec], \A k \in Loads : /\ load'[k].stage = load[k].stage
                                                           /\ load'[k].gets = load[k].gets,
           UNCHANGED <<updating, loadCount, fetching>>,
           main'.at \in {"pause", "request"} <=> main.at \in {"pause", "request"},
           main.at \in {"pause", "request"} => main'.load = main.load
    PROVE  LoadsCounted' /\ Progress'
<1>1. UnderWay' = UnderWay /\ Left' = Left
  BY SameCounts
<1>2. LoadsCounted'
  BY <1>1 DEF Inv, LoadsCounted
<1>3. Progress'
  BY DEF Inv, Progress, TypeOK
<1> QED
  BY <1>2, <1>3

LEMMA IdentifyStep ==
    ASSUME Inv, \/ \E h \in Hashes, g \in Games \cup {NoGame} : IdentifyHash(h, g)
                \/ IdentifyNothing \/ TogglePaused
    PROVE  Inv'
<1>1. load \in [Loads -> Rec]
  BY DEF Inv, TypeOK, Rec
<1>2. CASE \E h \in Hashes, g \in Games \cup {NoGame} : IdentifyHash(h, g)
  <2>1. PICK h \in Hashes, g \in Games \cup {NoGame} : IdentifyHash(h, g)
    BY <1>2
  <2>2. UNCHANGED <<load, updating, loadCount, fetching, main>>
    BY <2>1 DEF IdentifyHash
  <2>3. LoadsCounted' /\ Progress'
    BY <1>1, <2>2, StayStep
  <2>4. TypeOK'
    BY <2>1 DEF IdentifyHash, client, history, Inv, TypeOK
  <2> QED
    BY <2>3, <2>4 DEF Inv
<1>3. CASE IdentifyNothing \/ TogglePaused
  <2>1. UNCHANGED <<load, updating, loadCount, fetching, main>>
    BY <1>3 DEF IdentifyNothing, TogglePaused, context
  <2>2. LoadsCounted' /\ Progress'
    BY <1>1, <2>1, StayStep
  <2>3. TypeOK'
    <3>1. CASE IdentifyNothing
      BY <3>1 DEF IdentifyNothing, context, client, history, Inv, TypeOK
    <3>2. CASE TogglePaused
      <4>1. paused' \in BOOLEAN /\ wish' \in BOOLEAN
        BY <3>2 DEF TogglePaused
      <4>2. UNCHANGED <<pending, gameId, gameHash, loadCount, updating, assets, notes,
                        bound, current, game, load, fetching, main, overlapped, forced>>
        BY <3>2 DEF TogglePaused, client
      <4> QED
        BY <4>1, <4>2 DEF Inv, TypeOK
    <3> QED
      BY <1>3, <3>1, <3>2
  <2> QED
    BY <2>2, <2>3 DEF Inv
<1> QED
  BY <1>2, <1>3

LEMMA SetGameHashStep ==
    ASSUME Inv, SetGameHash
    PROVE  Inv'
<1>1. load \in [Loads -> Rec] /\ UNCHANGED <<load, updating, loadCount, fetching>>
  BY DEF SetGameHash, Inv, TypeOK, Rec
<1>2. main.at = "hash" /\ main' = [at |-> "idle", load |-> NoLoad, activating |-> NoGame]
  BY DEF SetGameHash, Idle
<1>3. LoadsCounted' /\ Progress'
  BY <1>1, <1>2, StayStep
<1>4. gameHash' \in Hashes \cup {NoHash}
  BY DEF SetGameHash, Inv, TypeOK
<1>5. TypeOK'
  BY <1>2, <1>4 DEF SetGameHash, client, history, Inv, TypeOK
<1> QED
  BY <1>3, <1>5 DEF Inv

LEMMA UnloadStep ==
    ASSUME Inv, NEW exported, Unload(exported)
    PROVE  Inv'
<1>1. load \in [Loads -> Rec]
  BY DEF Inv, TypeOK, Rec
<1>2. load' = load \/ load' = AbortCurrent
  BY DEF Unload, UnloadGame
<1>3. load' \in [Loads -> Rec] /\ \A k \in Loads : /\ load'[k].stage = load[k].stage
                                                   /\ load'[k].gets = load[k].gets
  BY <1>1, <1>2, AbortFacts
<1>4. main.at = "idle" /\ main' = [at |-> "hash", load |-> NoLoad, activating |-> NoGame]
  BY DEF Unload, Idle
<1>5. LoadsCounted' /\ Progress'
  BY <1>3, <1>4, StayStep DEF Unload
<1>6. TypeOK'
  <2>1. main' \in [at : {"idle", "pause", "request", "hash"}, load : Loads \cup {NoLoad},
                   activating : Games \cup {NoGame}]
    BY <1>4
  <2>2. /\ current' \in Loads \cup {NoLoad}
        /\ game' \in [id : Games \cup {NoGame}, hash : Hashes \cup {NoHash}]
        /\ overlapped' \in BOOLEAN
    BY DEF Unload, UnloadGame, Inv, TypeOK
  <2> QED
    BY <1>3, <2>1, <2>2 DEF Unload, Inv, TypeOK, Rec
<1> QED
  BY <1>5, <1>6 DEF Inv

LEMMA PauseStep ==
    ASSUME Inv, Pause
    PROVE  Inv'
<1> DEFINE l == main.load
           r == [load[l] EXCEPT !.wasPaused = paused]
<1>1. /\ load \in [Loads -> Rec] /\ l \in Loads /\ load[l] \in Rec /\ paused \in BOOLEAN
      /\ main \in [at : {"idle", "pause", "request", "hash"}, load : Loads \cup {NoLoad},
                   activating : Games \cup {NoGame}]
  BY DEF Pause, Inv, TypeOK, Rec, Progress
<1>2. r \in Rec /\ r.stage = load[l].stage /\ r.gets = load[l].gets
  BY <1>1 DEF Rec
<1>3. load' = [load EXCEPT ![l] = r]
  BY DEF Pause
<1>4. main' = [at |-> "request", load |-> l, activating |-> main.activating] /\ main.at = "pause"
  BY <1>1 DEF Pause
<1> HIDE DEF r
<1>5. load' \in [Loads -> Rec] /\ \A k \in Loads : /\ load'[k].stage = load[k].stage
                                                   /\ load'[k].gets = load[k].gets
  BY <1>1, <1>2, <1>3
<1>6. LoadsCounted' /\ Progress'
  BY <1>4, <1>5, StayStep DEF Pause
<1>7. TypeOK'
  BY <1>1, <1>4, <1>5 DEF Pause, client, history, Inv, TypeOK, Rec
<1> QED
  BY <1>6, <1>7 DEF Inv

\* What Request does to the loads
LEMMA RequestFacts ==
    ASSUME Inv, Request
    PROVE  LET l == main.load IN
           /\ l \in Loads /\ load[l].stage = "begun" /\ load'[l].stage = "sent"
           /\ load' \in [Loads -> Rec]
           /\ \A k \in Loads : k # l => load'[k].stage = load[k].stage
           /\ \A k \in Loads : /\ load'[k].game = load[k].game
                               /\ load'[k].hash = load[k].hash
                               /\ load'[k].external = load[k].external
                               /\ load'[k].wasPaused = load[k].wasPaused
                               /\ load'[k].gets = load[k].gets
                               /\ load'[k].ok = load[k].ok
<1> DEFINE l == main.load
           r == [AbortCurrent[l] EXCEPT !.stage = "sent"]
<1>1. load \in [Loads -> Rec] /\ l \in Loads /\ load[l].stage = "begun"
  BY DEF Request, Inv, TypeOK, Rec, Progress
<1>2. /\ AbortCurrent \in [Loads -> Rec]
      /\ \A k \in Loads : /\ AbortCurrent[k].stage = load[k].stage
                          /\ AbortCurrent[k].game = load[k].game
                          /\ AbortCurrent[k].hash = load[k].hash
                          /\ AbortCurrent[k].external = load[k].external
                          /\ AbortCurrent[k].wasPaused = load[k].wasPaused
                          /\ AbortCurrent[k].gets = load[k].gets
                          /\ AbortCurrent[k].ok = load[k].ok
  BY <1>1, AbortFacts
<1>3. /\ r \in Rec /\ r.stage = "sent"
      /\ r.game = AbortCurrent[l].game /\ r.hash = AbortCurrent[l].hash
      /\ r.external = AbortCurrent[l].external /\ r.wasPaused = AbortCurrent[l].wasPaused
      /\ r.gets = AbortCurrent[l].gets /\ r.ok = AbortCurrent[l].ok
  <2>1. AbortCurrent[l] \in Rec
    BY <1>1, <1>2
  <2> QED
    BY <2>1 DEF Rec, Stages
<1>4. load' = [AbortCurrent EXCEPT ![l] = r]
  BY DEF Request
<1> HIDE DEF r
<1>5. load' \in [Loads -> Rec] /\ load'[l] = r
      /\ \A k \in Loads \ {l} : load'[k] = AbortCurrent[k]
  BY <1>1, <1>2, <1>3, <1>4
<1> QED
  BY <1>1, <1>2, <1>3, <1>5

LEMMA RequestStep ==
    ASSUME Inv, Request
    PROVE  Inv'
<1> DEFINE l == main.load
<1>1. /\ l \in Loads /\ load[l].stage = "begun" /\ load'[l].stage = "sent"
      /\ load' \in [Loads -> Rec]
      /\ \A k \in Loads : k # l => load'[k].stage = load[k].stage
      /\ \A k \in Loads : load'[k].gets = load[k].gets
  BY RequestFacts
<1>2. /\ main \in [at : {"idle", "pause", "request", "hash"}, load : Loads \cup {NoLoad},
                   activating : Games \cup {NoGame}]
      /\ UNCHANGED <<updating, loadCount, fetching>>
      /\ \A k \in Loads : load[k].stage = "begun" => k = l
  BY DEF Request, Inv, TypeOK, context, Progress
<1>3. main' \in [at : {"hash", "idle"}, load : Loads \cup {NoLoad}, activating : Games \cup {NoGame}]
  BY <1>1, <1>2 DEF Request, Idle
<1>4. UnderWay' = UnderWay /\ Left' = Left
  BY <1>1, SameCounts
<1>5. LoadsCounted'
  BY <1>2, <1>4 DEF Inv, LoadsCounted
<1>6. Progress'
  <2>1. main'.at \notin {"pause", "request"}
    BY <1>3
  <2>2. \A k \in Loads : load'[k].stage # "begun"
    BY <1>1, <1>2
  <2>3. \A k \in Loads : load'[k].stage \in {"sets", "started"} => load[k].stage = load'[k].stage
    BY <1>1
  <2>4. \A k \in fetching : k \in Loads /\ k # l
    BY <1>1 DEF Inv, Progress, TypeOK
  <2> QED
    BY <1>1, <1>2, <2>1, <2>2, <2>3, <2>4 DEF Inv, Progress
<1>7. bound' \in [Hashes -> Games \cup {NoGame}]
  <2>1. load[l].game \in Games \cup {NoGame, Placeholder} /\ bound \in [Hashes -> Games \cup {NoGame}]
    BY <1>1 DEF Inv, TypeOK
  <2> QED
    BY <2>1 DEF Request
<1>8. main' \in [at : {"idle", "pause", "request", "hash"}, load : Loads \cup {NoLoad},
                 activating : Games \cup {NoGame}]
  BY <1>3
<1>9. TypeOK'
  BY <1>1, <1>7, <1>8 DEF Request, context, history, Inv, TypeOK, Rec
<1> QED
  BY <1>5, <1>6, <1>9 DEF Inv

LEMMA BeginFacts ==
    ASSUME Inv, NEW l \in Loads, NEW g \in Games \cup {NoGame, Placeholder},
           NEW h \in Hashes \cup {NoHash}, NEW caller, BeginLoadGame(l, g, h, caller)
    PROVE  /\ load' \in [Loads -> Rec] /\ load[l].stage = "none"
           /\ load'[l] = [Fresh EXCEPT !.stage = "begun", !.game = g, !.hash = h,
                                       !.external = caller = "external"]
           /\ load'[l].stage = "begun" /\ load'[l].game = g /\ load'[l].hash = h
           /\ load'[l].external = (caller = "external")
           /\ load'[l].gets = NoGame /\ load'[l].ok = FALSE
           /\ \A k \in Loads \ {l} : load'[k] = load[k]
<1> DEFINE r == [Fresh EXCEPT !.stage = "begun", !.game = g, !.hash = h,
                              !.external = caller = "external"]
<1>1. load \in [Loads -> Rec] /\ load[l].stage = "none"
  BY DEF BeginLoadGame, Inv, TypeOK, Rec
<1>2. /\ r \in Rec /\ r.stage = "begun" /\ r.game = g /\ r.hash = h
      /\ r.external = (caller = "external") /\ r.gets = NoGame /\ r.ok = FALSE
  BY DEF Rec, Fresh, Stages
<1>3. load' = [load EXCEPT ![l] = r]
  BY DEF BeginLoadGame
<1>4. load' \in [Loads -> Rec] /\ load'[l] = r /\ \A k \in Loads \ {l} : load'[k] = load[k]
  <2> HIDE DEF r
  <2> QED
    BY <1>1, <1>2, <1>3
<1> QED
  BY <1>1, <1>2, <1>4

LEMMA BeginStep ==
    ASSUME Inv, NEW l \in Loads, NEW g \in Games \cup {NoGame, Placeholder},
           NEW h \in Hashes \cup {NoHash}, NEW caller, BeginLoadGame(l, g, h, caller),
           caller = "activate" => g \in Games, forced' \in [Hashes -> SUBSET Games]
    PROVE  Inv'
<1> DEFINE a == Cardinality(UnderWay)
           b == Cardinality(Left)
           f == Cardinality(fetching)
<1>1. /\ load' \in [Loads -> Rec] /\ load[l].stage = "none" /\ load'[l].stage = "begun"
      /\ \A k \in Loads \ {l} : load'[k] = load[k]
  BY BeginFacts, ZenonT(40)
<1>2. /\ a \in Nat /\ b \in Nat /\ f \in Nat /\ updating = a + b /\ loadCount = updating + f
  BY Counted
<1>3. UnderWay' = UnderWay \cup {l} /\ Left' = Left /\ l \notin UnderWay
  BY <1>1 DEF UnderWay, Left
<1>4. Cardinality(UnderWay') = a + 1
  BY <1>3, Sizes, Grows
<1>5. /\ updating' \in Nat /\ loadCount' \in Nat
      /\ updating' = (a + 1) + b /\ loadCount' = updating' + f
  <2>1. updating' = updating + 1 /\ loadCount' = loadCount + 1
    BY DEF BeginLoadGame
  <2> HIDE DEF a, b, f
  <2> QED
    BY <1>2, <2>1
<1>6. LoadsCounted'
  BY <1>3, <1>4, <1>5 DEF LoadsCounted, BeginLoadGame
<1>7. /\ main.at = "idle" /\ main' = [at |-> "pause", load |-> l,
                                      activating |-> IF caller = "activate" THEN g ELSE NoGame]
      /\ fetching' = fetching /\ fetching \subseteq Loads
  BY DEF BeginLoadGame, Inv, TypeOK
<1>8. Progress'
  <2>1. \A k \in Loads : load[k].stage # "begun"
    BY <1>7 DEF Inv, Progress
  <2>2. l \notin fetching
    BY <1>1 DEF Inv, Progress
  <2> QED
    BY <1>1, <1>7, <2>1, <2>2 DEF Inv, Progress
<1>9. bound' = bound /\ TypeOK'
  BY <1>1, <1>5, <1>7 DEF BeginLoadGame, client, Inv, TypeOK, Rec
<1> QED
  BY <1>6, <1>8, <1>9 DEF Inv

-----------------------------------------------------------------------------
\* The calls of BeginLoadGame
LEMMA Begins ==
    ASSUME Inv, \/ \E l \in Loads, g \in Games : Activate(l, g)
                \/ \E l \in Loads, g \in Games : LoadSelected(l, g)
                \/ \E l \in Loads, h \in Hashes : LoadExternal(l, h)
    PROVE  \E l \in Loads, g \in Games \cup {NoGame, Placeholder}, h \in Hashes \cup {NoHash} :
              \E caller \in {"activate", "menu", "external"} :
                 /\ BeginLoadGame(l, g, h, caller)
                 /\ IF caller = "external" THEN g = Placeholder ELSE g \in Games
                 /\ caller = "activate" => h = pending.hash
                 /\ forced' \in [Hashes -> SUBSET Games]
                 /\ \A x \in Hashes : forced[x] \subseteq forced'[x]
                 /\ h # NoHash /\ g \in Games =>
                       \/ g \in Resolve[h] \cup forced'[h]
                       \/ h = pending.hash /\ g = pending.game
<1>1. /\ pending.hash \in Hashes \cup {NoHash} /\ gameHash \in Hashes \cup {NoHash}
      /\ forced \in [Hashes -> SUBSET Games] /\ Placeholder \notin Games
  BY LoadAssumption DEF Inv, TypeOK
<1>2. CASE \E l \in Loads, g \in Games : Activate(l, g)
  <2>1. PICK l \in Loads, g \in Games : Activate(l, g)
    BY <1>2
  <2>2. /\ BeginLoadGame(l, g, pending.hash, "activate")
        /\ forced' = [h \in Hashes |-> IF h = pending.hash /\ g # pending.game
                                       THEN forced[h] \cup ({g} \ Resolve[h])
                                       ELSE forced[h]]
    BY <2>1 DEF Activate
  <2>3. /\ forced' \in [Hashes -> SUBSET Games]
        /\ \A x \in Hashes : forced[x] \subseteq forced'[x]
    BY <1>1, <2>2
  <2>4. pending.hash # NoHash => \/ g \in Resolve[pending.hash] \cup forced'[pending.hash]
                                 \/ g = pending.game
    BY <1>1, <2>2
  <2> QED
    BY <1>1, <2>2, <2>3, <2>4
<1>3. CASE \E l \in Loads, g \in Games : LoadSelected(l, g)
  <2>1. PICK l \in Loads, g \in Games : LoadSelected(l, g)
    BY <1>3
  <2>2. /\ BeginLoadGame(l, g, gameHash, "menu") /\ forced' = forced
        /\ g \in Resolve[gameHash]
    BY <2>1 DEF LoadSelected
  <2> QED
    BY <1>1, <2>2
<1>4. CASE \E l \in Loads, h \in Hashes : LoadExternal(l, h)
  <2>1. PICK l \in Loads, h \in Hashes : LoadExternal(l, h)
    BY <1>4
  <2>2. BeginLoadGame(l, Placeholder, h, "external") /\ forced' = forced
    BY <2>1 DEF LoadExternal
  <2> QED
    BY <1>1, <2>2
<1> QED
  BY <1>2, <1>3, <1>4

LEMMA StepInv == Inv /\ [Next]_vars => Inv'
<1> SUFFICES ASSUME Inv, [Next]_vars PROVE Inv'
  OBVIOUS
<1>1. ASSUME NEW l \in Loads, Step(l) PROVE Inv'
  BY <1>1, FailStep, SetsArriveStep, InitializeAchievementSetsStep, SessionStartsStep,
     InitializeIdsStep, InitializeAssetsStep, FinishLoadGameStep, FinishFailedStep,
     ReadGameIdStep, MergeStep, EndLoadGameStep, NotesArriveStep DEF Step
<1>2. CASE \/ \E h \in Hashes, g \in Games \cup {NoGame} : IdentifyHash(h, g)
           \/ IdentifyNothing \/ TogglePaused \/ SetGameHash
  BY <1>2, IdentifyStep, SetGameHashStep
<1>3. CASE \E exported \in BOOLEAN : Unload(exported)
  BY <1>3, UnloadStep
<1>4. CASE Pause \/ Request
  BY <1>4, PauseStep, RequestStep
<1>5. CASE \/ \E l \in Loads, g \in Games : Activate(l, g)
           \/ \E l \in Loads, g \in Games : LoadSelected(l, g)
           \/ \E l \in Loads, h \in Hashes : LoadExternal(l, h)
  <2>1. PICK l \in Loads, g \in Games \cup {NoGame, Placeholder}, h \in Hashes \cup {NoHash},
             caller \in {"activate", "menu", "external"} :
           /\ BeginLoadGame(l, g, h, caller)
           /\ IF caller = "external" THEN g = Placeholder ELSE g \in Games
           /\ forced' \in [Hashes -> SUBSET Games]
    BY <1>5, Begins
  <2> QED
    BY <2>1, BeginStep
<1>6. CASE UNCHANGED vars
  <2>1. UNCHANGED <<pending, gameId, gameHash, loadCount, updating, assets, notes, paused,
                    bound, current, game, load, fetching, main, wish, overlapped,
                    forced>>
    BY <1>6 DEF vars, context, client, history
  <2>2. TypeOK' /\ Progress'
    BY <2>1 DEF Inv, TypeOK, Progress
  <2>3. LoadsCounted'
    BY <2>1 DEF Inv, LoadsCounted, UnderWay, Left
  <2> QED
    BY <2>2, <2>3 DEF Inv
<1> QED
  BY <1>1, <1>2, <1>3, <1>4, <1>5, <1>6 DEF Next, EmulatorStep

LEMMA InitInv == Init => Inv
<1> SUFFICES ASSUME Init PROVE Inv
  OBVIOUS
<1>1. Fresh \in Rec /\ Fresh.stage = "none"
  BY DEF Fresh, Rec, Stages
<1>2. \A l \in Loads : load[l] = Fresh /\ load[l].stage = "none"
  BY <1>1 DEF Init
<1>3. TypeOK
  <2>1. load \in [Loads -> Rec]
    BY <1>1 DEF Init
  <2> QED
    BY <2>1 DEF Init, Idle, TypeOK, Rec
<1>4. UnderWay = {} /\ Left = {} /\ Cardinality({}) = 0
  BY <1>2, FS_EmptySet DEF UnderWay, Left
<1>5. LoadsCounted
  BY <1>4 DEF Init, LoadsCounted
<1>6. Progress
  BY <1>2 DEF Init, Progress, Idle
<1> QED
  BY <1>3, <1>5, <1>6 DEF Inv

LEMMA Invariance1 == Spec => []Inv
BY InitInv, StepInv, PTL DEF Spec

\* The types of the members of GameContext and of what rc_client keeps, and that
\* m_nLoadCount is never decremented below 0.
THEOREM TypeCorrect == Spec => []TypeOK
BY Invariance1, PTL DEF Inv

\* BeginLoad and EndLoad: m_nLoadCount and the updates of m_vAssets are what is under
\* way and what returned early, however loads overlap.
THEOREM LoadsAlwaysCounted == Spec => []LoadsCounted
BY Invariance1, PTL DEF Inv

-----------------------------------------------------------------------------
(* Loads that do not overlap: the hashes, the assets, the notes and the    *)
(* processing of the runtime.  Sequential says, for each stage of the only *)
(* load, what the members of GameContext hold.                             *)

\* Outside ActivateGame nothing is activated.
Idling == main.at = "idle" => main.activating = NoGame

Pairs(g, h) == h # NoHash /\ g \in Games => g \in PairedWith(h)

\* Every pair of a game and a hash is one that was identified, or activated.
HashesOK ==
    /\ Pairs(pending.game, pending.hash)
    /\ \A h \in Hashes : Pairs(bound[h], h)
    /\ \A l \in Loads : /\ Pairs(load[l].game, load[l].hash)
                        /\ Pairs(load[l].gets, load[l].hash)
    /\ Pairs(game.id, game.hash)

\* How far the only load is, and what it has done
Cleared(l) ==
    LET s == load[l].stage IN
    /\ s \in {"begun", "sent"} => gameId = load[l].game
    /\ s \in {"begun", "sent", "sets"} => assets = {}
    /\ s \in {"sent", "sets", "started"} => game.id = NoGame
    /\ s # "merged" => notes = NoLoad

Filled(l) ==
    LET s == load[l].stage
        g == load[l].gets
    IN
    /\ s = "started" => gameId = g /\ assets = {g}
    /\ s \in {"loaded", "append", "finish"} => game.id = g /\ assets = {g} \ {NoGame}
    /\ s \in {"append", "finish"} => gameId = g /\ Pairs(gameId, gameHash)

Ended(l) ==
    LET s == load[l].stage
        g == load[l].gets
    IN
    /\ s \notin {"finish", "end", "lock", "merged"} => ~load[l].ok
    /\ s = "finish" => load[l].ok
    /\ load[l].external => load[l].game = Placeholder
    /\ s = "failed" /\ load[l].external => gameId \in {Placeholder, NoGame, g}
    /\ s \in {"end", "lock", "merged"} =>
          IF load[l].ok
          THEN gameId = g /\ assets = {g} \ {NoGame} /\ Pairs(gameId, gameHash)
          ELSE gameId \notin Games \/ (load[l].external /\ gameId = g)
    /\ s = "lock" => load[l].seen = gameId
    /\ s = "merged" /\ load[l].ok /\ gameId # NoGame => notes = l

Paused(l) ==
    IF load[l].stage = "begun" /\ main.at = "pause"
    THEN paused = wish
    ELSE paused = TRUE /\ load[l].wasPaused = wish

Alone(l) ==
    /\ Cleared(l) /\ Filled(l) /\ Ended(l) /\ Paused(l)
    /\ main.at = "hash" => main.activating # NoGame
    /\ main.activating # NoGame =>
          /\ ~load[l].external /\ Pairs(load[l].gets, pending.hash)
          /\ load[l].stage \in {"begun", "sent"} => load[l].hash = pending.hash

\* No load is under way.
Rest ==
    /\ paused = wish
    /\ gameId \in Games /\ ~LeftByExternal(gameId) =>
          /\ assets = {gameId} /\ notes \in Loads /\ load[notes].gets = gameId
          /\ Pairs(gameId, gameHash)
          /\ main.activating # NoGame => Pairs(gameId, pending.hash)
    /\ main.at = "hash" /\ main.activating = NoGame => gameId = NoGame

Sequential ==
    ~overlapped =>
        /\ \A k, l \in UnderWay : k = l
        /\ \A l \in UnderWay : Alone(l)
        /\ UnderWay = {} => Rest

IInv == Inv /\ Idling /\ HashesOK /\ Sequential

-----------------------------------------------------------------------------
(* What a step does to the progress of a load                              *)

Same(k) == /\ load'[k].game = load[k].game /\ load'[k].hash = load[k].hash
           /\ load'[k].external = load[k].external
           /\ load'[k].wasPaused = load[k].wasPaused

Others(l) == \A k \in Loads \ {l} : load'[k] = load[k]

LEMMA MoveFacts ==
    ASSUME Inv, NEW l \in Loads, NEW p \in Stages, MoveTo(l, p)
    PROVE  /\ load'[l].stage = p /\ Same(l) /\ Others(l)
           /\ load'[l].gets = load[l].gets /\ load'[l].ok = load[l].ok
           /\ load'[l].seen = load[l].seen
<1>1. load \in [Loads -> Rec] /\ load[l] \in Rec
  BY DEF Inv, TypeOK, Rec
<1> DEFINE r == [load[l] EXCEPT !.stage = p]
<1>2. /\ r.stage = p /\ r.game = load[l].game /\ r.hash = load[l].hash
      /\ r.external = load[l].external /\ r.wasPaused = load[l].wasPaused
      /\ r.gets = load[l].gets /\ r.ok = load[l].ok /\ r.seen = load[l].seen
  BY <1>1 DEF Rec
<1>3. load' = [load EXCEPT ![l] = r]
  BY DEF MoveTo
<1> HIDE DEF r
<1>4. load'[l] = r /\ Others(l)
  BY <1>1, <1>3 DEF Others
<1> QED
  BY <1>2, <1>4 DEF Same

LEMMA ArriveFacts ==
    ASSUME Inv, NEW l \in Loads, NEW g, SetsArrive(l, g)
    PROVE  /\ load'[l].stage = IF g = NoGame THEN "loaded" ELSE "sets"
           /\ Same(l) /\ Others(l)
           /\ load'[l].gets = g /\ load'[l].ok = load[l].ok
<1>1. load \in [Loads -> Rec] /\ load[l] \in Rec
  BY DEF Inv, TypeOK, Rec
<1> DEFINE p == IF g = NoGame THEN "loaded" ELSE "sets"
           r == [load[l] EXCEPT !.gets = g, !.stage = p]
<1>2. /\ r.stage = p /\ r.game = load[l].game /\ r.hash = load[l].hash
      /\ r.external = load[l].external /\ r.wasPaused = load[l].wasPaused
      /\ r.gets = g /\ r.ok = load[l].ok
  BY <1>1 DEF Rec
<1>3. load' = [load EXCEPT ![l] = r]
  BY <1>1 DEF SetsArrive
<1> HIDE DEF r
<1>4. load'[l] = r /\ Others(l)
  BY <1>1, <1>3 DEF Others
<1> QED
  BY <1>2, <1>4 DEF Same

\* The outcome of a load is set, and its stage.
LEMMA OutcomeFacts ==
    ASSUME Inv, NEW l \in Loads, NEW ok, NEW p,
           load' = [load EXCEPT ![l].ok = ok, ![l].stage = p]
    PROVE  /\ load'[l].stage = p /\ Same(l) /\ Others(l)
           /\ load'[l].gets = load[l].gets /\ load'[l].ok = ok
<1>1. load \in [Loads -> Rec] /\ load[l] \in Rec
  BY DEF Inv, TypeOK, Rec
<1> DEFINE r == [load[l] EXCEPT !.ok = ok, !.stage = p]
<1>2. /\ r.stage = p /\ r.game = load[l].game /\ r.hash = load[l].hash
      /\ r.external = load[l].external /\ r.wasPaused = load[l].wasPaused
      /\ r.gets = load[l].gets /\ r.ok = ok
  BY <1>1 DEF Rec
<1>3. load' = [load EXCEPT ![l] = r]
  BY <1>1
<1> HIDE DEF r
<1>4. load'[l] = r /\ Others(l)
  BY <1>1, <1>3 DEF Others
<1> QED
  BY <1>2, <1>4 DEF Same

LEMMA ReadFacts ==
    ASSUME Inv, NEW l \in Loads, ReadGameId(l)
    PROVE  /\ load'[l].stage = "lock" /\ Same(l) /\ Others(l)
           /\ load'[l].gets = load[l].gets /\ load'[l].ok = load[l].ok
           /\ load'[l].seen = gameId
<1>1. load \in [Loads -> Rec] /\ load[l] \in Rec
  BY DEF Inv, TypeOK, Rec
<1> DEFINE r == [load[l] EXCEPT !.seen = gameId, !.stage = "lock"]
<1>2. /\ r.stage = "lock" /\ r.game = load[l].game /\ r.hash = load[l].hash
      /\ r.external = load[l].external /\ r.wasPaused = load[l].wasPaused
      /\ r.gets = load[l].gets /\ r.ok = load[l].ok /\ r.seen = gameId
  BY <1>1 DEF Rec
<1>3. load' = [load EXCEPT ![l] = r]
  BY <1>1 DEF ReadGameId
<1> HIDE DEF r
<1>4. load'[l] = r /\ Others(l)
  BY <1>1, <1>3 DEF Others
<1> QED
  BY <1>2, <1>4 DEF Same

LEMMA EndFacts ==
    ASSUME Inv, NEW l \in Loads, NEW p \in {"done", "left"}, Leave(l, p)
    PROVE  LET unfinished == load[l].external /\ ~load[l].ok IN
           /\ load'[l].stage = p /\ load'[l].hash = NoHash /\ Others(l)
           /\ load'[l].external = unfinished
           /\ unfinished \/ notes = l => load'[l].gets = load[l].gets
BY LeaveFacts DEF Others

\* A failure, the setting of the identifier and the request of the notes leave this
Kept(k) == /\ load'[k].game = load[k].game /\ load'[k].external = load[k].external
           /\ load'[k].wasPaused = load[k].wasPaused
           /\ load'[k].gets = load[k].gets /\ load'[k].ok = load[k].ok

LEMMA KeptFacts ==
    ASSUME Inv, NEW l \in Loads, NEW r \in Rec, load' = [load EXCEPT ![l] = r],
           r.game = load[l].game, r.external = load[l].external,
           r.wasPaused = load[l].wasPaused, r.gets = load[l].gets, r.ok = load[l].ok
    PROVE  /\ load'[l].stage = r.stage /\ load'[l].hash = r.hash
           /\ Kept(l) /\ Others(l)
<1>1. load \in [Loads -> Rec]
  BY DEF Inv, TypeOK, Rec
<1>2. load'[l] = r /\ Others(l)
  BY <1>1 DEF Others
<1> QED
  BY <1>2 DEF Kept

LEMMA ResetFacts ==
    ASSUME Inv, NEW l \in Loads, Fail(l) \/ InitializeIds(l)
    PROVE  /\ load'[l].stage = IF Fail(l) THEN "failed" ELSE "append"
           /\ load'[l].hash = NoHash /\ Kept(l) /\ Others(l)
<1>1. CASE Fail(l)
  <2>1. PICK r \in Rec : /\ load' = [load EXCEPT ![l] = r]
                         /\ r.stage = "failed" /\ r.hash = NoHash
                         /\ r.game = load[l].game /\ r.external = load[l].external
                         /\ r.wasPaused = load[l].wasPaused
                         /\ r.gets = load[l].gets /\ r.ok = load[l].ok
    BY <1>1, FailFacts DEF Inv
  <2> QED
    BY <1>1, <2>1, KeptFacts
<1>2. CASE InitializeIds(l) /\ ~Fail(l)
  <2>1. PICK r \in Rec : /\ load' = [load EXCEPT ![l] = r]
                         /\ r.stage = "append" /\ r.hash = NoHash
                         /\ r.game = load[l].game /\ r.external = load[l].external
                         /\ r.wasPaused = load[l].wasPaused
                         /\ r.gets = load[l].gets /\ r.ok = load[l].ok
    BY <1>2, IdsFacts DEF Inv
  <2> QED
    BY <1>2, <2>1, KeptFacts
<1> QED
  BY <1>1, <1>2

LEMMA MergedKept ==
    ASSUME Inv, NEW l \in Loads,
           load' = [load EXCEPT ![l].stage = "merged", ![l].seen = NoGame]
    PROVE  /\ load'[l].stage = "merged" /\ load'[l].hash = load[l].hash
           /\ Kept(l) /\ Others(l)
<1>1. PICK r \in Rec : /\ load' = [load EXCEPT ![l] = r]
                       /\ r.stage = "merged" /\ r.hash = load[l].hash
                       /\ r.game = load[l].game /\ r.external = load[l].external
                       /\ r.wasPaused = load[l].wasPaused
                       /\ r.gets = load[l].gets /\ r.ok = load[l].ok
  BY MergedFacts DEF Inv
<1> QED
  BY <1>1, KeptFacts

LEMMA PauseFacts ==
    ASSUME Inv, Pause
    PROVE  LET l == main.load IN
           /\ l \in Loads /\ Others(l) /\ load[l].stage = "begun"
           /\ load'[l].stage = "begun" /\ load'[l].wasPaused = paused
           /\ load'[l].game = load[l].game /\ load'[l].hash = load[l].hash
           /\ load'[l].external = load[l].external
           /\ load'[l].gets = load[l].gets /\ load'[l].ok = load[l].ok
<1> DEFINE l == main.load
           r == [load[l] EXCEPT !.wasPaused = paused]
<1>1. load \in [Loads -> Rec] /\ l \in Loads /\ load[l] \in Rec /\ load[l].stage = "begun"
  BY DEF Pause, Inv, TypeOK, Rec, Progress
<1>2. /\ r.stage = "begun" /\ r.game = load[l].game /\ r.hash = load[l].hash
      /\ r.external = load[l].external /\ r.wasPaused = paused
      /\ r.gets = load[l].gets /\ r.ok = load[l].ok
  BY <1>1 DEF Rec
<1>3. load' = [load EXCEPT ![l] = r]
  BY DEF Pause
<1> HIDE DEF r
<1>4. load'[l] = r /\ Others(l)
  BY <1>1, <1>3 DEF Others
<1> QED
  BY <1>1, <1>2, <1>4

-----------------------------------------------------------------------------
(* Hashes, however loads overlap                                           *)

LoadHashes(l) == Pairs(load[l].game, load[l].hash) /\ Pairs(load[l].gets, load[l].hash)

\* A step that changes one load only.
LEMMA HashesMove ==
    ASSUME HashesOK, NEW l \in Loads, Others(l), LoadHashes(l)',
           UNCHANGED <<pending, bound, game, forced>>
    PROVE  HashesOK'
<1>1. \A k \in Loads \ {l} : load'[k] = load[k]
  BY DEF Others
<1> QED
  BY <1>1 DEF HashesOK, LoadHashes, Pairs, PairedWith

LEMMA HashesForward ==
    ASSUME HashesOK, NEW l \in Loads, Others(l), load'[l].game = load[l].game,
           load'[l].hash = load[l].hash, load'[l].gets = load[l].gets,
           UNCHANGED <<pending, bound, game, forced>>
    PROVE  HashesOK'
<1>1. LoadHashes(l)'
  BY DEF HashesOK, LoadHashes, Pairs, PairedWith
<1> QED
  BY <1>1, HashesMove

\* The load has forgotten its hash.
LEMMA HashesForget ==
    ASSUME HashesOK, NEW l \in Loads, Others(l), load'[l].hash = NoHash,
           UNCHANGED <<pending, bound, game, forced>>
    PROVE  HashesOK'
<1>1. LoadHashes(l)'
  BY DEF LoadHashes, Pairs
<1> QED
  BY <1>1, HashesMove

\* A step that leaves every load with its hash and game.
LEMMA HashesStay ==
    ASSUME HashesOK,
           \A k \in Loads : /\ load'[k].game = load[k].game /\ load'[k].hash = load[k].hash
                            /\ load'[k].gets = load[k].gets,
           forced' = forced, Pairs(pending.game, pending.hash)',
           \A h \in Hashes : Pairs(bound[h], h)', Pairs(game.id, game.hash)'
    PROVE  HashesOK'
BY DEF HashesOK, Pairs, PairedWith

\* The sets are those of a game that belongs to the hash of the load.
LEMMA ArrivePairs ==
    ASSUME Inv, HashesOK, NEW l \in Loads, NEW g, SetsArrive(l, g)
    PROVE  Pairs(g, load[l].hash)
<1>1. load[l].hash \in Hashes
  BY DEF SetsArrive, Inv, TypeOK
<1>2. Pairs(bound[load[l].hash], load[l].hash)
  BY <1>1 DEF HashesOK
<1>3. g \in Resolve[load[l].hash] \/ g = bound[load[l].hash]
  BY DEF SetsArrive
<1> QED
  BY <1>2, <1>3 DEF Pairs, PairedWith

LEMMA HashesWorker ==
    ASSUME Inv, HashesOK, NEW l \in Loads, Step(l)
    PROVE  HashesOK'
<1>1. CASE FinishFailed(l) \/ InitializeAchievementSets(l)
  <2>1. PICK p \in {"end", "started"} : MoveTo(l, p)
    BY <1>1 DEF FinishFailed, InitializeAchievementSets
  <2>2. UNCHANGED <<pending, bound, game, forced>> /\ p \in Stages
    BY <1>1 DEF FinishFailed, InitializeAchievementSets, client, history, Stages
  <2>3. Same(l) /\ Others(l) /\ load'[l].gets = load[l].gets
    BY <2>1, <2>2, MoveFacts
  <2> QED
    BY <2>2, <2>3, HashesForward DEF Same
<1>2. CASE \E g \in Games \cup {NoGame} : SetsArrive(l, g)
  <2>1. PICK g \in Games \cup {NoGame} : SetsArrive(l, g)
    BY <1>2
  <2> DEFINE h == load[l].hash
  <2>2. Same(l) /\ Others(l) /\ load'[l].gets = g
    BY <2>1, ArriveFacts
  <2>3. /\ bound \in [Hashes -> Games \cup {NoGame}] /\ h \in Hashes
        /\ bound' = [bound EXCEPT ![h] = g] /\ UNCHANGED <<pending, game, forced>>
    BY <2>1 DEF SetsArrive, history, Inv, TypeOK
  <2>4. Pairs(g, h)
    BY <2>1, ArrivePairs
  <2>5. \A k \in Loads \ {l} : load'[k] = load[k]
    BY <2>2 DEF Others
  <2>6. load'[l].game = load[l].game /\ load'[l].hash = h
    BY <2>2 DEF Same
  <2> HIDE DEF h
  <2>7. \A x \in Hashes : Pairs(bound[x], x)'
    BY <2>3, <2>4 DEF HashesOK, Pairs, PairedWith
  <2>8. Pairs(load[l].game, h)
    BY DEF HashesOK, h
  <2>9. \A k \in Loads : Pairs(load[k].game, load[k].hash)' /\ Pairs(load[k].gets, load[k].hash)'
    BY <2>2, <2>3, <2>4, <2>5, <2>6, <2>8 DEF HashesOK, Pairs, PairedWith
  <2>10. Pairs(pending.game, pending.hash)' /\ Pairs(game.id, game.hash)'
    BY <2>3 DEF HashesOK, Pairs, PairedWith
  <2> QED
    BY <2>7, <2>9, <2>10 DEF HashesOK
<1>3. CASE SessionStarts(l)
  <2>1. Same(l) /\ Others(l) /\ load'[l].gets = load[l].gets
    BY <1>3, MoveFacts DEF SessionStarts, Stages
  <2>2. /\ game' = [id |-> load[l].gets, hash |-> load[l].hash]
        /\ UNCHANGED <<pending, bound, forced>>
    BY <1>3 DEF SessionStarts, history
  <2>3. Pairs(game.id, game.hash)'
    BY <2>2 DEF HashesOK, Pairs, PairedWith
  <2>4. \A k \in Loads : /\ load'[k].game = load[k].game /\ load'[k].hash = load[k].hash
                         /\ load'[k].gets = load[k].gets
    BY <2>1 DEF Same, Others
  <2>5. Pairs(pending.game, pending.hash)' /\ \A h \in Hashes : Pairs(bound[h], h)'
    BY <2>2 DEF HashesOK, Pairs, PairedWith
  <2> QED
    BY <2>2, <2>3, <2>4, <2>5, HashesStay
<1>4. CASE InitializeAssets(l)
  <2>1. PICK ok \in BOOLEAN, p \in {"failed", "end", "finish"} :
           load' = [load EXCEPT ![l].ok = ok, ![l].stage = p]
    BY <1>4 DEF InitializeAssets
  <2>2. UNCHANGED <<pending, bound, game, forced>>
    BY <1>4 DEF InitializeAssets, client, history
  <2>3. Same(l) /\ Others(l) /\ load'[l].gets = load[l].gets
    BY <2>1, OutcomeFacts
  <2> QED
    BY <2>2, <2>3, HashesForward DEF Same
<1>5. CASE \E valid \in BOOLEAN : FinishLoadGame(l, valid)
  <2>1. UNCHANGED <<pending, bound, game, forced>>
    BY <1>5 DEF FinishLoadGame, client, history
  <2>2. MoveTo(l, "end") \/ load' = [load EXCEPT ![l].ok = FALSE, ![l].stage = "end"]
    BY <1>5 DEF FinishLoadGame
  <2>3. Same(l) /\ Others(l) /\ load'[l].gets = load[l].gets
    BY <2>2, MoveFacts, OutcomeFacts DEF Stages
  <2> QED
    BY <2>1, <2>3, HashesForward DEF Same
<1>6. CASE ReadGameId(l)
  <2>1. UNCHANGED <<pending, bound, game, forced>>
    BY <1>6 DEF ReadGameId, client, history
  <2>2. Same(l) /\ Others(l) /\ load'[l].gets = load[l].gets
    BY <1>6, ReadFacts
  <2> QED
    BY <2>1, <2>2, HashesForward DEF Same
<1>7. CASE Merge(l) \/ EndLoadGame(l)
  <2>1. UNCHANGED <<pending, bound, game, forced>>
    BY <1>7 DEF Merge, EndLoadGame, client, history
  <2>2. \/ load' = [load EXCEPT ![l].stage = "merged", ![l].seen = NoGame]
        \/ Leave(l, "left") \/ Leave(l, "done")
    BY <1>7 DEF Merge, EndLoadGame
  <2>3. CASE load' = [load EXCEPT ![l].stage = "merged", ![l].seen = NoGame]
    <3>1. load'[l].hash = load[l].hash /\ Kept(l) /\ Others(l)
      BY <2>3, MergedKept
    <3> QED
      BY <2>1, <3>1, HashesForward DEF Kept
  <2>4. CASE Leave(l, "left") \/ Leave(l, "done")
    <3>1. Others(l) /\ load'[l].hash = NoHash
      BY <2>4, EndFacts
    <3> QED
      BY <2>1, <3>1, HashesForget
  <2> QED
    BY <2>2, <2>3, <2>4
<1>8. CASE NotesArrive(l)
  <2>1. UNCHANGED <<load, pending, bound, game, forced>>
    BY <1>8 DEF NotesArrive, client, history
  <2> QED
    BY <2>1 DEF HashesOK, Pairs, PairedWith
<1>9. CASE Fail(l) \/ InitializeIds(l)
  <2>1. UNCHANGED <<pending, bound, game, forced>>
    BY <1>9 DEF Fail, InitializeIds, client, history
  <2> QED
    BY <1>9, <2>1, ResetFacts, HashesForget
<1> QED
  BY <1>1, <1>2, <1>3, <1>4, <1>5, <1>6, <1>7, <1>8, <1>9 DEF Step

LEMMA HashesBegin ==
    ASSUME Inv, HashesOK, NEW l \in Loads, NEW g \in Games \cup {NoGame, Placeholder},
           NEW h \in Hashes \cup {NoHash}, NEW caller, BeginLoadGame(l, g, h, caller),
           \A x \in Hashes : forced[x] \subseteq forced'[x],
           h # NoHash /\ g \in Games => \/ g \in Resolve[h] \cup forced'[h]
                                        \/ h = pending.hash /\ g = pending.game
    PROVE  HashesOK'
<1>1. load'[l].game = g /\ load'[l].hash = h /\ load'[l].gets = NoGame
  BY BeginFacts, ZenonT(40)
<1>2. \A k \in Loads \ {l} : load'[k] = load[k]
  BY BeginFacts, ZenonT(40)
<1>3. UNCHANGED <<pending, bound, game>>
  BY DEF BeginLoadGame, client
<1>4. /\ pending.hash \in Hashes \cup {NoHash} /\ game.hash \in Hashes \cup {NoHash}
      /\ \A k \in Loads : load[k].hash \in Hashes \cup {NoHash}
      /\ NoGame \notin Games
  BY LoadAssumption DEF Inv, TypeOK
<1>5. Pairs(pending.game, pending.hash)' /\ Pairs(game.id, game.hash)'
  BY <1>3, <1>4 DEF HashesOK, Pairs, PairedWith
<1>6. \A x \in Hashes : Pairs(bound[x], x)'
  BY <1>3 DEF HashesOK, Pairs, PairedWith
<1>7. Pairs(load[l].game, load[l].hash)' /\ Pairs(load[l].gets, load[l].hash)'
  BY <1>1, <1>3, <1>4, <1>5 DEF Pairs, PairedWith
<1>8. ASSUME NEW k \in Loads \ {l}
      PROVE  Pairs(load[k].game, load[k].hash)' /\ Pairs(load[k].gets, load[k].hash)'
  BY <1>2, <1>4 DEF HashesOK, Pairs, PairedWith
<1> QED
  BY <1>5, <1>6, <1>7, <1>8 DEF HashesOK

LEMMA HashesEmulator ==
    ASSUME Inv, HashesOK,
           \/ \E h \in Hashes, g \in Games \cup {NoGame} : IdentifyHash(h, g)
           \/ IdentifyNothing \/ TogglePaused \/ EmulatorStep
           \/ \E exported \in BOOLEAN : Unload(exported)
    PROVE  HashesOK'
<1>1. CASE \E h \in Hashes, g \in Games \cup {NoGame} : IdentifyHash(h, g)
  BY <1>1 DEF IdentifyHash, client, history, HashesOK, Pairs, PairedWith
<1>2. CASE IdentifyNothing
  BY <1>2 DEF IdentifyNothing, client, history, HashesOK, Pairs, PairedWith
<1>3. CASE TogglePaused \/ SetGameHash
  BY <1>3 DEF TogglePaused, SetGameHash, client, history, HashesOK, Pairs, PairedWith
<1>4. CASE \E exported \in BOOLEAN : Unload(exported)
  <2>1. /\ load' = load \/ load' = AbortCurrent
        /\ UNCHANGED <<pending, bound, forced>>
        /\ game' = game \/ game'.hash = NoHash
    BY <1>4 DEF Unload, UnloadGame
  <2>2. \A k \in Loads : /\ load'[k].gets = load[k].gets
                         /\ load'[k].game = load[k].game /\ load'[k].hash = load[k].hash
    BY <2>1, AbortFacts DEF Inv, TypeOK, Rec
  <2>3. /\ Pairs(pending.game, pending.hash)' /\ Pairs(game.id, game.hash)'
        /\ \A h \in Hashes : Pairs(bound[h], h)'
    BY <2>1 DEF HashesOK, Pairs, PairedWith
  <2> QED
    BY <2>1, <2>2, <2>3, HashesStay
<1>5. CASE Pause
  <2>1. PICK l \in Loads :
           /\ l = main.load /\ Others(l)
           /\ load'[l].game = load[l].game /\ load'[l].hash = load[l].hash
           /\ load'[l].gets = load[l].gets
    BY <1>5, PauseFacts
  <2>2. UNCHANGED <<pending, bound, game, forced>>
    BY <1>5 DEF Pause, client, history
  <2> QED
    BY <2>1, <2>2, HashesForward
<1>6. CASE Request
  <2> DEFINE l == main.load
             h == load[l].hash
             g == load[l].game
  <2>1. /\ l \in Loads
        /\ \A k \in Loads : /\ load'[k].game = load[k].game /\ load'[k].hash = load[k].hash
                            /\ load'[k].gets = load[k].gets
    BY <1>6, RequestFacts
  <2>2. Pairs(g, h)
    BY <2>1 DEF HashesOK
  <2>3. bound' = (IF h # NoHash /\ bound[h] = NoGame /\ g # Placeholder
                  THEN [bound EXCEPT ![h] = g] ELSE bound)
        /\ UNCHANGED <<pending, forced>> /\ game'.hash = NoHash
    BY <1>6 DEF Request, history
  <2>4. bound \in [Hashes -> Games \cup {NoGame}]
    BY DEF Inv, TypeOK
  <2>5. \A x \in Hashes : Pairs(bound[x], x)'
    <3> HIDE DEF h, g
    <3> QED
      BY <2>2, <2>3, <2>4 DEF HashesOK, Pairs, PairedWith
  <2> HIDE DEF h, g
  <2>6. Pairs(pending.game, pending.hash)' /\ Pairs(game.id, game.hash)'
    BY <2>3 DEF HashesOK, Pairs, PairedWith
  <2> QED
    BY <2>1, <2>3, <2>5, <2>6, HashesStay
<1> QED
  BY <1>1, <1>2, <1>3, <1>4, <1>5, <1>6 DEF EmulatorStep

LEMMA StepHashes == Inv /\ HashesOK /\ [Next]_vars => HashesOK'
<1> SUFFICES ASSUME Inv, HashesOK, [Next]_vars PROVE HashesOK'
  OBVIOUS
<1>1. CASE \E l \in Loads : Step(l)
  BY <1>1, HashesWorker
<1>2. CASE \/ \E l \in Loads, g \in Games : Activate(l, g)
           \/ \E l \in Loads, g \in Games : LoadSelected(l, g)
           \/ \E l \in Loads, h \in Hashes : LoadExternal(l, h)
  <2>1. PICK l \in Loads, g \in Games \cup {NoGame, Placeholder}, h \in Hashes \cup {NoHash},
             caller \in {"activate", "menu", "external"} :
           /\ BeginLoadGame(l, g, h, caller)
           /\ \A x \in Hashes : forced[x] \subseteq forced'[x]
           /\ h # NoHash /\ g \in Games => \/ g \in Resolve[h] \cup forced'[h]
                                           \/ h = pending.hash /\ g = pending.game
    BY <1>2, Begins
  <2> QED
    BY <2>1, HashesBegin
<1>3. CASE UNCHANGED vars
  BY <1>3 DEF vars, client, history, HashesOK, Pairs, PairedWith
<1> QED
  BY <1>1, <1>2, <1>3, HashesEmulator DEF Next

LEMMA StepIdling == Inv /\ Idling /\ [Next]_vars => Idling'
<1> SUFFICES ASSUME Inv, Idling, [Next]_vars PROVE Idling'
  OBVIOUS
<1>1. CASE \E l \in Loads : Step(l)
  <2>1. main' = main
    BY <1>1, ZenonT(40) DEF Step, Fail, SetsArrive, InitializeAchievementSets, SessionStarts,
       InitializeIds, InitializeAssets, FinishLoadGame, FinishFailed, ReadGameId, Merge,
       EndLoadGame, NotesArrive
  <2> QED
    BY <2>1 DEF Idling
<1>2. CASE \/ \E h \in Hashes, g \in Games \cup {NoGame} : IdentifyHash(h, g)
           \/ IdentifyNothing \/ TogglePaused
  BY <1>2 DEF IdentifyHash, IdentifyNothing, TogglePaused, Idling
<1>3. CASE \E exported \in BOOLEAN : Unload(exported)
  BY <1>3 DEF Unload, Idle, Idling
<1>4. CASE Pause \/ Request
  <2>1. main \in [at : {"idle", "pause", "request", "hash"}, load : Loads \cup {NoLoad},
                  activating : Games \cup {NoGame}]
    BY DEF Inv, TypeOK
  <2> QED
    BY <1>4, <2>1 DEF Pause, Request, Idle, Idling
<1>5. CASE SetGameHash
  BY <1>5 DEF SetGameHash, Idle, Idling
<1>6. CASE \/ \E l \in Loads, g \in Games : Activate(l, g)
           \/ \E l \in Loads, g \in Games : LoadSelected(l, g)
           \/ \E l \in Loads, h \in Hashes : LoadExternal(l, h)
  <2>1. PICK l \in Loads, g \in Games \cup {NoGame, Placeholder}, h \in Hashes \cup {NoHash} :
           \E caller \in {"activate", "menu", "external"} : BeginLoadGame(l, g, h, caller)
    BY <1>6, Begins
  <2>2. main'.at = "pause"
    BY <2>1 DEF BeginLoadGame
  <2> QED
    BY <2>2 DEF Idling
<1>7. CASE UNCHANGED vars
  BY <1>7 DEF vars, Idling
<1> QED
  BY <1>1, <1>2, <1>3, <1>4, <1>5, <1>6, <1>7 DEF Next, EmulatorStep

-----------------------------------------------------------------------------
(* Loads that do not overlap                                               *)

\* The load that is under way is the only one.
LEMMA Only ==
    ASSUME Sequential, ~overlapped, NEW l \in Loads, load[l].stage \in Active
    PROVE  UnderWay = {l} /\ Alone(l)
<1>1. l \in UnderWay
  BY DEF UnderWay, Active
<1>2. \A k \in UnderWay : k = l
  BY <1>1 DEF Sequential
<1> QED
  BY <1>1, <1>2 DEF Sequential

LEMMA Onward ==
    ASSUME TypeOK, UnderWay = {}, NEW l \in Loads, load'[l].stage \in Active, Others(l), Alone(l)'
    PROVE  Sequential'
<1>1. UnderWay' \subseteq {l} /\ l \in UnderWay'
  BY DEF UnderWay, Others, Active
<1> QED
  BY <1>1 DEF Sequential

LEMMA GoesOn ==
    ASSUME Sequential, ~overlapped, NEW l \in Loads, load[l].stage \in Active,
           load'[l].stage \in Active, Others(l), Alone(l)'
    PROVE  Sequential'
<1>1. UnderWay = {l}
  BY Only
<1>2. UnderWay' \subseteq {l} /\ l \in UnderWay'
  BY <1>1 DEF UnderWay, Others, Active
<1> QED
  BY <1>2 DEF Sequential

LEMMA FailAlone ==
    ASSUME IInv, NEW l \in Loads, Fail(l), ~overlapped
    PROVE  Sequential'
<1>1. load[l].stage \in {"sent", "started"} /\ load[l].stage \in Active
  BY DEF Fail, Active, Stages
<1>2. Alone(l)
  BY <1>1, Only DEF IInv
<1>3. load'[l].stage = "failed" /\ Kept(l) /\ Others(l)
  BY ResetFacts DEF IInv
<1>4. UNCHANGED <<pending, gameId, gameHash, assets, notes, paused, game, main, wish, forced>>
  BY DEF Fail, context, history
<1>5. Alone(l)'
  BY <1>1, <1>2, <1>3, <1>4
     DEF Alone, Cleared, Filled, Ended, Paused, Kept, Pairs, PairedWith
<1> QED
  BY <1>1, <1>3, <1>5, GoesOn DEF IInv, Active, Stages

LEMMA SetsArriveAlone ==
    ASSUME IInv, NEW l \in Loads, NEW g \in Games \cup {NoGame}, SetsArrive(l, g), ~overlapped
    PROVE  Sequential'
<1>1. load[l].stage = "sent" /\ load[l].stage \in Active
  BY DEF SetsArrive, Active, Stages
<1>2. Alone(l)
  BY <1>1, Only DEF IInv
<1>3. /\ load'[l].stage = IF g = NoGame THEN "loaded" ELSE "sets"
      /\ Same(l) /\ Others(l) /\ load'[l].gets = g /\ load'[l].ok = load[l].ok
  BY ArriveFacts DEF IInv
<1>4. UNCHANGED <<pending, gameId, gameHash, assets, notes, paused, game, main, wish, forced>>
  BY DEF SetsArrive, context, history
<1>5. main.activating # NoGame => Pairs(g, pending.hash)
  BY <1>1, <1>2, ArrivePairs DEF Alone, IInv
<1>6. Alone(l)'
  BY <1>1, <1>2, <1>3, <1>4, <1>5
     DEF Alone, Cleared, Filled, Ended, Paused, Same, Pairs, PairedWith
<1> QED
  BY <1>1, <1>3, <1>6, GoesOn DEF IInv, Active, Stages

LEMMA InitializeAchievementSetsAlone ==
    ASSUME IInv, NEW l \in Loads, InitializeAchievementSets(l), ~overlapped
    PROVE  Sequential'
<1>1. load[l].stage = "sets" /\ load[l].stage \in Active
  BY DEF InitializeAchievementSets, Active, Stages
<1>2. Alone(l)
  BY <1>1, Only DEF IInv
<1>3. /\ load'[l].stage = "started" /\ Same(l) /\ Others(l)
      /\ load'[l].gets = load[l].gets /\ load'[l].ok = load[l].ok
  BY MoveFacts DEF InitializeAchievementSets, IInv, Stages
<1>4. /\ UNCHANGED <<pending, gameHash, notes, paused, game, main, wish, forced>>
      /\ gameId' = load[l].gets /\ assets' = assets \cup {load[l].gets}
  BY DEF InitializeAchievementSets, client, history
<1>5. assets' = {load[l].gets}
  BY <1>1, <1>2, <1>4 DEF Alone, Cleared
<1>6. Alone(l)'
  BY <1>1, <1>2, <1>3, <1>4, <1>5 DEF Alone, Cleared, Filled, Ended, Paused, Same, Pairs, PairedWith
<1> QED
  BY <1>1, <1>3, <1>6, GoesOn DEF IInv, Active, Stages

LEMMA SessionStartsAlone ==
    ASSUME IInv, NEW l \in Loads, SessionStarts(l), ~overlapped
    PROVE  Sequential'
<1>1. load[l].stage = "started" /\ load[l].stage \in Active
  BY DEF SessionStarts, Active, Stages
<1>2. Alone(l) /\ load[l].gets \in Games /\ NoGame \notin Games
  BY <1>1, Only, LoadAssumption DEF IInv, Inv, Progress
<1>3. /\ load'[l].stage = "loaded" /\ Same(l) /\ Others(l)
      /\ load'[l].gets = load[l].gets /\ load'[l].ok = load[l].ok
  BY MoveFacts DEF SessionStarts, IInv, Stages
<1>4. /\ UNCHANGED <<pending, gameId, gameHash, assets, notes, paused, main, wish, forced>>
      /\ game'.id = load[l].gets
  BY DEF SessionStarts, context, history
<1>5. assets = {load[l].gets} \ {NoGame}
  BY <1>1, <1>2 DEF Alone, Filled
<1>6. Alone(l)'
  BY <1>1, <1>2, <1>3, <1>4, <1>5 DEF Alone, Cleared, Filled, Ended, Paused, Same, Pairs, PairedWith
<1> QED
  BY <1>1, <1>3, <1>6, GoesOn DEF IInv, Active, Stages

LEMMA InitializeIdsAlone ==
    ASSUME IInv, NEW l \in Loads, InitializeIds(l), ~overlapped
    PROVE  Sequential'
<1>1. load[l].stage = "loaded" /\ load[l].stage \in Active
  BY DEF InitializeIds, Active, Stages
<1>2. Alone(l) /\ game.id = load[l].gets
  BY <1>1, Only DEF IInv, Alone, Filled
<1>3. load'[l].stage = "append" /\ Kept(l) /\ Others(l)
  <2>1. ~Fail(l)
    BY <1>1 DEF Fail
  <2> QED
    BY <2>1, ResetFacts DEF IInv
<1>4. /\ UNCHANGED <<pending, assets, notes, paused, game, main, wish, forced>>
      /\ gameId' = game.id
      /\ gameHash' = IF load[l].gets = NoGame THEN load[l].hash ELSE game.hash
  BY DEF InitializeIds, client, history
<1>5. Pairs(gameId', gameHash')
  BY <1>2, <1>4, LoadAssumption DEF Pairs, PairedWith, IInv, HashesOK
<1>6. Alone(l)'
  BY <1>1, <1>2, <1>3, <1>4, <1>5 DEF Alone, Cleared, Filled, Ended, Paused, Kept, Pairs, PairedWith
<1> QED
  BY <1>1, <1>3, <1>6, GoesOn DEF IInv, Active, Stages

LEMMA InitializeAssetsAlone ==
    ASSUME IInv, NEW l \in Loads, InitializeAssets(l), ~overlapped
    PROVE  Sequential'
<1>1. load[l].stage = "append" /\ load[l].stage \in Active
  BY DEF InitializeAssets, Active, Stages
<1>2. Alone(l) /\ game.id = load[l].gets /\ assets = {load[l].gets} \ {NoGame}
  BY <1>1, Only DEF IInv, Alone, Filled
<1>3. PICK ok \in BOOLEAN, p \in {"failed", "end", "finish"} :
         /\ load' = [load EXCEPT ![l].ok = ok, ![l].stage = p]
         /\ p = IF ~ok THEN "failed" ELSE IF load[l].external THEN "end" ELSE "finish"
  BY DEF InitializeAssets
<1>4. /\ load'[l].stage = p /\ Same(l) /\ Others(l)
      /\ load'[l].gets = load[l].gets /\ load'[l].ok = ok
  <2>1. load' = [load EXCEPT ![l].ok = ok, ![l].stage = p]
    BY <1>3
  <2> QED
    BY <2>1, OutcomeFacts DEF IInv
<1>5. /\ UNCHANGED <<pending, gameId, gameHash, notes, paused, game, main, wish, forced>>
      /\ assets' = assets \cup ({game.id} \ {NoGame})
  BY DEF InitializeAssets, client, history
<1>6. assets' = {load[l].gets} \ {NoGame}
  BY <1>2, <1>5
<1>7. Alone(l)'
  <2>1. Cleared(l)' /\ Paused(l)'
    BY <1>1, <1>2, <1>3, <1>4, <1>5, <1>6 DEF Alone, Cleared, Paused, Same, Pairs, PairedWith
  <2>2. Filled(l)'
    BY <1>1, <1>2, <1>3, <1>4, <1>5, <1>6 DEF Alone, Filled, Same, Pairs, PairedWith
  <2>3. Ended(l)'
    BY <1>1, <1>2, <1>3, <1>4, <1>5, <1>6 DEF Alone, Filled, Ended, Same, Pairs, PairedWith
  <2> QED
    BY <1>2, <1>4, <1>5, <2>1, <2>2, <2>3 DEF Alone, Same, Pairs, PairedWith
<1> QED
  BY <1>1, <1>4, <1>7, GoesOn DEF IInv, Active, Stages

LEMMA FinishLoadGameAlone ==
    ASSUME IInv, NEW l \in Loads, NEW valid, FinishLoadGame(l, valid), ~overlapped
    PROVE  Sequential'
<1>1. load[l].stage = "finish" /\ load[l].stage \in Active
  BY DEF FinishLoadGame, Active, Stages
<1>2. Alone(l) /\ load[l].ok /\ NoGame \notin Games
  BY <1>1, Only, LoadAssumption DEF IInv, Alone, Ended
<1>3. UNCHANGED <<pending, assets, notes, paused, game, main, wish, forced>>
  BY DEF FinishLoadGame, client, history
<1>4. CASE MoveTo(l, "end") /\ UNCHANGED <<gameId, gameHash>>
  <2>1. /\ load'[l].stage = "end" /\ Same(l) /\ Others(l)
        /\ load'[l].gets = load[l].gets /\ load'[l].ok = load[l].ok
    BY <1>4, MoveFacts DEF IInv, Stages
  <2>2. Alone(l)'
    BY <1>1, <1>2, <1>3, <1>4, <2>1 DEF Alone, Cleared, Filled, Ended, Paused, Same, Pairs, PairedWith
  <2> QED
    BY <1>1, <2>1, <2>2, GoesOn DEF IInv, Active, Stages
<1>5. CASE /\ gameId' = NoGame
           /\ load' = [load EXCEPT ![l].ok = FALSE, ![l].stage = "end"]
  <2>1. /\ load'[l].stage = "end" /\ Same(l) /\ Others(l)
        /\ load'[l].gets = load[l].gets /\ load'[l].ok = FALSE
    BY <1>5, OutcomeFacts DEF IInv
  <2>2. Alone(l)'
    BY <1>1, <1>2, <1>3, <1>5, <2>1 DEF Alone, Cleared, Filled, Ended, Paused, Same, Pairs, PairedWith
  <2> QED
    BY <1>1, <2>1, <2>2, GoesOn DEF IInv, Active, Stages
<1> QED
  BY <1>4, <1>5 DEF FinishLoadGame

LEMMA FinishFailedAlone ==
    ASSUME IInv, NEW l \in Loads, FinishFailed(l), ~overlapped
    PROVE  Sequential'
<1>1. load[l].stage = "failed" /\ load[l].stage \in Active
  BY DEF FinishFailed, Active, Stages
<1>2. Alone(l) /\ NoGame \notin Games /\ Placeholder \notin Games
  BY <1>1, Only, LoadAssumption DEF IInv
<1>3. /\ load'[l].stage = "end" /\ Same(l) /\ Others(l)
      /\ load'[l].gets = load[l].gets /\ load'[l].ok = load[l].ok
  BY MoveFacts DEF FinishFailed, IInv, Stages
<1>4. /\ UNCHANGED <<pending, gameHash, assets, notes, paused, game, main, wish, forced>>
      /\ gameId' = IF load[l].external THEN gameId ELSE NoGame
  BY DEF FinishFailed, client, history
<1>5. Alone(l)'
  BY <1>1, <1>2, <1>3, <1>4 DEF Alone, Cleared, Filled, Ended, Paused, Same, Pairs, PairedWith
<1> QED
  BY <1>1, <1>3, <1>5, GoesOn DEF IInv, Active, Stages

LEMMA ReadGameIdAlone ==
    ASSUME IInv, NEW l \in Loads, ReadGameId(l), ~overlapped
    PROVE  Sequential'
<1>1. load[l].stage = "end" /\ load[l].stage \in Active
  BY DEF ReadGameId, Active, Stages
<1>2. Alone(l)
  BY <1>1, Only DEF IInv
<1>3. /\ load'[l].stage = "lock" /\ Same(l) /\ Others(l) /\ load'[l].seen = gameId
      /\ load'[l].gets = load[l].gets /\ load'[l].ok = load[l].ok
  BY ReadFacts DEF IInv
<1>4. UNCHANGED <<pending, gameId, gameHash, assets, notes, paused, game, main, wish, forced>>
  BY DEF ReadGameId, context, client, history
<1>5. Alone(l)'
  BY <1>1, <1>2, <1>3, <1>4 DEF Alone, Cleared, Filled, Ended, Paused, Same, Pairs, PairedWith
<1> QED
  BY <1>1, <1>3, <1>5, GoesOn DEF IInv, Active, Stages

LEMMA MergeAlone ==
    ASSUME IInv, NEW l \in Loads, Merge(l), ~overlapped
    PROVE  Sequential'
<1>1. load[l].stage = "lock" /\ load[l].stage \in Active
  BY DEF Merge, Active, Stages
<1>2. Alone(l) /\ load[l].seen = gameId
  BY <1>1, Only DEF IInv, Alone, Ended
<1>3. /\ load' = [load EXCEPT ![l].stage = "merged", ![l].seen = NoGame]
      /\ (IF load[l].ok /\ gameId # NoGame THEN notes' = l ELSE notes' = notes)
  BY <1>2 DEF Merge
<1>4. load'[l].stage = "merged" /\ Kept(l) /\ Others(l)
  BY <1>3, MergedKept DEF IInv
<1>5. UNCHANGED <<pending, gameId, gameHash, assets, paused, game, main, wish, forced>>
  BY DEF Merge, client, history
<1>6. Alone(l)'
  BY <1>1, <1>2, <1>3, <1>4, <1>5 DEF Alone, Cleared, Filled, Ended, Paused, Kept, Pairs, PairedWith
<1> QED
  BY <1>1, <1>4, <1>6, GoesOn DEF IInv, Active, Stages

LEMMA EndLoadGameAlone ==
    ASSUME IInv, NEW l \in Loads, EndLoadGame(l), ~overlapped
    PROVE  Sequential'
<1>1. load[l].stage = "merged" /\ load[l].stage \in Active
  BY DEF EndLoadGame, Active, Stages
<1>2. UnderWay = {l} /\ Alone(l)
  BY <1>1, Only DEF IInv
<1>3. LET unfinished == load[l].external /\ ~load[l].ok IN
      /\ load'[l].stage = "done" /\ Others(l) /\ load'[l].external = unfinished
      /\ unfinished \/ notes = l => load'[l].gets = load[l].gets
  BY EndFacts DEF EndLoadGame, IInv
<1>4. UNCHANGED <<pending, gameId, gameHash, assets, notes, game, main, wish, forced>>
  BY DEF EndLoadGame, client, history
<1>5. UnderWay' = {}
  BY <1>2, <1>3 DEF UnderWay, Others
<1>6. paused' = wish
  <2>1. paused = TRUE /\ load[l].wasPaused = wish /\ wish \in BOOLEAN
    BY <1>1, <1>2 DEF Alone, Paused, IInv, Inv, TypeOK
  <2> QED
    BY <2>1 DEF EndLoadGame
<1>7. ASSUME gameId \in Games, ~LeftByExternal(gameId)'
      PROVE  load[l].ok /\ gameId = load[l].gets
  <2>1. load[l].ok \/ gameId \notin Games \/ (load[l].external /\ gameId = load[l].gets)
    BY <1>1, <1>2 DEF Alone, Ended
  <2>2. ~(load[l].external /\ ~load[l].ok /\ load[l].gets = gameId)
    BY <1>3, <1>4, <1>7 DEF LeftByExternal
  <2> QED
    BY <1>1, <1>2, <1>7, <2>1, <2>2 DEF Alone, Ended
<1>8. gameId \in Games /\ ~LeftByExternal(gameId)' =>
        /\ assets = {gameId} /\ notes = l /\ load'[l].gets = gameId
        /\ Pairs(gameId, gameHash)
        /\ main.activating # NoGame => Pairs(gameId, pending.hash)
  <2> SUFFICES ASSUME gameId \in Games, ~LeftByExternal(gameId)'
               PROVE  /\ assets = {gameId} /\ notes = l /\ load'[l].gets = gameId
                      /\ Pairs(gameId, gameHash)
                      /\ main.activating # NoGame => Pairs(gameId, pending.hash)
    OBVIOUS
  <2>1. load[l].ok /\ gameId = load[l].gets /\ gameId # NoGame
    BY <1>7, LoadAssumption
  <2>2. assets = {gameId} /\ notes = l /\ Pairs(gameId, gameHash)
    BY <1>1, <1>2, <2>1 DEF Alone, Ended, Cleared
  <2>3. load'[l].gets = gameId
    BY <1>3, <2>1, <2>2
  <2>4. main.activating # NoGame => Pairs(gameId, pending.hash)
    BY <1>2, <2>1 DEF Alone
  <2> QED
    BY <2>2, <2>3, <2>4
<1>9. main.at = "hash" => main.activating # NoGame
  BY <1>2 DEF Alone
<1>10. Rest'
  BY <1>4, <1>6, <1>8, <1>9 DEF Rest, LeftByExternal, Pairs, PairedWith
<1> QED
  BY <1>5, <1>10 DEF Sequential

-----------------------------------------------------------------------------
(* The emulator's thread, while loads do not overlap                       *)

\* A step that changes no load's progress: the load that is under way is still
\* alone, or there is none still.
LEMMA Remains ==
    ASSUME Sequential, ~overlapped,
           \A k \in Loads : load'[k].stage = load[k].stage,
           \A l \in Loads : UnderWay = {l} /\ load[l].stage \in Active /\ Alone(l) => Alone(l)',
           UnderWay = {} /\ Rest => Rest',
           TypeOK
    PROVE  Sequential'
<1>1. UnderWay' = UnderWay
  BY DEF UnderWay
<1>2. ASSUME NEW l \in UnderWay
      PROVE  UnderWay = {l} /\ Alone(l)'
  <2>1. l \in Loads /\ load[l].stage \in Active
    BY <1>2 DEF UnderWay, TypeOK, Active
  <2> QED
    BY <2>1, Only
<1>3. UnderWay = {} => Rest'
  BY DEF Sequential
<1> QED
  BY <1>1, <1>2, <1>3 DEF Sequential

LEMMA IdentifyAlone ==
    ASSUME IInv, ~overlapped, UNCHANGED <<gameId, assets, notes, paused, game, load, main, wish, forced>>,
           main.at = "idle",
           gameHash' = gameHash \/ Pairs(gameId, gameHash)'
    PROVE  Sequential'
<1>1. main.activating = NoGame
  BY DEF IInv, Idling
<1>2. \A l \in Loads : Alone(l) => Alone(l)'
  BY <1>1 DEF Alone, Cleared, Filled, Ended, Paused, Pairs, PairedWith
<1>3. Rest => Rest'
  BY <1>1 DEF Rest, Pairs, PairedWith, LeftByExternal
<1> QED
  BY <1>2, <1>3, Remains DEF IInv, Inv

LEMMA IdentifyHashAlone ==
    ASSUME IInv, NEW h \in Hashes, NEW g \in Games \cup {NoGame}, IdentifyHash(h, g), ~overlapped
    PROVE  Sequential'
<1>1. /\ main.at = "idle"
      /\ UNCHANGED <<gameId, assets, notes, paused, game, load, main, wish, forced>>
  BY DEF IdentifyHash, client, history
<1>2. gameHash' = gameHash \/ Pairs(gameId, gameHash)'
  BY DEF IdentifyHash, client, history, Pairs, PairedWith
<1> QED
  BY <1>1, <1>2, IdentifyAlone

LEMMA TogglePausedAlone ==
    ASSUME IInv, TogglePaused, ~overlapped
    PROVE  Sequential'
<1>1. UnderWay = {} /\ UNCHANGED <<pending, gameId, gameHash, assets, notes, load, main, forced>>
      /\ paused' = wish'
  BY DEF TogglePaused, Quiet
<1>2. Rest'
  BY <1>1 DEF Rest, LeftByExternal, Pairs, PairedWith, IInv, Sequential
<1>3. UnderWay' = {}
  BY <1>1 DEF UnderWay
<1> QED
  BY <1>2, <1>3 DEF Sequential

LEMMA UnloadAlone ==
    ASSUME IInv, NEW exported, Unload(exported), ~overlapped'
    PROVE  Sequential'
<1>1. UnderWay = {} /\ ~overlapped
  BY DEF Unload
<1>2. /\ load' = load \/ load' = AbortCurrent
      /\ gameId' = NoGame /\ UNCHANGED <<paused, wish>>
  BY DEF Unload, UnloadGame
<1>3. \A k \in Loads : load'[k].stage = load[k].stage
  BY <1>2, AbortFacts DEF IInv, Inv, TypeOK, Rec
<1>4. UnderWay' = {}
  BY <1>1, <1>3 DEF UnderWay
<1>5. paused = wish /\ NoGame \notin Games
  BY <1>1, LoadAssumption DEF IInv, Sequential, Rest
<1>6. Rest'
  BY <1>2, <1>5 DEF Rest
<1> QED
  BY <1>4, <1>6 DEF Sequential

LEMMA SetGameHashAlone ==
    ASSUME IInv, SetGameHash, ~overlapped
    PROVE  Sequential'
<1>1. /\ UNCHANGED <<pending, gameId, assets, notes, paused, game, load, wish, forced>>
      /\ main.at = "hash" /\ main'.at = "idle" /\ main'.activating = NoGame
      /\ gameHash' \in {pending.hash, NoHash}
  BY DEF SetGameHash, client, history, Idle
<1>2. ASSUME NEW l \in Loads, load[l].stage \in Active, Alone(l)
      PROVE  Alone(l)'
  <2>1. Pairs(load[l].gets, gameHash')
    BY <1>1, <1>2 DEF Alone, Pairs
  <2>2. Cleared(l)' /\ Paused(l)'
    BY <1>1, <1>2 DEF Alone, Cleared, Paused
  <2>3. Filled(l)' /\ Ended(l)'
    BY <1>1, <1>2, <2>1 DEF Alone, Filled, Ended, Pairs, PairedWith
  <2> QED
    BY <1>1, <2>2, <2>3 DEF Alone
<1>3. Rest => Rest'
  <2>1. main.activating = NoGame /\ Rest => gameId \notin Games
    BY <1>1, LoadAssumption DEF Rest
  <2> QED
    BY <1>1, <2>1 DEF Rest, Pairs, PairedWith, LeftByExternal
<1> QED
  BY <1>1, <1>2, <1>3, Remains DEF IInv, Inv

LEMMA BeginAlone ==
    ASSUME IInv, NEW l \in Loads, NEW g \in Games \cup {NoGame, Placeholder},
           NEW h \in Hashes \cup {NoHash}, NEW caller \in {"activate", "menu", "external"},
           BeginLoadGame(l, g, h, caller),
           IF caller = "external" THEN g = Placeholder ELSE g \in Games,
           caller = "activate" => h = pending.hash,
           ~overlapped'
    PROVE  Sequential'
<1>1. UnderWay = {} /\ ~overlapped
  BY DEF BeginLoadGame
<1>2. /\ load'[l].stage = "begun" /\ load'[l].game = g /\ load'[l].hash = h
      /\ load'[l].external = (caller = "external") /\ load'[l].ok = FALSE
      /\ load'[l].gets = NoGame
  BY BeginFacts, ZenonT(40) DEF IInv
<1>3. Others(l)
  BY BeginFacts, ZenonT(40) DEF IInv, Others
<1>4. /\ gameId' = g /\ assets' = {} /\ notes' = NoLoad
      /\ main'.at = "pause"
      /\ main'.activating = IF caller = "activate" THEN g ELSE NoGame
      /\ UNCHANGED <<pending, paused, wish>>
  BY DEF BeginLoadGame
<1>5. paused = wish
  BY <1>1 DEF IInv, Sequential, Rest
<1>6. Cleared(l)' /\ Filled(l)' /\ Ended(l)' /\ Paused(l)'
  BY <1>2, <1>4, <1>5 DEF Cleared, Filled, Ended, Paused
<1>7. Alone(l)'
  BY <1>2, <1>4, <1>6, LoadAssumption DEF Alone, Pairs
<1> QED
  BY <1>1, <1>2, <1>3, <1>7, Onward DEF IInv, Inv, Active, Stages

LEMMA PauseAlone ==
    ASSUME IInv, Pause, ~overlapped
    PROVE  Sequential'
<1>1. PICK l \in Loads :
         /\ l = main.load /\ Others(l) /\ load[l].stage = "begun"
         /\ load'[l].stage = "begun" /\ load'[l].wasPaused = paused
         /\ load'[l].game = load[l].game /\ load'[l].hash = load[l].hash
         /\ load'[l].external = load[l].external
         /\ load'[l].gets = load[l].gets /\ load'[l].ok = load[l].ok
  BY PauseFacts DEF IInv
<1>2. load[l].stage \in Active
  BY <1>1 DEF Active, Stages
<1>3. Alone(l)
  BY <1>2, Only DEF IInv
<1>4. /\ UNCHANGED <<pending, gameId, gameHash, assets, notes, game, wish, forced>>
      /\ main.at = "pause" /\ paused' = TRUE
  BY DEF Pause, client, history
<1>5. main'.at = "request" /\ main'.activating = main.activating
  BY DEF Pause, IInv, Inv, TypeOK
<1>6. paused = wish
  BY <1>1, <1>3, <1>4 DEF Alone, Paused
<1>7. Alone(l)'
  BY <1>1, <1>3, <1>4, <1>5, <1>6
     DEF Alone, Cleared, Filled, Ended, Paused, Pairs, PairedWith
<1> QED
  BY <1>1, <1>2, <1>7, GoesOn DEF IInv

LEMMA RequestAlone ==
    ASSUME IInv, Request, ~overlapped
    PROVE  Sequential'
<1>1. PICK l \in Loads :
         /\ l = main.load /\ load[l].stage = "begun" /\ load'[l].stage = "sent"
         /\ \A k \in Loads : k # l => load'[k].stage = load[k].stage
         /\ Same(l) /\ load'[l].gets = load[l].gets /\ load'[l].ok = load[l].ok
  BY RequestFacts DEF IInv, Same
<1>2. load[l].stage \in Active
  BY <1>1 DEF Active, Stages
<1>3. UnderWay = {l} /\ Alone(l)
  BY <1>2, Only DEF IInv
<1>4. /\ UNCHANGED <<pending, gameId, gameHash, assets, notes, paused, wish, forced>>
      /\ main.at = "request" /\ game'.id = NoGame
  BY DEF Request, context, history
<1>5. main'.activating = main.activating /\ (main'.at = "hash" => main.activating # NoGame)
  <2>1. main \in [at : {"idle", "pause", "request", "hash"}, load : Loads \cup {NoLoad},
                  activating : Games \cup {NoGame}]
    BY DEF IInv, Inv, TypeOK
  <2> QED
    BY <2>1 DEF Request, Idle
<1>6. Alone(l)'
  BY <1>1, <1>3, <1>4, <1>5 DEF Alone, Cleared, Filled, Ended, Paused, Same, Pairs, PairedWith
<1>7. UnderWay' \subseteq {l} /\ l \in UnderWay'
  BY <1>1, <1>3 DEF UnderWay
<1> QED
  BY <1>6, <1>7 DEF Sequential

LEMMA UnchangedAlone ==
    ASSUME Sequential,
           UNCHANGED <<pending, gameId, gameHash, assets, notes, paused, game, load, main,
                       wish, overlapped, forced>>
    PROVE  Sequential'
<1>1. UnderWay' = UnderWay
  BY DEF UnderWay
<1>2. \A l \in Loads : Alone(l) => Alone(l)'
  BY DEF Alone, Cleared, Filled, Ended, Paused, Pairs, PairedWith
<1>3. Rest => Rest'
  BY DEF Rest, Pairs, PairedWith, LeftByExternal
<1>4. UnderWay \subseteq Loads
  BY DEF UnderWay
<1> QED
  BY <1>1, <1>2, <1>3, <1>4 DEF Sequential

-----------------------------------------------------------------------------
\* Loads that overlapped did so for good.
LEMMA OverlapStays == [Next]_vars /\ overlapped => overlapped'
<1> SUFFICES ASSUME [Next]_vars, overlapped PROVE overlapped'
  OBVIOUS
<1>1. CASE \E l \in Loads : Step(l)
  BY <1>1, ZenonT(40) DEF Step, Fail, SetsArrive, InitializeAchievementSets, SessionStarts,
     InitializeIds, InitializeAssets, FinishLoadGame, FinishFailed, ReadGameId, Merge,
     EndLoadGame, NotesArrive, history
<1>2. CASE \/ \E h \in Hashes, g \in Games \cup {NoGame} : IdentifyHash(h, g)
           \/ IdentifyNothing \/ TogglePaused \/ EmulatorStep
           \/ \E exported \in BOOLEAN : Unload(exported)
  BY <1>2 DEF IdentifyHash, IdentifyNothing, TogglePaused, EmulatorStep, Pause, Request,
     SetGameHash, Unload, history
<1>3. CASE \/ \E l \in Loads, g \in Games : Activate(l, g)
           \/ \E l \in Loads, g \in Games : LoadSelected(l, g)
           \/ \E l \in Loads, h \in Hashes : LoadExternal(l, h)
  <2>1. \E l, g, h, caller : BeginLoadGame(l, g, h, caller)
    BY <1>3, Zenon DEF Activate, LoadSelected, LoadExternal
  <2> QED
    BY <2>1 DEF BeginLoadGame
<1>4. CASE UNCHANGED vars
  BY <1>4 DEF vars, history
<1> QED
  BY <1>1, <1>2, <1>3, <1>4 DEF Next

LEMMA StepSequential == IInv /\ [Next]_vars => Sequential'
<1> SUFFICES ASSUME IInv, [Next]_vars, ~overlapped' PROVE Sequential'
  BY DEF Sequential
<1>1. ~overlapped
  BY OverlapStays
<1>2. ASSUME NEW l \in Loads, Step(l) PROVE Sequential'
  <2>1. CASE NotesArrive(l)
    <3>1. UNCHANGED <<pending, gameId, gameHash, assets, notes, paused, game, load, main,
                      wish, overlapped, forced>>
      BY <2>1 DEF NotesArrive, client, history
    <3> QED
      BY <3>1, UnchangedAlone DEF IInv
  <2> QED
    BY <1>1, <1>2, <2>1, FailAlone, SetsArriveAlone, InitializeAchievementSetsAlone,
       SessionStartsAlone, InitializeIdsAlone, InitializeAssetsAlone, FinishLoadGameAlone,
       FinishFailedAlone, ReadGameIdAlone, MergeAlone, EndLoadGameAlone DEF Step
<1>3. CASE \/ \E h \in Hashes, g \in Games \cup {NoGame} : IdentifyHash(h, g)
           \/ TogglePaused
  BY <1>1, <1>3, IdentifyHashAlone, TogglePausedAlone
<1>4. CASE IdentifyNothing
  <2>1. /\ main.at = "idle"
        /\ UNCHANGED <<gameId, gameHash, assets, notes, paused, game, load, main, wish, forced>>
    BY <1>4 DEF IdentifyNothing, context, client, history
  <2> QED
    BY <1>1, <2>1, IdentifyAlone
<1>5. CASE EmulatorStep \/ \E exported \in BOOLEAN : Unload(exported)
  BY <1>1, <1>5, PauseAlone, RequestAlone, SetGameHashAlone, UnloadAlone DEF EmulatorStep
<1>6. CASE \/ \E l \in Loads, g \in Games : Activate(l, g)
           \/ \E l \in Loads, g \in Games : LoadSelected(l, g)
           \/ \E l \in Loads, h \in Hashes : LoadExternal(l, h)
  <2>1. PICK l \in Loads, g \in Games \cup {NoGame, Placeholder}, h \in Hashes \cup {NoHash},
             caller \in {"activate", "menu", "external"} :
           /\ BeginLoadGame(l, g, h, caller)
           /\ IF caller = "external" THEN g = Placeholder ELSE g \in Games
           /\ caller = "activate" => h = pending.hash
    BY <1>6, Begins DEF IInv
  <2> QED
    BY <2>1, BeginAlone
<1>7. CASE UNCHANGED vars
  BY <1>7, UnchangedAlone DEF vars, context, client, history, IInv
<1> QED
  BY <1>2, <1>3, <1>4, <1>5, <1>6, <1>7 DEF Next

LEMMA InitIInv == Init => IInv
<1> SUFFICES ASSUME Init PROVE IInv
  OBVIOUS
<1>1. \A l \in Loads : load[l].stage = "none"
  BY DEF Init, Fresh
<1>2. HashesOK /\ Idling
  BY LoadAssumption DEF Init, Fresh, HashesOK, Pairs, Idling, Idle
<1>3. UnderWay = {} /\ NoGame \notin Games
  BY <1>1, LoadAssumption DEF UnderWay
<1>4. Sequential
  BY <1>3 DEF Init, Idle, Sequential, Rest
<1> QED
  BY <1>2, <1>4, InitInv DEF IInv

LEMMA InvarianceAlone == Spec => []IInv
<1>1. IInv /\ [Next]_vars => IInv'
  BY StepInv, StepIdling, StepHashes, StepSequential DEF IInv
<1> QED
  BY <1>1, InitIInv, PTL DEF Spec

\* EndLoadGame and bWasPaused: loads that do not overlap leave the runtime paused
\* if and only if the user had paused it, however they ended.
THEOREM AlwaysResumed == Spec => []ResumedAfterLoad
<1>1. IInv => ResumedAfterLoad
  BY DEF IInv, Sequential, Rest, ResumedAfterLoad, Quiet
<1> QED
  BY <1>1, InvarianceAlone, PTL

\* GameContext after loads that do not overlap: the assets and the notes are those
\* of the game whose identifier it reports.
THEOREM AlwaysOneGame == Spec => []OneGame
<1>1. ASSUME IInv PROVE OneGame
  <2> SUFFICES ASSUME Quiet, ~overlapped, gameId \in Games, ~LeftByExternal(gameId)
               PROVE  assets = {gameId} /\ notes # NoLoad /\ load[notes].gets = gameId
    BY DEF OneGame
  <2>1. Rest
    BY <1>1 DEF IInv, Sequential, Quiet
  <2>2. assets = {gameId} /\ notes \in Loads /\ load[notes].gets = gameId
    BY <2>1 DEF Rest
  <2>3. notes # NoLoad
    BY <2>2, LoadAssumption DEF Loads, NoLoad
  <2> QED
    BY <2>2, <2>3
<1> QED
  BY <1>1, InvarianceAlone, PTL

\* rc_client binds a hash only to a game that it was identified as, or that the
\* emulator activated with it (ActivateGame takes any game); and so are the game and
\* the hash that GameContext reports, after loads that do not overlap, for any games
\* and hashes and any order of identifications, activations and loads.
THEOREM AlwaysPaired == Spec => []HashesPaired
<1>1. ASSUME IInv PROVE HashesPaired
  <2>1. \A h \in Hashes : bound[h] \in PairedWith(h) \cup {NoGame}
    <3>1. bound \in [Hashes -> Games \cup {NoGame}] /\ NoHash \notin Hashes
      BY <1>1, LoadAssumption DEF IInv, Inv, TypeOK
    <3> QED
      BY <1>1, <3>1 DEF IInv, HashesOK, Pairs
  <2>2. ASSUME Quiet, ~overlapped, gameId \in Games, ~LeftByExternal(gameId), gameHash # NoHash
        PROVE  gameId \in PairedWith(gameHash)
    <3>1. Rest
      BY <1>1, <2>2 DEF IInv, Sequential, Quiet
    <3> QED
      BY <2>2, <3>1 DEF Rest, Pairs
  <2> QED
    BY <2>1, <2>2 DEF HashesPaired
<1> QED
  BY <1>1, InvarianceAlone, PTL
=============================================================================
