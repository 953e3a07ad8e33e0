-------------------------- MODULE MemoryNotesProofs --------------------------
(***************************************************************************)
(* Proofs about MemoryNotes for any addresses, texts, notes of the server  *)
(* and number of edits.  The invariant follows each address that two       *)
(* threads have not changed at once: what was set last is put aside,       *)
(* waits to be applied, is about to replace the note, or is the note.      *)
(***************************************************************************)
EXTENDS MemoryNotes, TLAPS

Doing == {Idle} \cup [at : Addresses, text : AllTexts, author : {Me, Other}]
Upload == {Idle} \cup [at : Addresses, text : AllTexts]

AllIdle == \A t \in Threads : doing[t] = Idle
Busy(t, a) == doing[t].at = a
NobodyAt(a) == \A t \in Threads : ~Busy(t, a)

Typed ==
    /\ NotesOK
    /\ doing \in [Threads -> Doing]
    /\ upload \in Upload

\* Before what was put aside is taken out, nothing is set and nothing is published.
Phases ==
    /\ refreshing <=> fetch.at # "replay"
    /\ refreshing => /\ upload = Idle /\ ui = "idle" /\ replay = Unsaved
                     /\ doing["ui"] = Idle /\ doing["loader"] = Idle
    /\ fetch.at = "asked" => ~fetch.ok
    /\ ui # "publishing" => upload = Idle

TextOf(n) == IF n = NoNote THEN Empty ELSE n.text

\* The note that the answer brings
Answered(a) == IF fetch.ok THEN server[a] ELSE NoNote

\* What the answer has done to the note at an address, so far
Fetching(a) ==
    /\ a \in fetch.left => /\ fetch.ok /\ server[a] # NoNote
                           /\ note[a] = NoNote /\ ~Busy("answer", a)
    /\ Busy("answer", a) => /\ fetch.ok /\ server[a] # NoNote
                            /\ doing["answer"].text = server[a].text
                            /\ doing["answer"].author = server[a].author
    /\ a \notin fetch.left /\ ~Busy("answer", a) => note[a] = Answered(a)

\* What was set last is put aside, or still to be merged.
PutAside(a) ==
    /\ latest[a] = IF pending[a] # NoText THEN pending[a] ELSE merging[a]
    /\ merging[a] # NoText => pending[a] = NoText

\* What was set last is still to be applied, and nothing else was done.
Waiting(a) == replay[a] # NoText \/ merging[a] # NoText

Untouched(a) ==
    /\ latest[a] = IF replay[a] # NoText THEN replay[a] ELSE merging[a]
    /\ merging[a] # NoText => replay[a] = NoText
    /\ original[a] = NoNote /\ note[a] = Answered(a)
    /\ NobodyAt(a) /\ upload.at # a

\* A note is, or is about to be, what the user, the file and the server say.
Settled(a, n) ==
    /\ TextOf(n) = Wanted(a)
    /\ fetch.ok =>
          IF original[a] = NoNote
          THEN Shown(n) = Shown(server[a])
          ELSE Shown(original[a]) = Shown(server[a]) /\ TextOf(n) # ServerText(a)
    /\ original[a] # NoNote => latest[a] # NoText /\ (n # NoNote => n.author = Me)

Replaced(t) == By(doing[t].author, doing[t].text)

Done(a) ==
    /\ \A t \in Threads : Busy(t, a) =>
          /\ Settled(a, Replaced(t)) /\ upload.at # a
          /\ \A u \in Threads : Busy(u, a) => u = t
    /\ NobodyAt(a) =>
          /\ Settled(a, note[a])
          /\ upload.at = a => original[a] # NoNote /\ upload.text = TextAt(a)

Applied(a) == IF Waiting(a) THEN Untouched(a) ELSE Done(a)

Followed ==
    IF refreshing
    THEN /\ \A a \in Addresses : Fetching(a)
         /\ \A a \in Addresses \ raced : PutAside(a)
    ELSE \A a \in Addresses \ raced : Applied(a)

NotesInv == Typed /\ Phases /\ Followed

AllTold == \A t \in Tellers : telling[t] = "no"

\* Who looked for what is modified, and was not overtaken, saw what is modified now;
\* and when nobody is about to set Changes, it was set by such a thread.
Told ==
    /\ ChangesOK
    /\ \A t \in Tellers \ overtaken :
          telling[t] \in Values => telling[t] = ChangesOf(original)
    /\ AllIdle /\ AllTold /\ ~outdated => changes = ChangesOf(original)

IInv == NotesInv /\ Told

-----------------------------------------------------------------------------
(* Types, and what a step leaves alone                                     *)

LEMMA DoingFacts ==
    ASSUME Typed, NEW t \in Threads
    PROVE  /\ doing[t] = Idle => doing[t].at = NoNote /\ \A a \in Addresses : ~Busy(t, a)
           /\ doing[t] # Idle => /\ doing[t].at \in Addresses /\ doing[t].text \in AllTexts
                                 /\ doing[t].author \in {Me, Other}
<1>1. doing[t] \in Doing /\ Idle.at = NoNote /\ NoNote \notin Addresses
  BY NotesAssumption DEF Typed, Idle
<1> QED
  BY <1>1 DEF Doing, Busy

LEMMA NoteFacts ==
    /\ \A n \in Note : n.author \in {Me, Other} /\ n.text \in AllTexts
    /\ \A x \in {Me, Other}, t \in AllTexts :
          By(x, t) \in Note /\ By(x, t).author = x /\ By(x, t).text = t
    /\ NoNote \notin Note /\ Dummy # NoNote /\ Dummy.text = Empty /\ Dummy.author = ""
    /\ Empty \in AllTexts /\ NoText \notin AllTexts
BY NotesAssumption DEF Note, By, Dummy, AllTexts

\* What a note shows, its text included
LEMMA ShownText ==
    ASSUME NEW n
    PROVE  Shown(n).text = TextOf(n)
BY NoteFacts DEF Shown, TextOf

LEMMA SameText ==
    ASSUME NEW m, NEW n, Shown(m) = Shown(n)
    PROVE  TextOf(m) = TextOf(n)
BY ShownText

LEMMA TextsOf ==
    ASSUME NEW a \in Addresses
    PROVE  TextAt(a) = TextOf(note[a]) /\ ServerText(a) = TextOf(server[a])
BY DEF TextAt, ServerText, TextOf

\* An address that a step leaves alone
LEMMA AppliedStays ==
    ASSUME NEW a \in Addresses, Applied(a),
           note'[a] = note[a], original'[a] = original[a], latest'[a] = latest[a],
           replay'[a] = replay[a], merging'[a] = merging[a], server'[a] = server[a],
           fetch'.ok = fetch.ok,
           upload' = upload \/ upload'.at # a,
           \A t \in Threads : \/ doing'[t] = doing[t]
                              \/ ~Busy(t, a) /\ doing'[t].at # a
    PROVE  Applied(a)'
<1>1. \A t \in Threads : /\ doing'[t].at = a <=> Busy(t, a)
                         /\ Busy(t, a) => doing'[t] = doing[t]
  BY DEF Busy
<1>2. upload'.at = a => upload' = upload
  OBVIOUS
<1>3. Wanted(a)' = Wanted(a) /\ TextAt(a)' = TextAt(a) /\ ServerText(a)' = ServerText(a)
      /\ Answered(a)' = Answered(a) /\ Waiting(a)' = Waiting(a)
  BY DEF Wanted, TextAt, ServerText, Answered, Waiting
<1>4. ASSUME NEW n PROVE Settled(a, n)' <=> Settled(a, n)
  BY <1>3 DEF Settled, TextOf, Shown
<1>5. CASE Waiting(a)
  <2>1. Untouched(a)'
    BY <1>1, <1>2, <1>3, <1>5 DEF Applied, Untouched, NobodyAt, Busy
  <2> QED
    BY <1>3, <1>5, <2>1 DEF Applied
<1>6. CASE ~Waiting(a)
  <2>1. ASSUME NEW t \in Threads, Busy(t, a)'
        PROVE  /\ Settled(a, Replaced(t))' /\ upload'.at # a
               /\ \A u \in Threads : Busy(u, a)' => u = t
    <3>1. Busy(t, a) /\ doing'[t] = doing[t]
      BY <1>1, <2>1 DEF Busy
    <3>2. Settled(a, Replaced(t)) /\ upload.at # a /\ \A u \in Threads : Busy(u, a) => u = t
      BY <1>6, <3>1 DEF Applied, Done
    <3>3. Settled(a, Replaced(t))'
      BY <1>3, <3>1, <3>2 DEF Settled, Replaced, TextOf, Shown
    <3> QED
      BY <1>1, <1>2, <3>2, <3>3 DEF Busy
  <2>2. ASSUME NobodyAt(a)'
        PROVE  /\ Settled(a, note[a])'
               /\ upload'.at = a => original'[a] # NoNote /\ upload'.text = TextAt(a)'
    <3>1. NobodyAt(a)
      BY <1>1, <2>2 DEF NobodyAt, Busy
    <3>2. /\ Settled(a, note[a])
          /\ upload.at = a => original[a] # NoNote /\ upload.text = TextAt(a)
      BY <1>6, <3>1 DEF Applied, Done
    <3>3. Settled(a, note[a])'
      BY <1>3, <3>2 DEF Settled, TextOf, Shown
    <3> QED
      BY <1>3, <3>2, <3>3
  <2>3. Done(a)'
    BY <2>1, <2>2 DEF Done
  <2> QED
    BY <1>3, <1>6, <2>3 DEF Applied
<1> QED
  BY <1>5, <1>6

-----------------------------------------------------------------------------
(* SetNote                                                                 *)

LEMMA SetEffects ==
    ASSUME Typed, NEW t \in Threads, NEW a \in Addresses, NEW text \in AllTexts,
           SetNote(t, a, text), ~refreshing
    PROVE  /\ UNCHANGED <<pending, refreshing>>
           /\ \/ TextAt(a) = text /\ UNCHANGED <<note, original, doing>>
              \/ /\ TextAt(a) # text /\ original[a] # NoNote /\ original[a].text = Empty
                 /\ text = Empty
                 /\ note' = [note EXCEPT ![a] = NoNote]
                 /\ original' = [original EXCEPT ![a] = NoNote]
                 /\ UNCHANGED doing
              \/ \E x \in {Me, Other}, n \in Note \cup {Dummy, NoNote} :
                 /\ TextAt(a) # text
                 /\ doing' = [doing EXCEPT ![t] = Set(a, By(x, text))]
                 /\ original' = [original EXCEPT ![a] = n]
                 /\ UNCHANGED note
                 /\ \/ /\ original[a] = NoNote /\ x = Me
                       /\ n = IF note[a] = NoNote THEN Dummy ELSE note[a]
                    \/ /\ original[a] # NoNote /\ original[a].text = text /\ text # Empty
                       /\ n = NoNote /\ x = original[a].author
                    \/ /\ original[a] # NoNote /\ original[a].text # text
                       /\ n = original[a] /\ x = Me
<1> DEFINE fresh == IF note[a] = NoNote THEN Dummy ELSE note[a]
           restored == original[a] # NoNote /\ original[a].text = text
           n == IF restored THEN NoNote ELSE IF original[a] = NoNote THEN fresh ELSE original[a]
           tracked == [original EXCEPT ![a] = IF restored THEN NoNote
                                              ELSE IF @ = NoNote THEN fresh ELSE @]
           x == IF restored /\ original[a].author # "" THEN original[a].author ELSE Me
<1>1. /\ note \in [Addresses -> Note \cup {NoNote}]
      /\ original \in [Addresses -> Note \cup {Dummy, NoNote}]
  BY DEF Typed, NotesOK
<1>2. tracked = [original EXCEPT ![a] = n]
  BY <1>1
<1>3. n \in Note \cup {Dummy, NoNote}
  BY <1>1
<1>4. /\ x \in {Me, Other}
      /\ restored /\ text # Empty => x = original[a].author
  BY <1>1, NoteFacts, NotesAssumption, ZenonT(40)
<1>5. CASE TextAt(a) = text
  BY <1>5 DEF SetNote
<1>6. CASE TextAt(a) # text
  <2>1. /\ original' = tracked
        /\ IF restored /\ text = Empty
           THEN /\ note' = [note EXCEPT ![a] = NoNote]
                /\ UNCHANGED doing
           ELSE /\ doing' = [doing EXCEPT ![t] = Set(a, By(x, text))]
                /\ UNCHANGED note
        /\ UNCHANGED <<pending, refreshing>>
    BY <1>6 DEF SetNote, Modified
  <2>2. CASE restored /\ text = Empty
    <3>1. n = NoNote
      BY <2>2
    <3> HIDE DEF n, tracked, x
    <3> QED
      BY <1>2, <1>6, <2>1, <2>2, <3>1
  <2>3. CASE ~(restored /\ text = Empty)
    <3>1. \/ original[a] = NoNote /\ x = Me /\ n = fresh
          \/ /\ original[a] # NoNote /\ original[a].text = text /\ text # Empty
             /\ n = NoNote /\ x = original[a].author
          \/ original[a] # NoNote /\ original[a].text # text /\ n = original[a] /\ x = Me
      BY <1>4, <2>3
    <3>2. /\ doing' = [doing EXCEPT ![t] = Set(a, By(x, text))]
          /\ UNCHANGED <<note, pending, refreshing>>
          /\ original' = [original EXCEPT ![a] = n]
      BY <1>2, <2>1, <2>3
    <3> HIDE DEF n, tracked, x
    <3> QED
      BY <1>3, <1>4, <1>6, <3>1, <3>2
  <2> QED
    BY <2>2, <2>3
<1> QED
  BY <1>5, <1>6

LEMMA SetTypes ==
    ASSUME Typed, NEW t \in Threads, NEW a \in Addresses, NEW text \in AllTexts,
           SetNote(t, a, text)
    PROVE  /\ note' \in [Addresses -> Note \cup {NoNote}]
           /\ original' \in [Addresses -> Note \cup {Dummy, NoNote}]
           /\ pending' \in [Addresses -> AllTexts \cup {NoText}]
           /\ refreshing' = refreshing
           /\ refreshing => original' = original
           /\ ~refreshing => pending' = pending
           /\ doing' \in [Threads -> Doing]
           /\ latest' \in [Addresses -> AllTexts \cup {NoText}]
           /\ raced' \subseteq Addresses /\ raced \subseteq raced'
           /\ raced' \subseteq raced \cup {a}
           /\ \A b \in Addresses \ {a} :
                 /\ note'[b] = note[b] /\ original'[b] = original[b]
                 /\ pending'[b] = pending[b] /\ latest'[b] = latest[b]
                 /\ \A u \in Threads : doing'[u] = doing[u] \/ (~Busy(u, b) /\ doing'[u].at # b)
<1>1. /\ note \in [Addresses -> Note \cup {NoNote}]
      /\ original \in [Addresses -> Note \cup {Dummy, NoNote}]
      /\ pending \in [Addresses -> AllTexts \cup {NoText}]
      /\ doing \in [Threads -> Doing]
      /\ latest \in [Addresses -> AllTexts \cup {NoText}] /\ raced \subseteq Addresses
      /\ refreshing \in BOOLEAN
  BY DEF Typed, NotesOK
<1>2. /\ latest' \in [Addresses -> AllTexts \cup {NoText}]
      /\ \A b \in Addresses \ {a} : latest'[b] = latest[b]
      /\ raced' \subseteq Addresses /\ raced \subseteq raced' /\ raced' \subseteq raced \cup {a}
  BY <1>1 DEF SetNote, Recorded
<1>3. doing[t] = Idle /\ doing[t].at \notin Addresses
  BY DoingFacts, NotesAssumption DEF SetNote, Free
<1>4. CASE refreshing
  <2>1. /\ pending' = [pending EXCEPT ![a] = text]
        /\ UNCHANGED <<note, original, refreshing, doing>>
    BY <1>4 DEF SetNote
  <2> QED
    BY <1>1, <1>2, <1>4, <2>1
<1>5. CASE ~refreshing
  <2>1. CASE UNCHANGED <<note, original, doing, pending, refreshing>>
    BY <1>1, <1>2, <1>5, <2>1
  <2>2. CASE /\ note' = [note EXCEPT ![a] = NoNote]
             /\ original' = [original EXCEPT ![a] = NoNote]
             /\ UNCHANGED <<doing, pending, refreshing>>
    BY <1>1, <1>2, <1>5, <2>2
  <2>3. CASE \E x \in {Me, Other}, n \in Note \cup {Dummy, NoNote} :
                /\ doing' = [doing EXCEPT ![t] = Set(a, By(x, text))]
                /\ original' = [original EXCEPT ![a] = n]
                /\ UNCHANGED <<note, pending, refreshing>>
    <3>1. PICK x \in {Me, Other}, n \in Note \cup {Dummy, NoNote} :
                /\ doing' = [doing EXCEPT ![t] = Set(a, By(x, text))]
                /\ original' = [original EXCEPT ![a] = n]
                /\ UNCHANGED <<note, pending, refreshing>>
      BY <2>3
    <3>2. Set(a, By(x, text)) \in Doing /\ Set(a, By(x, text)).at = a
      BY NoteFacts DEF Set, Doing
    <3>3. /\ doing' \in [Threads -> Doing] /\ doing'[t].at = a
          /\ \A u \in Threads \ {t} : doing'[u] = doing[u]
      BY <1>1, <3>1, <3>2
    <3>4. original' \in [Addresses -> Note \cup {Dummy, NoNote}]
          /\ \A b \in Addresses \ {a} : original'[b] = original[b]
      BY <1>1, <3>1
    <3>5. \A b \in Addresses \ {a}, u \in Threads :
             doing'[u] = doing[u] \/ (~Busy(u, b) /\ doing'[u].at # b)
      BY <1>3, <3>3 DEF Busy
    <3> QED
      BY <1>1, <1>2, <1>5, <3>1, <3>3, <3>4, <3>5
  <2> QED
    BY <1>5, <2>1, <2>2, <2>3, SetEffects
<1> QED
  BY <1>1, <1>4, <1>5

\* What SetNote makes of an address where nothing else is under way
Clean(a) ==
    /\ fetch.ok =>
          IF original[a] = NoNote
          THEN Shown(note[a]) = Shown(server[a])
          ELSE Shown(original[a]) = Shown(server[a]) /\ TextAt(a) # ServerText(a)
    /\ original[a] # NoNote /\ note[a] # NoNote => note[a].author = Me

LEMMA SetSettles ==
    ASSUME Typed, ~refreshing, NEW t \in Threads, NEW a \in Addresses, NEW text \in AllTexts,
           SetNote(t, a, text), latest'[a] = text, NobodyAt(a), upload.at # a, Clean(a),
           UNCHANGED <<upload, server, fetch>>
    PROVE  Done(a)'
<1>1. /\ note \in [Addresses -> Note \cup {NoNote}] /\ doing \in [Threads -> Doing]
      /\ original \in [Addresses -> Note \cup {Dummy, NoNote}]
  BY DEF Typed, NotesOK
<1>2. Wanted(a)' = text /\ text # NoText
  BY NoteFacts DEF Wanted
<1>3. ServerText(a)' = ServerText(a) /\ server'[a] = server[a] /\ fetch'.ok = fetch.ok
  BY DEF ServerText
<1>4. CASE TextAt(a) = text /\ UNCHANGED <<note, original, doing>>
  <2>1. NobodyAt(a)'
    BY <1>4 DEF NobodyAt, Busy
  <2>2. Settled(a, note[a])'
    BY <1>2, <1>3, <1>4, TextsOf DEF Clean, Settled, TextOf, TextAt
  <2> QED
    BY <2>1, <2>2 DEF Done, NobodyAt
<1>5. CASE /\ TextAt(a) # text /\ original[a] # NoNote /\ original[a].text = Empty
           /\ text = Empty
           /\ note' = [note EXCEPT ![a] = NoNote]
           /\ original' = [original EXCEPT ![a] = NoNote]
           /\ UNCHANGED doing
  <2>1. NobodyAt(a)'
    BY <1>5 DEF NobodyAt, Busy
  <2>2. note'[a] = NoNote /\ original'[a] = NoNote
    BY <1>1, <1>5
  <2>3. fetch.ok => Shown(server[a]) = Dummy
    BY <1>5 DEF Clean, Shown
  <2>4. Settled(a, note[a])'
    BY <1>2, <1>3, <1>5, <2>2, <2>3 DEF Settled, TextOf, Shown
  <2> QED
    BY <2>1, <2>4 DEF Done, NobodyAt
<1>6. ASSUME NEW x \in {Me, Other}, NEW n \in Note \cup {Dummy, NoNote},
             TextAt(a) # text,
             doing' = [doing EXCEPT ![t] = Set(a, By(x, text))],
             original' = [original EXCEPT ![a] = n],
             \/ /\ original[a] = NoNote /\ x = Me
                /\ n = IF note[a] = NoNote THEN Dummy ELSE note[a]
             \/ /\ original[a] # NoNote /\ original[a].text = text /\ text # Empty
                /\ n = NoNote /\ x = original[a].author
             \/ /\ original[a] # NoNote /\ original[a].text # text
                /\ n = original[a] /\ x = Me
      PROVE  Done(a)'
  <2>1. /\ doing'[t].at = a /\ doing'[t].author = x /\ doing'[t].text = text
        /\ \A u \in Threads \ {t} : doing'[u] = doing[u]
    BY <1>1, <1>6, NoteFacts, ZenonT(40) DEF Set
  <2>2. original'[a] = n
    BY <1>1, <1>6
  <2>3. \A u \in Threads : Busy(u, a)' => u = t
    BY <2>1 DEF NobodyAt, Busy
  <2> DEFINE r == By(x, text)
  <2>4. r # NoNote /\ r.author = x /\ r.text = text /\ TextOf(r) = text
    BY NoteFacts, ZenonT(40) DEF TextOf
  <2>5. Replaced(t)' = r
    BY <2>1 DEF Replaced
  <2> HIDE DEF r
  <2>6. CASE original[a] = NoNote
    <3>1. /\ x = Me /\ n # NoNote
          /\ n = IF note[a] = NoNote THEN Dummy ELSE note[a]
      BY <1>6, <2>6, NoteFacts
    <3>2. Shown(n) = Shown(note[a])
      BY <3>1, NoteFacts DEF Shown
    <3>3. fetch.ok => Shown(n) = Shown(server[a]) /\ text # ServerText(a)
      BY <1>6, <2>6, <3>2, SameText, TextsOf DEF Clean
    <3>4. Settled(a, r)'
      BY <1>2, <1>3, <2>2, <2>4, <3>1, <3>3 DEF Settled, TextOf, Shown
    <3> QED
      BY <2>3, <2>5, <3>4, <2>1 DEF Done, NobodyAt, Busy
  <2>7. CASE original[a] # NoNote /\ original[a].text = text
    <3>1. n = NoNote /\ x = original[a].author /\ text # Empty /\ original[a] \in Note
      BY <1>1, <1>6, <2>7, NoteFacts
    <3>2. r = original[a]
      BY <2>4, <2>7, <3>1 DEF r, By, Note
    <3>3. fetch.ok => Shown(r) = Shown(server[a])
      BY <2>7, <3>2 DEF Clean
    <3>4. Settled(a, r)'
      BY <1>2, <1>3, <2>2, <2>4, <3>1, <3>3 DEF Settled, TextOf, Shown
    <3> QED
      BY <2>3, <2>5, <3>4, <2>1 DEF Done, NobodyAt, Busy
  <2>8. CASE original[a] # NoNote /\ original[a].text # text
    <3>1. n = original[a] /\ x = Me /\ TextOf(n) # text
      BY <1>6, <2>8 DEF TextOf
    <3>2. fetch.ok => Shown(n) = Shown(server[a]) /\ text # ServerText(a)
      BY <2>8, <3>1, SameText, TextsOf DEF Clean
    <3>3. Settled(a, r)'
      BY <1>2, <1>3, <2>2, <2>4, <2>8, <3>1, <3>2 DEF Settled, TextOf, Shown
    <3> QED
      BY <2>3, <2>5, <3>3, <2>1 DEF Done, NobodyAt, Busy
  <2> QED
    BY <2>6, <2>7, <2>8
<1> QED
  BY <1>4, <1>5, <1>6, SetEffects

-----------------------------------------------------------------------------
(* Steps that set a note                                                   *)

LEMMA IdleNowhere == Idle.at = NoNote /\ \A a \in Addresses : Idle.at # a
BY NotesAssumption DEF Idle

LEMMA SettledClean ==
    ASSUME NEW a \in Addresses, Settled(a, note[a])
    PROVE  Clean(a)
BY TextsOf DEF Settled, Clean

\* Who sets a note, and what he takes it from
Source(t, a, text) ==
    \/ t = "ui" /\ UNCHANGED <<replay, merging>>
    \/ /\ t = "answer" /\ ~refreshing /\ replay[a] = text
       /\ replay' = [replay EXCEPT ![a] = NoText] /\ UNCHANGED merging
    \/ /\ t = "loader" /\ merging[a] = text
       /\ merging' = [merging EXCEPT ![a] = NoText] /\ UNCHANGED replay

LEMMA SetAside ==
    ASSUME NotesInv, refreshing, NEW t \in Threads, NEW a \in Addresses, NEW text \in AllTexts,
           SetNote(t, a, text), Source(t, a, text), UNCHANGED <<upload, server, fetch>>
    PROVE  Followed'
<1>1. /\ pending' = [pending EXCEPT ![a] = text]
      /\ UNCHANGED <<note, original, refreshing, doing>>
      /\ Recorded(t, a, text)
  BY DEF SetNote
<1>2. /\ pending \in [Addresses -> AllTexts \cup {NoText}]
      /\ latest \in [Addresses -> AllTexts \cup {NoText}]
      /\ merging \in [Addresses -> AllTexts \cup {NoText}]
      /\ text # NoText
  BY NoteFacts DEF NotesInv, Typed, NotesOK
<1>3. \A b \in Addresses : Fetching(b)'
  BY <1>1 DEF NotesInv, Followed, Fetching, Answered, Busy
<1>4. ASSUME NEW b \in Addresses \ raced' PROVE PutAside(b)'
  <2>1. b \notin raced /\ PutAside(b)
    BY <1>1, <1>4 DEF Recorded, NotesInv, Followed
  <2>2. CASE b # a
    <3>1. pending'[b] = pending[b] /\ latest'[b] = latest[b] /\ merging'[b] = merging[b]
      BY <1>1, <1>2, <2>2 DEF Recorded, Source
    <3> QED
      BY <2>1, <3>1 DEF PutAside
  <2>3. CASE b = a /\ t = "ui"
    <3>1. pending'[a] = text /\ latest'[a] = text /\ merging'[a] = merging[a]
      BY <1>1, <1>2, <2>3 DEF Recorded, Source
    <3>2. merging[a] = NoText
      BY <1>1, <1>4, <2>3 DEF Recorded, Racing
    <3> QED
      BY <1>2, <2>3, <3>1, <3>2 DEF PutAside
  <2>4. CASE b = a /\ t = "loader"
    <3>1. pending'[a] = text /\ latest'[a] = latest[a] /\ merging[a] = text /\ merging'[a] = NoText
      BY <1>1, <1>2, <2>4 DEF Recorded, Source
    <3> QED
      BY <1>2, <2>1, <2>4, <3>1 DEF PutAside
  <2> QED
    BY <2>2, <2>3, <2>4 DEF Source
<1> QED
  BY <1>1, <1>3, <1>4 DEF Followed

LEMMA SetNow ==
    ASSUME NotesInv, ~refreshing, NEW t \in Threads, NEW a \in Addresses, NEW text \in AllTexts,
           SetNote(t, a, text), Source(t, a, text), UNCHANGED <<upload, server, fetch>>
    PROVE  Followed'
<1>1. Typed /\ refreshing' = refreshing /\ raced \subseteq raced' /\ Recorded(t, a, text)
  BY SetTypes DEF NotesInv, SetNote
<1>2. /\ replay \in [Addresses -> AllTexts \cup {NoText}]
      /\ merging \in [Addresses -> AllTexts \cup {NoText}]
      /\ latest \in [Addresses -> AllTexts \cup {NoText}]
      /\ text # NoText
  BY NoteFacts DEF NotesInv, Typed, NotesOK
<1>3. \A b \in Addresses \ raced' : Applied(b)
  BY <1>1 DEF NotesInv, Followed
<1>4. ASSUME NEW b \in Addresses \ raced', b # a PROVE Applied(b)'
  <2>1. /\ note'[b] = note[b] /\ original'[b] = original[b] /\ latest'[b] = latest[b]
        /\ \A u \in Threads : doing'[u] = doing[u] \/ (~Busy(u, b) /\ doing'[u].at # b)
    BY <1>1, <1>4, SetTypes
  <2>2. replay'[b] = replay[b] /\ merging'[b] = merging[b]
    BY <1>2, <1>4 DEF Source
  <2> QED
    BY <1>3, <2>1, <2>2, AppliedStays
<1>5. ASSUME a \notin raced' PROVE Applied(a)'
  <2>1. ~Racing(t, a) /\ Applied(a)
    BY <1>1, <1>3, <1>5 DEF Recorded
  <2>2. ~Busy(t, a)
    BY <1>1, DoingFacts DEF SetNote, Free
  <2>3. NobodyAt(a) /\ upload.at # a
    BY <2>1, <2>2 DEF Racing, NobodyAt, Busy
  <2>4. /\ latest'[a] = text /\ Clean(a)
        /\ replay'[a] = NoText /\ merging'[a] = NoText
    <3>1. CASE t = "ui"
      <4>1. replay[a] = NoText /\ merging[a] = NoText
        BY <2>1, <3>1 DEF Racing
      <4>2. Settled(a, note[a])
        BY <2>1, <2>3, <4>1 DEF Applied, Waiting, Done
      <4>3. latest'[a] = text
        BY <1>1, <1>2, <3>1 DEF Recorded
      <4> QED
        BY <3>1, <4>1, <4>2, <4>3, SettledClean DEF Source
    <3>2. CASE t \in {"answer", "loader"}
      <4>1. Waiting(a) /\ latest'[a] = latest[a]
        BY <1>1, <1>2, <3>2 DEF Source, Waiting, Recorded
      <4>2. Untouched(a)
        BY <2>1, <4>1 DEF Applied
      <4>3. latest[a] = text /\ replay'[a] = NoText /\ merging'[a] = NoText
        BY <1>2, <3>2, <4>2 DEF Source, Untouched
      <4>4. Clean(a)
        BY <4>2 DEF Untouched, Clean, Answered
      <4> QED
        BY <4>1, <4>3, <4>4
    <3> QED
      BY <3>1, <3>2 DEF Source
  <2>5. Done(a)'
    BY <1>1, <2>3, <2>4, SetSettles
  <2> QED
    BY <2>4, <2>5 DEF Applied, Waiting
<1> QED
  BY <1>1, <1>4, <1>5 DEF Followed

LEMMA SetStep ==
    ASSUME NotesInv, NEW t \in Threads, NEW a \in Addresses, NEW text \in AllTexts,
           SetNote(t, a, text), Source(t, a, text),
           UNCHANGED <<upload, server, fetch>>, UNCHANGED file,
           ui' \in {"idle", "saving", "publishing"},
           refreshing => ui' = ui, ui' # "publishing" => ui # "publishing"
    PROVE  NotesInv'
<1>1. Followed'
  BY SetAside, SetNow
<1>2. Typed
  BY DEF NotesInv
<1>3. Typed'
  <2>1. /\ replay' \in [Addresses -> AllTexts \cup {NoText}]
        /\ merging' \in [Addresses -> AllTexts \cup {NoText}]
    BY <1>2 DEF Source, Typed, NotesOK
  <2>2. IF refreshing' THEN \A b \in Addresses : original'[b] = NoNote ELSE pending' = Unsaved
    BY <1>2, SetTypes DEF Typed, NotesOK, Unsaved
  <2> QED
    BY <1>2, <2>1, <2>2, SetTypes DEF Typed, NotesOK
<1>4. Phases'
  <2>1. refreshing' = refreshing
    BY <1>2, SetTypes
  <2>2. ASSUME refreshing
        PROVE  UNCHANGED <<doing, replay, original>>
    BY <2>2 DEF SetNote, Source, NotesInv, Phases
  <2> QED
    BY <2>1, <2>2 DEF NotesInv, Phases
<1> QED
  BY <1>1, <1>3, <1>4 DEF NotesInv

-----------------------------------------------------------------------------
(* The other steps                                                         *)

\* A step that leaves the notes alone
LEMMA FollowedStays ==
    ASSUME Followed,
           UNCHANGED <<note, original, pending, refreshing, fetch, replay, merging, doing,
                       upload, server, latest, raced>>
    PROVE  Followed'
<1>1. CASE refreshing
  <2>1. \A a \in Addresses : Fetching(a)'
    BY <1>1 DEF Followed, Fetching, Answered, Busy
  <2>2. \A a \in Addresses \ raced : PutAside(a)'
    BY <1>1 DEF Followed, PutAside
  <2> QED
    BY <1>1, <2>1, <2>2 DEF Followed
<1>2. CASE ~refreshing
  <2>1. \A a \in Addresses \ raced : Applied(a)'
    BY <1>2, AppliedStays DEF Followed
  <2> QED
    BY <1>2, <2>1 DEF Followed
<1> QED
  BY <1>1, <1>2

LEMMA AnswerStep ==
    ASSUME NotesInv, Fetched \/ NotFetched
    PROVE  NotesInv'
<1>1. UNCHANGED <<note, original, pending, refreshing, replay, merging, doing, ui,
                  upload, server, file, latest, raced>>
  BY DEF Fetched, NotFetched, Answer, model, history
<1>2. fetch.at = "asked" /\ ~fetch.ok /\ refreshing
  BY DEF Fetched, NotFetched, Answer, NotesInv, Phases
<1>3. \A a \in Addresses : note[a] = NoNote /\ ~Busy("answer", a)
  BY <1>2 DEF NotesInv, Followed, Fetching, Answered
<1>4. \/ fetch' = [at |-> "notes", left |-> {a \in Addresses : server[a] # NoNote}, ok |-> TRUE]
      \/ fetch' = [at |-> "notes", left |-> {}, ok |-> FALSE]
  BY DEF Fetched, NotFetched, Answer
<1>5. \A a \in Addresses : Fetching(a)'
  BY <1>1, <1>3, <1>4 DEF Fetching, Answered, Busy
<1>6. \A a \in Addresses \ raced : PutAside(a)'
  BY <1>1, <1>2 DEF NotesInv, Followed, PutAside
<1>7. Followed'
  BY <1>1, <1>2, <1>5, <1>6 DEF Followed
<1>8. Typed'
  <2>1. fetch' \in [at : {"asked", "notes", "replay"}, left : SUBSET Addresses, ok : BOOLEAN]
    <3>1. {a \in Addresses : server[a] # NoNote} \in SUBSET Addresses /\ {} \in SUBSET Addresses
      OBVIOUS
    <3>2. PICK S \in SUBSET Addresses, ok \in BOOLEAN :
             fetch' = [at |-> "notes", left |-> S, ok |-> ok]
      BY <1>4, <3>1
    <3> QED
      BY <3>2
  <2> QED
    BY <1>1, <2>1 DEF NotesInv, Typed, NotesOK
<1>9. Phases'
  BY <1>1, <1>2, <1>4 DEF NotesInv, Phases, AllIdle
<1> QED
  BY <1>7, <1>8, <1>9 DEF NotesInv

LEMMA ApplyFetchedStep ==
    ASSUME NotesInv, NEW a \in Addresses, ApplyFetched(a)
    PROVE  NotesInv'
<1>1. /\ fetch.at = "notes" /\ a \in fetch.left /\ doing["answer"] = Idle /\ refreshing
      /\ original[a] = NoNote
  BY DEF ApplyFetched, Free, NotesInv, Typed, NotesOK, Phases
<1>2. /\ UNCHANGED <<note, original, pending, refreshing, replay, merging, ui,
                     upload, server, file, latest, raced>>
      /\ fetch' = [fetch EXCEPT !.left = @ \ {a}]
      /\ doing' = [doing EXCEPT !["answer"] = Set(a, server[a])]
  BY <1>1 DEF ApplyFetched, history
<1>3. /\ fetch.ok /\ server[a] # NoNote /\ note[a] = NoNote
      /\ server[a] \in [author : {Me, Other}, text : Texts]
      /\ doing \in [Threads -> Doing]
      /\ fetch \in [at : {"asked", "notes", "replay"}, left : SUBSET Addresses, ok : BOOLEAN]
  BY <1>1 DEF NotesInv, Followed, Fetching, Typed, NotesOK
<1>4. /\ fetch'.at = "notes" /\ fetch'.ok /\ fetch'.left = fetch.left \ {a}
      /\ fetch' \in [at : {"asked", "notes", "replay"}, left : SUBSET Addresses, ok : BOOLEAN]
  BY <1>1, <1>2, <1>3
<1>5. /\ doing'["answer"].at = a /\ doing'["answer"].text = server[a].text
      /\ doing'["answer"].author = server[a].author
      /\ doing' \in [Threads -> Doing]
      /\ \A t \in Threads \ {"answer"} : doing'[t] = doing[t]
  <2>1. "answer" \in Threads /\ Set(a, server[a]) \in Doing
    BY <1>3 DEF Threads, Set, Doing, AllTexts
  <2> QED
    BY <1>2, <1>3, <2>1 DEF Set
<1>6. \A b \in Addresses : Fetching(b)'
  <2>1. \A b \in Addresses : ~Busy("answer", b)
    BY <1>1, IdleNowhere DEF Busy
  <2> QED
    BY <1>1, <1>2, <1>3, <1>4, <1>5, <2>1 DEF NotesInv, Followed, Fetching, Answered, Busy
<1>7. \A b \in Addresses \ raced : PutAside(b)'
  BY <1>1, <1>2 DEF NotesInv, Followed, PutAside
<1>8. Followed'
  BY <1>1, <1>2, <1>6, <1>7 DEF Followed
<1>9. Typed'
  BY <1>2, <1>4, <1>5 DEF NotesInv, Typed, NotesOK
<1>11. doing'["ui"] = doing["ui"] /\ doing'["loader"] = doing["loader"]
  BY <1>5 DEF Threads
<1>12. Phases'
  BY <1>1, <1>2, <1>4, <1>11 DEF NotesInv, Phases
<1> QED
  BY <1>8, <1>9, <1>12 DEF NotesInv

LEMMA EndRefreshStep ==
    ASSUME NotesInv, EndRefresh
    PROVE  NotesInv'
<1>1. /\ fetch.at = "notes" /\ fetch.left = {} /\ doing["answer"] = Idle /\ refreshing
      /\ replay' = pending /\ pending' = Unsaved /\ refreshing' = FALSE
      /\ UNCHANGED <<note, original, merging, doing, ui, upload, server, file,
                     latest, raced>>
      /\ fetch' = [fetch EXCEPT !.at = "replay"]
  BY DEF EndRefresh, Free, NotesInv, Phases, history
<1>2. /\ fetch'.at = "replay" /\ fetch'.ok = fetch.ok
      /\ fetch' \in [at : {"asked", "notes", "replay"}, left : SUBSET Addresses, ok : BOOLEAN]
  BY <1>1 DEF NotesInv, Typed, NotesOK
<1>3. upload = Idle /\ \A t \in Threads : doing[t] = Idle
  BY <1>1 DEF NotesInv, Phases, Threads
<1>4. \A a \in Addresses : /\ note[a] = Answered(a) /\ original[a] = NoNote
                           /\ NobodyAt(a) /\ upload.at # a
  <2>1. \A a \in Addresses : NobodyAt(a) /\ upload.at # a
    BY <1>3, IdleNowhere DEF NobodyAt, Busy
  <2>2. \A a \in Addresses : ~Busy("answer", a)
    BY <1>1, IdleNowhere DEF Busy
  <2> QED
    BY <1>1, <2>1, <2>2 DEF NotesInv, Followed, Fetching, Typed, NotesOK
<1>5. ASSUME NEW a \in Addresses \ raced PROVE Applied(a)'
  <2>1. /\ latest[a] = IF pending[a] # NoText THEN pending[a] ELSE merging[a]
        /\ merging[a] # NoText => pending[a] = NoText
    BY <1>1 DEF NotesInv, Followed, PutAside
  <2>2. NobodyAt(a)' /\ note'[a] = Answered(a)' /\ original'[a] = NoNote
    BY <1>1, <1>2, <1>4 DEF NobodyAt, Busy, Answered
  <2>3. CASE Waiting(a)'
    BY <1>1, <1>4, <2>1, <2>2, <2>3 DEF Applied, Untouched
  <2>4. CASE ~Waiting(a)'
    <3>1. latest'[a] = NoText
      BY <1>1, <2>1, <2>4 DEF Waiting
    <3>2. Settled(a, note[a])'
      BY <2>2, <3>1 DEF Settled, Wanted, Answered, TextOf, ServerText, Shown
    <3> QED
      BY <1>1, <1>4, <2>2, <2>4, <3>2 DEF Applied, Done, NobodyAt
  <2> QED
    BY <2>3, <2>4
<1>6. Followed'
  BY <1>1, <1>5 DEF Followed
<1>7. Typed'
  BY <1>1, <1>2 DEF NotesInv, Typed, NotesOK, Unsaved
<1>8. Phases'
  BY <1>1, <1>2 DEF NotesInv, Phases, AllIdle
<1> QED
  BY <1>6, <1>7, <1>8 DEF NotesInv

LEMMA AddMemoryNoteStep ==
    ASSUME NotesInv, NEW t \in Threads, AddMemoryNote(t)
    PROVE  NotesInv'
<1>0. doing[t] # Idle /\ doing[t].at \in Addresses /\ Replaced(t) \in Note
  BY DoingFacts, NoteFacts DEF AddMemoryNote, NotesInv, Replaced
<1>a. PICK a \in Addresses : a = doing[t].at
  BY <1>0
<1>n. PICK n \in Note : n = Replaced(t)
  BY <1>0
<1>1. /\ UNCHANGED <<original, pending, refreshing, fetch, replay, merging, ui, upload,
                     server, file, latest, raced>>
      /\ note' = [note EXCEPT ![a] = n]
      /\ doing' = [doing EXCEPT ![t] = Idle]
      /\ doing[t] # Idle
  BY <1>a, <1>n DEF AddMemoryNote, load, history, Replaced
<1>2. n.author = doing[t].author /\ n.text = doing[t].text
  BY <1>0, <1>n, DoingFacts, NoteFacts, ZenonT(40) DEF NotesInv, Replaced
<1>3. /\ note'[a] = n /\ note' \in [Addresses -> Note \cup {NoNote}]
      /\ \A b \in Addresses : b # a => note'[b] = note[b]
      /\ doing'[t] = Idle /\ doing' \in [Threads -> Doing]
      /\ \A u \in Threads : u # t => doing'[u] = doing[u]
  <2>1. /\ note \in [Addresses -> Note \cup {NoNote}] /\ doing \in [Threads -> Doing]
        /\ Idle \in Doing
    BY DEF NotesInv, Typed, NotesOK, Doing
  <2> QED
    BY <1>1, <2>1
<1>4. CASE refreshing
  <2>1. t = "answer" /\ Busy(t, a)
    BY <1>1, <1>4, <1>a DEF NotesInv, Phases, Threads, Busy
  <2>2. /\ server[a] # NoNote /\ fetch.ok /\ a \notin fetch.left
        /\ n.text = server[a].text /\ n.author = server[a].author
        /\ server[a] \in [author : {Me, Other}, text : Texts]
    BY <1>2, <1>4, <2>1 DEF NotesInv, Followed, Fetching, Typed, NotesOK
  <2>3. n = server[a]
    BY <1>2, <2>2 DEF Note
  <2>4. ~Busy("answer", a)' /\ \A b \in Addresses : ~Busy("answer", b)'
    BY <1>3, <2>1, IdleNowhere DEF Busy
  <2>5. \A b \in Addresses : b # a => ~Busy("answer", b)
    BY <1>a, <2>1 DEF Busy
  <2>6. \A b \in Addresses : Fetching(b)'
    BY <1>1, <1>3, <1>4, <2>2, <2>3, <2>4, <2>5 DEF NotesInv, Followed, Fetching, Answered
  <2>7. \A b \in Addresses \ raced : PutAside(b)'
    BY <1>1, <1>4 DEF NotesInv, Followed, PutAside
  <2> QED
    <3>1. Followed'
      BY <1>1, <1>4, <2>6, <2>7 DEF Followed
    <3>2. Typed'
      BY <1>1, <1>3 DEF NotesInv, Typed, NotesOK
    <3>3. Phases'
      BY <1>1, <1>3, <1>4, <2>1 DEF NotesInv, Phases
    <3> QED
      BY <3>1, <3>2, <3>3 DEF NotesInv
<1>5. CASE ~refreshing
  <2>1. ASSUME NEW b \in Addresses \ raced PROVE Applied(b)'
    <3>1. Applied(b)
      BY <1>5 DEF NotesInv, Followed
    <3>2. CASE b # a
      <4>1. \A u \in Threads : doing'[u] = doing[u] \/ (~Busy(u, b) /\ doing'[u].at # b)
        BY <1>3, <1>a, <3>2, IdleNowhere DEF Busy
      <4> QED
        BY <1>1, <1>3, <3>1, <3>2, <4>1, AppliedStays
    <3>3. CASE b = a
      <4>1. Busy(t, a) /\ ~Waiting(a)
        BY <1>a, <3>1, <3>3 DEF Busy, Applied, Untouched, NobodyAt
      <4>2. /\ Settled(a, n) /\ upload.at # a
            /\ \A u \in Threads : Busy(u, a) => u = t
        BY <1>n, <3>1, <3>3, <4>1 DEF Applied, Done
      <4>3. \A u \in Threads : doing'[u].at # a
        BY <1>3, <4>2, IdleNowhere DEF Busy
      <4>4. NobodyAt(a)'
        BY <4>3 DEF NobodyAt, Busy
      <4>5. Settled(a, note[a])'
        BY <1>1, <1>3, <4>2 DEF Settled, Wanted, TextOf, ServerText, Shown
      <4>6. Applied(a)'
        BY <1>1, <4>1, <4>2, <4>4, <4>5 DEF Applied, Waiting, Done, NobodyAt
      <4> QED
        BY <3>3, <4>6
    <3> QED
      BY <3>2, <3>3
  <2> QED
    <3>1. Followed'
      BY <1>1, <1>5, <2>1 DEF Followed
    <3>2. Typed'
      BY <1>1, <1>3 DEF NotesInv, Typed, NotesOK
    <3>3. Phases'
      BY <1>1, <1>3, <1>5 DEF NotesInv, Phases
    <3> QED
      BY <3>1, <3>2, <3>3 DEF NotesInv
<1> QED
  BY <1>4, <1>5

-----------------------------------------------------------------------------
(* The user and the publisher                                              *)

\* The texts the notes hold are texts
LEMMA TextTypes ==
    ASSUME Typed, NEW a \in Addresses
    PROVE  /\ TextAt(a) \in AllTexts
           /\ original[a] # NoNote => original[a].text \in AllTexts
<1>1. note[a] \in Note \cup {NoNote} /\ original[a] \in Note \cup {Dummy, NoNote}
  BY DEF Typed, NotesOK
<1>2. TextAt(a) \in AllTexts
  <2>1. note[a] # NoNote => note[a].text \in AllTexts
    BY <1>1, NoteFacts
  <2> QED
    BY <2>1, NoteFacts DEF TextAt
<1>3. original[a] # NoNote => original[a].text \in AllTexts
  <2>1. CASE original[a] \in Note
    BY <2>1, NoteFacts
  <2>2. CASE original[a] = Dummy
    BY <2>2, NoteFacts
  <2> QED
    BY <1>1, <2>1, <2>2
<1> QED
  BY <1>2, <1>3

LEMMA SetsStep ==
    ASSUME NotesInv, NEW a \in Addresses,
           \/ Replay(a) \/ Deserialize(a) \/ Revert(a)
           \/ \E text \in AllTexts : Edit(a, text)
    PROVE  NotesInv'
<1>1. /\ original[a] # NoNote => original[a].text \in AllTexts
      /\ replay[a] # NoText => replay[a] \in AllTexts
      /\ merging[a] # NoText => merging[a] \in AllTexts
      /\ {"ui", "answer", "loader"} = Threads
  <2>1. original[a] # NoNote => original[a].text \in AllTexts
    BY TextTypes DEF NotesInv
  <2>2. /\ replay[a] # NoText => replay[a] \in AllTexts
        /\ merging[a] # NoText => merging[a] \in AllTexts
    BY DEF NotesInv, Typed, NotesOK
  <2>3. {"ui", "answer", "loader"} = Threads
    BY DEF Threads
  <2> QED
    BY <2>1, <2>2, <2>3
<1>2. CASE Replay(a)
  <2>1. /\ replay[a] \in AllTexts /\ SetNote("answer", a, replay[a])
        /\ Source("answer", a, replay[a]) /\ "answer" \in Threads
        /\ UNCHANGED <<upload, server, fetch, file, ui>> /\ ~refreshing
    BY <1>1, <1>2 DEF Replay, Source, NotesInv, Phases
  <2> QED
    BY <2>1, SetStep DEF NotesInv, Typed, NotesOK
<1>3. CASE Deserialize(a)
  <2>1. /\ merging[a] \in AllTexts /\ SetNote("loader", a, merging[a])
        /\ Source("loader", a, merging[a]) /\ "loader" \in Threads
        /\ UNCHANGED <<upload, server, fetch, file, ui>>
    BY <1>1, <1>3 DEF Deserialize, Source
  <2> QED
    BY <2>1, SetStep DEF NotesInv, Typed, NotesOK
<1>4. CASE Revert(a)
  <2>1. /\ original[a].text \in AllTexts /\ SetNote("ui", a, original[a].text)
        /\ Source("ui", a, original[a].text) /\ "ui" \in Threads
        /\ UNCHANGED <<upload, server, fetch, file>> /\ ui = "idle" /\ ui' = "saving"
        /\ ~refreshing
    BY <1>1, <1>4 DEF Revert, Source, load, NotesInv, Typed, NotesOK
  <2> QED
    BY <2>1, SetStep
<1>5. CASE \E text \in AllTexts : Edit(a, text)
  <2>1. PICK text \in AllTexts : Edit(a, text)
    BY <1>5
  <2>2. /\ SetNote("ui", a, text) /\ Source("ui", a, text) /\ "ui" \in Threads
        /\ UNCHANGED <<upload, server, fetch, file, ui>>
    BY <1>1, <2>1 DEF Edit, Source, load
  <2> QED
    BY <2>2, SetStep DEF NotesInv, Typed, NotesOK
<1> QED
  BY <1>2, <1>3, <1>4, <1>5

LEMMA SaveStep ==
    ASSUME NotesInv, Save \/ Published
    PROVE  NotesInv'
<1>1. /\ UNCHANGED <<note, original, pending, refreshing, fetch, replay, merging,
                     doing, upload, server, latest, raced>>
      /\ ui' \in {"idle", "saving"} /\ (upload # Idle => ui' = "publishing")
      /\ refreshing => ui' = "idle"
  BY DEF Save, Published, model, load, history, NotesInv, Phases
<1>2. file' \in [Addresses -> AllTexts \cup {NoText}]
  <2>1. CASE file' = file
    BY <2>1 DEF NotesInv, Typed, NotesOK
  <2>2. CASE file' = Serialize
    <3>1. \A a \in Addresses : TextAt(a) \in AllTexts
      BY TextTypes DEF NotesInv
    <3> QED
      BY <2>2, <3>1 DEF Serialize, Unsaved
  <2> QED
    BY <2>1, <2>2 DEF Save, Published
<1>3. Typed'
  BY <1>1, <1>2 DEF NotesInv, Typed, NotesOK, Unsaved
<1>4. Phases'
  BY <1>1 DEF NotesInv, Phases, AllIdle
<1>5. Followed'
  BY <1>1, FollowedStays DEF NotesInv
<1> QED
  BY <1>3, <1>4, <1>5 DEF NotesInv

LEMMA PublishStep ==
    ASSUME NotesInv, NEW a \in Addresses, Publish(a)
    PROVE  NotesInv'
<1>1. /\ UNCHANGED <<note, original, pending, refreshing, fetch, replay, merging,
                     doing, server, file, latest>>
      /\ ui' = "publishing" /\ original[a] # NoNote
      /\ upload' = [at |-> a, text |-> TextAt(a)]
      /\ raced' = IF \E t \in Threads : doing[t].at = a THEN raced \cup {a} ELSE raced
      /\ ~refreshing
  BY DEF Publish, model, load, NotesInv, Typed, NotesOK
<1>2. TextAt(a) \in AllTexts /\ upload' \in Upload
  <2>1. TextAt(a) \in AllTexts
    BY TextTypes DEF NotesInv
  <2> QED
    BY <1>1, <2>1 DEF Upload
<1>3. upload'.at = a /\ upload'.text = TextAt(a)
  BY <1>1
<1>4. ASSUME NEW b \in Addresses \ raced' PROVE Applied(b)'
  <2>1. Applied(b)
    BY <1>1, <1>4 DEF NotesInv, Followed
  <2>2. CASE b # a
    BY <1>1, <1>3, <2>1, <2>2, AppliedStays
  <2>3. CASE b = a
    <3>1. NobodyAt(a) /\ ~Waiting(a)
      BY <1>1, <1>4, <2>1, <2>3 DEF NobodyAt, Busy, Applied, Untouched
    <3>2. Settled(a, note[a])
      BY <2>1, <2>3, <3>1 DEF Applied, Done
    <3>3. Settled(a, note[a])' /\ NobodyAt(a)' /\ ~Waiting(a)'
      BY <1>1, <3>1, <3>2 DEF Settled, Wanted, TextOf, ServerText, Shown, NobodyAt, Busy, Waiting
    <3>4. TextAt(a)' = TextAt(a)
      BY <1>1 DEF TextAt
    <3> QED
      BY <1>1, <1>3, <2>3, <3>3, <3>4 DEF Applied, Done, NobodyAt
  <2> QED
    BY <2>2, <2>3
<1>5. Followed'
  BY <1>1, <1>4 DEF Followed
<1>6. Typed'
  BY <1>1, <1>2 DEF NotesInv, Typed, NotesOK, Unsaved
<1>7. Phases'
  BY <1>1 DEF NotesInv, Phases, AllIdle
<1> QED
  BY <1>5, <1>6, <1>7 DEF NotesInv

LEMMA RefusedStep ==
    ASSUME NotesInv, Refused
    PROVE  NotesInv'
<1>1. /\ UNCHANGED <<note, original, pending, refreshing, fetch, replay, merging,
                     doing, ui, server, file, latest, raced>>
      /\ upload' = Idle /\ upload # Idle /\ ~refreshing
  BY DEF Refused, model, load, history, NotesInv, Phases
<1>2. ASSUME NEW a \in Addresses \ raced PROVE Applied(a)'
  BY <1>1, <1>2, IdleNowhere, AppliedStays DEF NotesInv, Followed
<1>3. Followed'
  BY <1>1, <1>2 DEF Followed
<1>4. Typed'
  BY <1>1 DEF NotesInv, Typed, NotesOK, Unsaved, Upload
<1>5. Phases'
  BY <1>1 DEF NotesInv, Phases, AllIdle
<1> QED
  BY <1>3, <1>4, <1>5 DEF NotesInv

LEMMA SetServerNoteStep ==
    ASSUME NotesInv, SetServerNote
    PROVE  NotesInv'
<1>1. upload # Idle /\ ~refreshing /\ upload \in Upload
  BY DEF SetServerNote, NotesInv, Phases, Typed
<1>2. upload.at \in Addresses /\ upload.text \in AllTexts
  BY <1>1 DEF Upload
<1>3. PICK a \in Addresses : a = upload.at
  BY <1>2
<1> DEFINE text == Uploaded(a)
           n == IF note[a] # NoNote /\ note[a].text = text
                THEN IF text = Empty THEN NoNote ELSE note[a]
                ELSE By(Me, text)
           s == IF upload.text = Empty THEN NoNote ELSE By(Me, upload.text)
<1>4. /\ note \in [Addresses -> Note \cup {NoNote}]
      /\ original \in [Addresses -> Note \cup {Dummy, NoNote}]
      /\ server \in [Addresses -> [author : {Me, Other}, text : Texts] \cup {NoNote}]
  BY DEF NotesInv, Typed, NotesOK
<1>5. /\ UNCHANGED <<pending, refreshing, fetch, replay, merging, doing, ui, file, latest,
                     raced>>
      /\ upload' = Idle
      /\ server' = [server EXCEPT ![a] = s]
      /\ original' = [original EXCEPT ![a] = NoNote]
      /\ note' = [note EXCEPT ![a] = n]
  BY <1>3, <1>4 DEF SetServerNote, Modified, load
<1>6. text \in AllTexts
  BY TextTypes, NoteFacts DEF Uploaded, NotesInv
<1>7. n \in Note \cup {NoNote} /\ s \in [author : {Me, Other}, text : Texts] \cup {NoNote}
  BY <1>2, <1>4, <1>6, NoteFacts DEF By, AllTexts
<1>8. /\ note' \in [Addresses -> Note \cup {NoNote}] /\ note'[a] = n
      /\ original' \in [Addresses -> Note \cup {Dummy, NoNote}] /\ original'[a] = NoNote
      /\ server' \in [Addresses -> [author : {Me, Other}, text : Texts] \cup {NoNote}]
      /\ server'[a] = s
      /\ \A b \in Addresses : b # a => /\ note'[b] = note[b] /\ original'[b] = original[b]
                                       /\ server'[b] = server[b]
  <2> HIDE DEF n, s
  <2> QED
    BY <1>4, <1>5, <1>7
<1>9. ASSUME NEW b \in Addresses \ raced PROVE Applied(b)'
  <2>1. Applied(b)
    BY <1>1, <1>9 DEF NotesInv, Followed
  <2>2. CASE b # a
    BY <1>5, <1>8, <2>1, <2>2, IdleNowhere, AppliedStays
  <2>3. CASE b = a
    <3>1. ~Waiting(a) /\ NobodyAt(a)
      BY <1>3, <2>1, <2>3 DEF Applied, Untouched, Done, NobodyAt
    <3>2. /\ Settled(a, note[a]) /\ original[a] # NoNote /\ upload.text = TextAt(a)
          /\ latest[a] # NoText
      BY <1>3, <2>1, <2>3, <3>1 DEF Applied, Done, Settled
    <3>3. text = TextAt(a) /\ TextAt(a) = TextOf(note[a]) /\ latest[a] = text
      BY <3>2, TextsOf DEF Uploaded, Settled, Wanted
    <3>4. TextOf(n) = text
      BY <1>6, <3>3, NoteFacts DEF TextOf
    <3>5. Shown(n) = Shown(s)
      <4>1. CASE text = Empty
        <5>1. s = NoNote /\ (n = NoNote \/ n = By(Me, Empty))
          BY <3>2, <3>3, <4>1
        <5> QED
          BY <5>1, NoteFacts DEF Shown
      <4>2. CASE text # Empty
        <5>1. note[a] # NoNote /\ note[a].text = text /\ note[a].author = Me
          BY <3>2, <3>3, <4>2 DEF TextOf, Settled
        <5>2. note[a] = By(Me, text)
          BY <1>4, <5>1 DEF Note, By
        <5>3. n = By(Me, text) /\ s = By(Me, text)
          BY <3>2, <3>3, <4>2, <5>1, <5>2
        <5> QED
          BY <5>3
      <4> QED
        BY <4>1, <4>2
    <3> HIDE DEF n, s, text
    <3>6. Settled(a, note[a])'
      BY <1>5, <1>8, <3>2, <3>3, <3>4, <3>5 DEF Settled, Wanted, TextOf, Shown
    <3>7. NobodyAt(a)' /\ ~Waiting(a)' /\ upload'.at # a
      BY <1>5, <3>1, IdleNowhere DEF NobodyAt, Busy, Waiting
    <3> QED
      BY <2>3, <3>6, <3>7 DEF Applied, Done, NobodyAt
  <2> QED
    BY <2>2, <2>3
<1>10. Followed'
  BY <1>1, <1>5, <1>9 DEF Followed
<1>11. Typed'
  BY <1>1, <1>5, <1>8 DEF NotesInv, Typed, NotesOK, Unsaved, Upload
<1>12. Phases'
  BY <1>1, <1>5 DEF NotesInv, Phases
<1> QED
  BY <1>10, <1>11, <1>12 DEF NotesInv

\* The model is new.
LEMMA NewModel ==
    ASSUME note' = [a \in Addresses |-> NoNote], original' = [a \in Addresses |-> NoNote],
           pending' = Unsaved, refreshing' = TRUE,
           fetch' = [at |-> "asked", left |-> {}, ok |-> FALSE],
           replay' = Unsaved, merging' = latest', doing' = [t \in Threads |-> Idle],
           ui' = "idle", upload' = Idle, raced' = {},
           latest' \in [Addresses -> AllTexts \cup {NoText}],
           file' \in [Addresses -> AllTexts \cup {NoText}],
           server' \in [Addresses -> [author : {Me, Other}, text : Texts] \cup {NoNote}]
    PROVE  NotesInv'
<1>1. Unsaved \in [Addresses -> AllTexts \cup {NoText}] /\ \A a \in Addresses : Unsaved[a] = NoText
  BY DEF Unsaved
<1>2. Typed'
  BY <1>1 DEF Typed, NotesOK, Doing, Upload
<1>3. \A t \in Threads : doing'[t] = Idle
  OBVIOUS
<1>4. Phases'
  BY <1>3 DEF Phases, Threads
<1>5. \A a \in Addresses : ~Busy("answer", a)'
  BY <1>3, IdleNowhere DEF Busy, Threads
<1>6. \A a \in Addresses : Fetching(a)' /\ PutAside(a)'
  BY <1>1, <1>5 DEF Fetching, Answered, PutAside
<1>7. Followed'
  BY <1>6 DEF Followed
<1> QED
  BY <1>2, <1>4, <1>7 DEF NotesInv

LEMMA RestartStep ==
    ASSUME NotesInv, Restart
    PROVE  NotesInv'
<1>1. /\ file' = file /\ latest' = file /\ merging' = file
      /\ file \in [Addresses -> AllTexts \cup {NoText}]
      /\ server \in [Addresses -> [author : {Me, Other}, text : Texts] \cup {NoNote}]
  BY DEF Restart, NotesInv, Typed, NotesOK
<1>2. server' \in [Addresses -> [author : {Me, Other}, text : Texts] \cup {NoNote}]
  <2>1. CASE server' = server
    BY <1>1, <2>1
  <2>2. CASE \E a \in Addresses, t \in Texts : server' = [server EXCEPT ![a] = By(Other, t)]
    BY <1>1, <2>2 DEF By
  <2> QED
    BY <2>1, <2>2 DEF Restart
<1> QED
  BY <1>1, <1>2, NewModel DEF Restart

LEMMA NotesStep ==
    ASSUME NotesInv, [Next]_vars
    PROVE  NotesInv'
<1>1. CASE Fetched \/ NotFetched \/ EndRefresh
  BY <1>1, AnswerStep, EndRefreshStep
<1>2. CASE \E a \in Addresses : ApplyFetched(a)
  BY <1>2, ApplyFetchedStep
<1>3. CASE \/ \E a \in Addresses : Replay(a) \/ Deserialize(a)
           \/ \E a \in Addresses, text \in AllTexts : Edit(a, text)
           \/ \E a \in Addresses : Revert(a)
  BY <1>3, SetsStep
<1>4. CASE \E t \in Threads : AddMemoryNote(t)
  BY <1>4, AddMemoryNoteStep
<1>5. CASE (\E a \in Addresses : Publish(a)) \/ SetServerNote \/ Refused
  BY <1>5, PublishStep, SetServerNoteStep, RefusedStep
<1>6. CASE Published \/ Save \/ Restart
  BY <1>6, SaveStep, RestartStep
<1>7. CASE UNCHANGED vars \/ \E t \in Tellers : LookForModified(t) \/ SetChanges(t)
  <2>1. UNCHANGED <<note, original, pending, refreshing, fetch, replay, merging,
                    doing, ui, upload, server, file, latest, raced>>
    BY <1>7 DEF LookForModified, SetChanges, vars, model, load, history
  <2>2. Followed' /\ Typed'
    BY <2>1, FollowedStays DEF NotesInv, Typed, NotesOK, Unsaved
  <2>3. Phases'
    BY <2>1 DEF NotesInv, Phases, AllIdle
  <2> QED
    BY <2>2, <2>3 DEF NotesInv
<1> QED
  BY <1>1, <1>2, <1>3, <1>4, <1>5, <1>6, <1>7 DEF Next

-----------------------------------------------------------------------------
(* Changes                                                                 *)

\* Nothing is modified otherwise, nobody looks, and nobody sets Changes.
LEMMA ToldStays ==
    ASSUME Told, UNCHANGED <<original, changes, mutex, telling, overtaken, outdated>>,
           AllIdle' => AllIdle
    PROVE  Told'
BY DEF Told, ChangesOK, ChangesOf, AllTold

\* Something may be modified by a thread that has still to look.
LEMMA ToldModified ==
    ASSUME Told, ChangesOK', NEW originals, Modified(originals), UNCHANGED outdated,
           ~AllIdle' \/ ~AllTold',
           \A t \in Tellers : telling'[t] \in Values => telling'[t] = telling[t]
    PROVE  Told'
<1>1. ASSUME NEW t \in Tellers \ overtaken', telling'[t] \in Values
      PROVE  telling'[t] = ChangesOf(original')
  <2>1. telling'[t] = telling[t] /\ t \notin overtaken
    BY <1>1 DEF Modified
  <2>2. originals = original
    BY <1>1, <2>1 DEF Modified
  <2> QED
    BY <1>1, <2>1, <2>2 DEF Told, Modified
<1>2. ChangesOf(original)' = ChangesOf(original')
  BY DEF ChangesOf
<1> QED
  BY <1>1, <1>2 DEF Told

LEMMA ChangesTypes == \A originals : ChangesOf(originals) \in Values
BY DEF ChangesOf, Values

LEMMA SetTold ==
    ASSUME IInv, NEW t \in Threads, NEW a \in Addresses, NEW text \in AllTexts,
           SetNote(t, a, text)
    PROVE  Told'
<1> DEFINE fresh == IF note[a] = NoNote THEN Dummy ELSE note[a]
           restored == original[a] # NoNote /\ original[a].text = text
           tracked == [original EXCEPT ![a] = IF restored THEN NoNote
                                              ELSE IF @ = NoNote THEN fresh ELSE @]
           author == IF restored /\ original[a].author # "" THEN original[a].author ELSE Me
<1>1. /\ telling \in [Tellers -> Values \cup {"no", "look"}] /\ t \in Tellers
      /\ overtaken \subseteq Tellers
      /\ doing \in [Threads -> Doing] /\ telling[t] = "no"
  BY DEF SetNote, Free, IInv, NotesInv, Typed, Told, ChangesOK, Tellers
<1>2. UNCHANGED <<changes, outdated>>
  BY DEF SetNote
<1>3. CASE UNCHANGED <<original, doing, telling, mutex, overtaken>>
  BY <1>2, <1>3, ToldStays DEF IInv, AllIdle
<1>4. CASE Modified(tracked) /\ UNCHANGED doing
           /\ telling' = [telling EXCEPT ![t] = "look"] /\ mutex' = t
  <2> HIDE DEF tracked
  <2>1. /\ telling'[t] = "look" /\ telling' \in [Tellers -> Values \cup {"no", "look"}]
        /\ \A u \in Tellers : u # t => telling'[u] = telling[u]
    BY <1>1, <1>4
  <2>2. overtaken' \subseteq Tellers
    BY <1>1, <1>4 DEF Modified
  <2>3. ChangesOK' /\ ~AllTold'
    BY <1>1, <1>2, <1>4, <2>1, <2>2 DEF IInv, Told, ChangesOK, AllTold
  <2> QED
    BY <1>2, <1>4, <2>1, <2>3, ToldModified DEF IInv, Values
<1>5. CASE Modified(tracked) /\ UNCHANGED <<telling, mutex>>
           /\ doing' = [doing EXCEPT ![t] = Set(a, By(author, text))]
  <2> HIDE DEF tracked, author
  <2>1. doing'[t].at = a
    BY <1>1, <1>5 DEF Set
  <2>2. ~AllIdle'
    BY <2>1, IdleNowhere DEF AllIdle
  <2>3. ChangesOK'
    BY <1>1, <1>2, <1>5 DEF IInv, Told, ChangesOK, Modified
  <2> QED
    BY <1>2, <1>5, <2>2, <2>3, ToldModified DEF IInv
<1> QED
  BY <1>3, <1>4, <1>5 DEF SetNote

LEMMA SetServerNoteTold ==
    ASSUME IInv, SetServerNote
    PROVE  Told'
<1> DEFINE tracked == [original EXCEPT ![upload.at] = NoNote]
<1>1. /\ Modified(tracked) /\ UNCHANGED <<mutex, outdated>>
      /\ telling' = [telling EXCEPT !["upload"] = "look"]
      /\ changes' \in {"None", changes}
  BY DEF SetServerNote
<1> HIDE DEF tracked
<1>2. /\ telling \in [Tellers -> Values \cup {"no", "look"}] /\ "upload" \in Tellers
      /\ overtaken \subseteq Tellers
  BY DEF IInv, Told, ChangesOK, Tellers
<1>3. /\ telling'["upload"] = "look" /\ telling' \in [Tellers -> Values \cup {"no", "look"}]
      /\ \A u \in Tellers : u # "upload" => telling'[u] = telling[u]
  BY <1>1, <1>2
<1>4. overtaken' \subseteq Tellers
  BY <1>1, <1>2 DEF Modified
<1>5. ChangesOK' /\ ~AllTold'
  BY <1>1, <1>2, <1>3, <1>4 DEF IInv, Told, ChangesOK, AllTold, Values
<1> QED
  BY <1>1, <1>3, <1>5, ToldModified DEF IInv, Values

LEMMA LookTold ==
    ASSUME IInv, NEW t \in Tellers, LookForModified(t) \/ SetChanges(t)
    PROVE  Told'
<1>1. /\ telling \in [Tellers -> Values \cup {"no", "look"}] /\ overtaken \subseteq Tellers
      /\ changes \in Values /\ mutex \in Threads \cup {NoNote} /\ outdated \in BOOLEAN
  BY DEF IInv, Told, ChangesOK
<1>2. UNCHANGED <<original, doing>> /\ ChangesOf(original)' = ChangesOf(original)
  BY DEF LookForModified, SetChanges, model, ChangesOf
<1>3. CASE LookForModified(t)
  <2>1. /\ telling' = [telling EXCEPT ![t] = ChangesOf(original)]
        /\ UNCHANGED <<changes, mutex, overtaken, outdated>>
    BY <1>3 DEF LookForModified, model, history, told
  <2>2. /\ telling'[t] = ChangesOf(original) /\ telling'[t] \in Values
        /\ telling' \in [Tellers -> Values \cup {"no", "look"}]
        /\ \A u \in Tellers : u # t => telling'[u] = telling[u]
    BY <1>1, <2>1, ChangesTypes
  <2>3. ~AllTold'
    BY <2>2 DEF AllTold, Values
  <2> QED
    BY <1>1, <1>2, <2>1, <2>2, <2>3 DEF IInv, Told, ChangesOK
<1>4. CASE SetChanges(t)
  <2>1. /\ telling[t] \in Values /\ changes' = telling[t]
        /\ telling' = [telling EXCEPT ![t] = "no"]
        /\ mutex' \in {mutex, NoNote}
        /\ overtaken' = overtaken \ {t} /\ outdated' = (t \in overtaken)
    BY <1>4 DEF SetChanges
  <2>2. /\ telling'[t] = "no" /\ telling' \in [Tellers -> Values \cup {"no", "look"}]
        /\ \A u \in Tellers : u # t => telling'[u] = telling[u]
    BY <1>1, <2>1
  <2>3. ~outdated' => changes' = ChangesOf(original)
    BY <2>1 DEF IInv, Told
  <2>4. ChangesOK'
    BY <1>1, <2>1, <2>2 DEF ChangesOK
  <2>5. \A u \in Tellers \ overtaken' :
           telling'[u] \in Values => telling'[u] = ChangesOf(original)
    BY <2>1, <2>2 DEF IInv, Told, Values
  <2> QED
    BY <1>2, <2>3, <2>4, <2>5 DEF Told
<1> QED
  BY <1>3, <1>4

LEMMA AddTold ==
    ASSUME IInv, NEW t \in Threads, AddMemoryNote(t)
    PROVE  Told'
<1>1. /\ telling' = [telling EXCEPT ![t] = "look"] /\ t \in Tellers
      /\ UNCHANGED <<original, changes, mutex, overtaken, outdated>>
      /\ telling \in [Tellers -> Values \cup {"no", "look"}]
  BY DEF AddMemoryNote, history, told, IInv, Told, ChangesOK, Tellers
<1>2. /\ telling'[t] = "look" /\ telling' \in [Tellers -> Values \cup {"no", "look"}]
      /\ \A u \in Tellers : u # t => telling'[u] = telling[u]
  BY <1>1
<1>3. ~AllTold' /\ ChangesOf(original)' = ChangesOf(original)
  BY <1>1, <1>2 DEF AllTold, ChangesOf
<1> QED
  BY <1>1, <1>2, <1>3 DEF IInv, Told, ChangesOK, Values

LEMMA NewTold ==
    ASSUME original = [a \in Addresses |-> NoNote], changes = "None", mutex = NoNote,
           telling = [t \in Tellers |-> "no"], overtaken = {}, outdated = FALSE
    PROVE  Told
BY DEF Told, ChangesOK, ChangesOf, Values

LEMMA NewTolds ==
    ASSUME original' = [a \in Addresses |-> NoNote], changes' = "None", mutex' = NoNote,
           telling' = [t \in Tellers |-> "no"], overtaken' = {}, outdated' = FALSE
    PROVE  Told'
BY DEF Told, ChangesOK, ChangesOf, Values

LEMMA ChangesStep ==
    ASSUME IInv, [Next]_vars
    PROVE  Told'
<1>1. CASE \/ Fetched \/ NotFetched \/ EndRefresh \/ Save \/ Refused \/ Published
           \/ \E a \in Addresses : Publish(a)
           \/ UNCHANGED vars
  <2>1. UNCHANGED <<original, changes, mutex, telling, overtaken, outdated, doing>>
    BY <1>1 DEF Fetched, NotFetched, Answer, EndRefresh, Save, Refused, Published, Publish,
                vars, model, history, told
  <2> QED
    BY <2>1, ToldStays DEF IInv, AllIdle
<1>2. CASE \E a \in Addresses : ApplyFetched(a)
  <2>1. PICK a \in Addresses : ApplyFetched(a)
    BY <1>2
  <2>2. original[a] = NoNote
    BY <2>1 DEF ApplyFetched, IInv, NotesInv, Typed, NotesOK, Phases
  <2>3. /\ UNCHANGED <<original, changes, mutex, telling, overtaken, outdated>>
        /\ doing' = [doing EXCEPT !["answer"] = Set(a, server[a])]
        /\ doing \in [Threads -> Doing] /\ "answer" \in Threads
    BY <2>1, <2>2 DEF ApplyFetched, history, told, Threads, IInv, NotesInv, Typed
  <2>4. doing'["answer"].at = a
    BY <2>3 DEF Set
  <2>5. ~AllIdle'
    BY <2>3, <2>4, IdleNowhere DEF AllIdle
  <2> QED
    BY <2>3, <2>5, ToldStays DEF IInv
<1>3. CASE \/ \E a \in Addresses : Replay(a) \/ Deserialize(a) \/ Revert(a)
           \/ \E a \in Addresses, text \in AllTexts : Edit(a, text)
  <2>1. \E t \in Threads, a \in Addresses, text \in AllTexts : SetNote(t, a, text)
    <3>1. \A a \in Addresses : /\ original[a] # NoNote => original[a].text \in AllTexts
                               /\ replay[a] # NoText => replay[a] \in AllTexts
                               /\ merging[a] # NoText => merging[a] \in AllTexts
      BY TextTypes DEF IInv, NotesInv, Typed, NotesOK
    <3>2. "ui" \in Threads /\ "answer" \in Threads /\ "loader" \in Threads
      BY DEF Threads
    <3> QED
      BY <1>3, <3>1, <3>2 DEF Replay, Deserialize, Revert, Edit
  <2> QED
    BY <2>1, SetTold
<1>4. CASE \E t \in Threads : AddMemoryNote(t)
  BY <1>4, AddTold
<1>5. CASE \E t \in Tellers : LookForModified(t) \/ SetChanges(t)
  BY <1>5, LookTold
<1>6. CASE SetServerNote
  BY <1>6, SetServerNoteTold
<1>7. CASE Restart
  <2>1. /\ original' = [a \in Addresses |-> NoNote] /\ changes' = "None" /\ mutex' = NoNote
        /\ telling' = [t \in Tellers |-> "no"] /\ overtaken' = {} /\ outdated' = FALSE
    BY <1>7 DEF Restart
  <2> QED
    BY <2>1, NewTolds
<1> QED
  BY <1>1, <1>2, <1>3, <1>4, <1>5, <1>6, <1>7 DEF Next

LEMMA NewModelInit ==
    ASSUME NEW s \in [Addresses -> {NoNote} \cup {By(Other, t) : t \in Texts}],
           Loaded(Unsaved, s)
    PROVE  NotesInv
<1>1. Unsaved \in [Addresses -> AllTexts \cup {NoText}] /\ \A a \in Addresses : Unsaved[a] = NoText
  BY DEF Unsaved
<1>2. server \in [Addresses -> [author : {Me, Other}, text : Texts] \cup {NoNote}]
  BY DEF Loaded, By
<1>3. Typed
  BY <1>1, <1>2 DEF Loaded, Typed, NotesOK, Doing, Upload
<1>4. \A t \in Threads : doing[t] = Idle
  BY DEF Loaded
<1>5. Phases
  BY <1>4 DEF Loaded, Phases, Threads
<1>6. \A a \in Addresses : ~Busy("answer", a)
  BY <1>4, IdleNowhere DEF Busy, Threads
<1>7. \A a \in Addresses : Fetching(a) /\ PutAside(a)
  BY <1>1, <1>6 DEF Loaded, Fetching, Answered, PutAside
<1>8. Followed
  BY <1>7 DEF Loaded, Followed
<1> QED
  BY <1>3, <1>5, <1>8 DEF NotesInv

LEMMA Invariance == Spec => []IInv
<1>1. Init => IInv
  BY NewModelInit, NewTold DEF Init, Loaded, IInv
<1>2. IInv /\ [Next]_vars => IInv'
  BY NotesStep, ChangesStep DEF IInv
<1> QED
  BY <1>1, <1>2, PTL DEF Spec

\* The types of the members of MemoryNotesModel; nothing is put aside once the answer
\* was applied, and nothing is modified before.
THEOREM TypeCorrect == Spec => []TypeOK
<1>1. IInv => TypeOK
  BY DEF IInv, NotesInv, Typed, Told, TypeOK
<1> QED
  BY <1>1, Invariance, PTL

\* When nothing is under way, an address that was not changed twice at once is settled.
LEMMA QuietSettled ==
    ASSUME IInv, Quiet, NEW a \in Addresses \ raced
    PROVE  /\ Settled(a, note[a]) /\ TextAt(a) = TextOf(note[a])
           /\ ~outdated => changes = ChangesOf(original)
<1>1. ~refreshing /\ (~outdated => changes = ChangesOf(original))
  BY DEF IInv, NotesInv, Phases, Quiet, AllIdle, Told, AllTold
<1>2. ~Waiting(a) /\ NobodyAt(a)
  BY IdleNowhere DEF Quiet, Waiting, Unsaved, NobodyAt, Busy
<1> QED
  BY <1>1, <1>2, TextsOf DEF IInv, NotesInv, Followed, Applied, Done

\* SetNote, Refresh and Deserialize: the text that was set last, before, while or after
\* the notes were fetched, is the text of the note.
THEOREM LastAlwaysWins == Spec => []LastSetWins
<1>1. ASSUME IInv PROVE LastSetWins
  BY <1>1, QuietSettled DEF LastSetWins, Settled
<1> QED
  BY <1>1, Invariance, PTL

\* m_mOriginalNotes: what is not in it is as on the server, and what is has the
\* server's note as its original.
THEOREM UnmodifiedAlwaysServers == Spec => []UnmodifiedIsServers
<1>1. ASSUME IInv PROVE UnmodifiedIsServers
  BY <1>1, QuietSettled DEF UnmodifiedIsServers, Settled
<1> QED
  BY <1>1, Invariance, PTL

\* Serialize, from m_mOriginalNotes: the file gets what the server does not have.
THEOREM SavedAlwaysComplete == Spec => SavedNotesComplete
<1>1. ASSUME IInv, [Next]_vars
      PROVE  Save /\ Quiet /\ fetch.ok /\ ~outdated =>
                \A a \in Addresses \ raced :
                    file'[a] = IF Wanted(a) = ServerText(a) THEN NoText ELSE Wanted(a)
  <2> SUFFICES ASSUME Save, Quiet, fetch.ok, ~outdated, NEW a \in Addresses \ raced
               PROVE  file'[a] = IF Wanted(a) = ServerText(a) THEN NoText ELSE Wanted(a)
    OBVIOUS
  <2>1. /\ Settled(a, note[a]) /\ TextAt(a) = TextOf(note[a]) /\ changes = ChangesOf(original)
    BY <1>1, QuietSettled
  <2>2. file'[a] = IF original[a] = NoNote THEN NoText ELSE TextAt(a)
    <3>1. CASE changes = "None"
      <4>1. original[a] = NoNote
        BY <2>1, <3>1 DEF ChangesOf
      <4> QED
        BY <3>1, <4>1 DEF Save, Serialize, Unsaved
    <3>2. CASE changes # "None"
      BY <3>2 DEF Save, Serialize
    <3> QED
      BY <3>1, <3>2
  <2>3. CASE original[a] = NoNote
    BY <2>1, <2>2, <2>3, SameText, TextsOf DEF Settled
  <2>4. CASE original[a] # NoNote
    BY <2>1, <2>2, <2>4 DEF Settled
  <2> QED
    BY <2>3, <2>4
<1> QED
  BY <1>1, Invariance, PTL DEF Spec, SavedNotesComplete
=============================================================================
