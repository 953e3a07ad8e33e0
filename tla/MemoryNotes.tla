---------------------------- MODULE MemoryNotes ----------------------------
(***************************************************************************)
(* The notes about addresses of the loaded game: MemoryNotesModel.  When   *)
(* the game is loaded the notes are fetched from the server, while the     *)
(* loader merges the modifications that the user saved to a file and the   *)
(* user may already edit notes.  What is set before the answer is put      *)
(* aside and applied after it.  Later a modified note can be reverted or   *)
(* published.                                                              *)
(*                                                                         *)
(* SetNote takes the mutex of the model twice: to decide and to look after *)
(* the original of the note, and to replace the note.  After that, without *)
(* the mutex, it looks whether anything is modified, and sets Changes.  So *)
(* the threads that set notes interleave between these four steps.         *)
(***************************************************************************)
EXTENDS Naturals, FiniteSets

CONSTANTS
    Addresses,
    Texts,      \* texts other than the empty one
    Me,         \* the user
    Other,      \* another author
    NoNote,     \* no note, or none that is kept track of
    NoText,
    MaxLoads,   \* bounds how often the game is loaded again
    MaxSteps    \* bounds what the user does with a note

VARIABLES
    note,       \* m_vMemoryNotes
    original,   \* m_mOriginalNotes: the originals of what was modified
    pending,    \* m_mPendingNotes: what was set before the answer
    refreshing, \* m_bRefreshing
    changes,    \* the property Changes of the model
    mutex,      \* the thread that holds m_oMutex from one step to the next
    fetch,      \* how far the answer is applied, and to which addresses
    replay,     \* the copy of the pending notes that the answer applies
    merging,    \* the notes of the file that the loader has not merged
    doing,      \* for each thread, the note it is about to replace
    telling,    \* for each thread, how far OnMemoryNoteChanged is, and what it saw
    ui,         \* what the user is doing
    upload,     \* the note being published, and what was sent
    server,     \* the notes of the server
    file,       \* the notes in the file of the user
    latest,     \* history: the text that the user, or the file, set last
    raced,      \* history: addresses that two threads changed at once
    overtaken,  \* history: the threads that saw what was modified before it changed
    outdated,   \* history: such a thread was the last that set Changes
    loads,      \* counts down from MaxLoads
    steps       \* counts down from MaxSteps

model == <<note, original, pending, refreshing, changes>>
load == <<fetch, replay, merging>>
told == <<overtaken, outdated>>
history == <<latest, raced, told>>
bounds == <<loads, steps>>
vars == <<model, mutex, load, doing, telling, ui, upload, server, file, history, bounds>>

-----------------------------------------------------------------------------
Empty == ""
AllTexts == Texts \cup {Empty}
Note == [author : {Me, Other}, text : AllTexts]
By(author, text) == [author |-> author, text |-> text]

\* An original for a note that did not exist, so that it appears modified
Dummy == [author |-> "", text |-> Empty]
Unsaved == [a \in Addresses |-> NoText]

ASSUME NotesAssumption ==
    /\ Empty \notin Texts /\ NoText \notin AllTexts
    /\ NoNote \notin Note \cup {Dummy} \cup Addresses
    /\ "" \notin {Me, Other}

Threads == {"ui", "answer", "loader"}

\* The thread that publishes sets Changes as well.
Tellers == Threads \cup {"upload"}
Values == {"None", "Unpublished"}
Idle == [at |-> NoNote, text |-> NoText]
Set(a, t) == [at |-> a, text |-> t.text, author |-> t.author]

Free(t) == doing[t] = Idle /\ telling[t] = "no"
Unlocked == mutex = NoNote

\* The model is new: its notes are asked for and the loader reads the file.
Loaded(f, s) ==
    /\ note = [a \in Addresses |-> NoNote]
    /\ original = [a \in Addresses |-> NoNote]
    /\ pending = Unsaved /\ refreshing = TRUE /\ changes = "None"
    /\ fetch = [at |-> "asked", left |-> {}, ok |-> FALSE] /\ replay = Unsaved
    /\ merging = f
    /\ mutex = NoNote
    /\ doing = [t \in Threads |-> Idle] /\ telling = [t \in Tellers |-> "no"]
    /\ ui = "idle" /\ upload = Idle
    /\ latest = f /\ raced = {} /\ overtaken = {} /\ outdated = FALSE
    /\ loads = MaxLoads /\ steps = MaxSteps
    /\ server = s /\ file = f

\* The server has notes of others.
Init ==
    \E s \in [Addresses -> {NoNote} \cup {By(Other, t) : t \in Texts}] :
        Loaded(Unsaved, s)

-----------------------------------------------------------------------------
(* Setting a note                                                          *)

TextAt(a) == IF note[a] = NoNote THEN Empty ELSE note[a].text

\* What another thread is about to change, or will set again, is changed twice
\* at once.
Racing(t, a) ==
    \/ ~refreshing /\ \E u \in Threads \ {t} : doing[u].at = a
    \/ t # "answer" /\ replay[a] # NoText
    \/ t = "ui" /\ merging[a] # NoText
    \/ upload.at = a

\* Called by anyone but the loader or the answer, it is a change by the user.
Recorded(t, a, text) ==
    /\ latest' = IF t = "ui" THEN [latest EXCEPT ![a] = text] ELSE latest
    /\ raced' = IF Racing(t, a) THEN raced \cup {a} ELSE raced

\* Who has seen what is modified, and has not set Changes yet, is overtaken.
Modified(originals) ==
    /\ original' = originals
    /\ overtaken' = IF originals = original THEN overtaken
                    ELSE overtaken \cup {t \in Tellers : telling[t] \in Values}

ChangesOf(originals) ==
    IF \A a \in Addresses : originals[a] = NoNote THEN "None" ELSE "Unpublished"

\* Variant: what is set is not put aside.
SetNoteNow(t, a, text) ==
    /\ Free(t) /\ Unlocked
    /\ Recorded(t, a, text)
    /\ IF TextAt(a) = text
       THEN UNCHANGED <<model, doing, overtaken>>
       ELSE /\ Modified(IF original[a] # NoNote THEN original
                        ELSE [original EXCEPT ![a] =
                                  IF note[a] = NoNote THEN Dummy ELSE note[a]])
            /\ doing' = [doing EXCEPT ![t] = Set(a, By(Me, text))]
            /\ UNCHANGED <<note, pending, refreshing, changes>>
    /\ UNCHANGED <<mutex, telling, outdated>>

\* Variant: a note that gets its original text back stays the user's.
SetNoteKeepsAuthor(t, a, text) ==
    /\ Free(t) /\ Unlocked
    /\ Recorded(t, a, text)
    /\ IF refreshing
       THEN /\ pending' = [pending EXCEPT ![a] = text]
            /\ UNCHANGED <<note, original, refreshing, changes, doing, overtaken>>
       ELSE IF TextAt(a) = text
       THEN UNCHANGED <<model, doing, overtaken>>
       ELSE /\ Modified([original EXCEPT ![a] =
                    IF @ = NoNote THEN IF note[a] = NoNote THEN Dummy ELSE note[a]
                    ELSE IF @.text = text THEN NoNote ELSE @])
            /\ doing' = [doing EXCEPT ![t] = Set(a, By(Me, text))]
            /\ UNCHANGED <<note, pending, refreshing, changes>>
    /\ UNCHANGED <<mutex, telling, outdated>>

\* MemoryNotesModel::SetNote, its first section: what is set before the answer
\* is put aside.  The original of a note is captured when the note is first
\* modified, and dropped when the note gets the same text again.  A note that did
\* not exist is removed again, and then OnMemoryNoteChanged runs with the mutex.
SetNote(t, a, text) ==
    /\ Free(t) /\ Unlocked
    /\ Recorded(t, a, text)
    /\ LET fresh == IF note[a] = NoNote THEN Dummy ELSE note[a]
           restored == original[a] # NoNote /\ original[a].text = text
           tracked == [original EXCEPT ![a] = IF restored THEN NoNote
                                              ELSE IF @ = NoNote THEN fresh ELSE @]
           author == IF restored /\ original[a].author # "" THEN original[a].author
                                                            ELSE Me
       IN
       \/ /\ refreshing
          /\ pending' = [pending EXCEPT ![a] = text]
          /\ UNCHANGED <<note, original, refreshing, doing, telling, mutex, overtaken>>
       \/ /\ ~refreshing
          /\ TextAt(a) = text
          /\ UNCHANGED <<note, original, pending, refreshing, doing, telling, mutex,
                         overtaken>>
       \/ /\ ~refreshing
          /\ TextAt(a) # text
          /\ Modified(tracked)
          /\ IF restored /\ text = Empty
             THEN /\ note' = [note EXCEPT ![a] = NoNote]
                  /\ telling' = [telling EXCEPT ![t] = "look"] /\ mutex' = t
                  /\ UNCHANGED doing
             ELSE /\ doing' = [doing EXCEPT ![t] = Set(a, By(author, text))]
                  /\ UNCHANGED <<note, telling, mutex>>
          /\ UNCHANGED <<pending, refreshing>>
    /\ UNCHANGED <<changes, outdated>>

\* Variant: a replaced note does not count as a change of the model.
AddMemoryNoteQuietly(t) ==
    /\ doing[t] # Idle /\ Unlocked
    /\ note' = [note EXCEPT ![doing[t].at] = By(doing[t].author, doing[t].text)]
    /\ doing' = [doing EXCEPT ![t] = Idle]
    /\ UNCHANGED <<telling, mutex, original, pending, refreshing, changes, load, ui,
                   upload, server, file, history, bounds>>

\* The second section: MemoryNotesModel::AddMemoryNote
AddMemoryNote(t) ==
    /\ doing[t] # Idle /\ Unlocked
    /\ note' = [note EXCEPT ![doing[t].at] = By(doing[t].author, doing[t].text)]
    /\ doing' = [doing EXCEPT ![t] = Idle]
    /\ telling' = [telling EXCEPT ![t] = "look"]
    /\ UNCHANGED <<mutex, original, pending, refreshing, changes, load, ui, upload,
                   server, file, history, bounds>>

\* MemoryNotesModel::OnMemoryNoteChanged looks whether anything is modified ...
LookForModified(t) ==
    /\ telling[t] = "look"
    /\ telling' = [telling EXCEPT ![t] = ChangesOf(original)]
    /\ UNCHANGED <<model, mutex, load, doing, ui, upload, server, file, history, bounds>>

\* ... and sets Changes, both without the mutex unless its caller holds it.
SetChanges(t) ==
    /\ telling[t] \in Values
    /\ changes' = telling[t]
    /\ telling' = [telling EXCEPT ![t] = "no"]
    /\ mutex' = IF mutex = t THEN NoNote ELSE mutex
    /\ overtaken' = overtaken \ {t} /\ outdated' = (t \in overtaken)
    /\ UNCHANGED <<note, original, pending, refreshing, load, doing, ui, upload,
                   server, file, latest, raced, bounds>>

-----------------------------------------------------------------------------
(* Loading the notes                                                       *)

\* The answer comes, or an error.
Answer(known, ok) ==
    /\ fetch.at = "asked"
    /\ fetch' = [at |-> "notes", left |-> known, ok |-> ok]
    /\ UNCHANGED <<model, mutex, replay, merging, doing, telling, ui, upload, server,
                   file, history, bounds>>

Fetched == Answer({a \in Addresses : server[a] # NoNote}, TRUE)
NotFetched == Answer({}, FALSE)

\* A note of the answer is added, unless the address is modified.
ApplyFetched(a) ==
    /\ fetch.at = "notes" /\ a \in fetch.left /\ Free("answer") /\ Unlocked
    /\ fetch' = [fetch EXCEPT !.left = @ \ {a}]
    /\ IF original[a] # NoNote
       THEN original' = [original EXCEPT ![a] = server[a]] /\ UNCHANGED doing
       ELSE /\ doing' = [doing EXCEPT !["answer"] = Set(a, server[a])]
            /\ UNCHANGED original
    /\ UNCHANGED <<note, pending, refreshing, changes, mutex, telling, replay, merging,
                   ui, upload, server, file, history, bounds>>

\* Variant: what was put aside is not cleared.
EndRefreshKeepsPending ==
    /\ fetch.at = "notes" /\ fetch.left = {} /\ Free("answer") /\ Unlocked
    /\ replay' = pending /\ refreshing' = FALSE
    /\ fetch' = [fetch EXCEPT !.at = "replay"]
    /\ UNCHANGED <<note, original, pending, changes, mutex, merging, doing, telling, ui,
                   upload, server, file, history, bounds>>

\* What was put aside is taken out, and from now on notes are set directly.
EndRefresh ==
    /\ fetch.at = "notes" /\ fetch.left = {} /\ Free("answer") /\ Unlocked
    /\ replay' = pending /\ pending' = Unsaved /\ refreshing' = FALSE
    /\ fetch' = [fetch EXCEPT !.at = "replay"]
    /\ UNCHANGED <<note, original, changes, mutex, merging, doing, telling, ui, upload,
                   server, file, history, bounds>>

\* The answer applies what was put aside.
Replay(a) ==
    /\ fetch.at = "replay" /\ replay[a] # NoText
    /\ SetNote("answer", a, replay[a])
    /\ replay' = [replay EXCEPT ![a] = NoText]
    /\ UNCHANGED <<fetch, merging, ui, upload, server, file, bounds>>

\* MemoryNotesModel::Deserialize, for one note of the file
Deserialize(a) ==
    /\ merging[a] # NoText
    /\ SetNote("loader", a, merging[a])
    /\ merging' = [merging EXCEPT ![a] = NoText]
    /\ UNCHANGED <<fetch, replay, ui, upload, server, file, bounds>>

-----------------------------------------------------------------------------
(* The user                                                                *)

Step == steps > 0 /\ steps' = steps - 1 /\ UNCHANGED loads

\* In the inspector, or in any window while a note is published
Edit(a, text) ==
    /\ ui \in {"idle", "publishing"}
    /\ SetNote("ui", a, text)
    /\ Step
    /\ UNCHANGED <<load, ui, upload, server, file>>

\* MemoryNotesViewModel::RevertSelected, which saves at the end
Revert(a) ==
    /\ ui = "idle" /\ original[a] # NoNote
    /\ SetNote("ui", a, original[a].text)
    /\ ui' = "saving"
    /\ Step
    /\ UNCHANGED <<load, upload, server, file>>

\* MemoryNotesModel::Serialize, if GameAssets::SaveAssets finds a change
Serialize ==
    IF changes = "None" THEN Unsaved
    ELSE [a \in Addresses |-> IF original[a] = NoNote THEN NoText ELSE TextAt(a)]

Save ==
    /\ ui \in {"idle", "saving"} /\ Free("ui")
    /\ file' = Serialize
    /\ ui' = "idle"
    /\ UNCHANGED <<model, mutex, load, doing, telling, upload, server, history, bounds>>

\* MemoryNotesViewModel::PublishSelected: the request is sent by a thread, while
\* a dialog is shown.
Publish(a) ==
    /\ ui = "idle" /\ Free("ui") /\ original[a] # NoNote
    /\ ui' = "publishing"
    /\ upload' = [at |-> a, text |-> TextAt(a)]
    /\ raced' = IF \E t \in Threads : doing[t].at = a THEN raced \cup {a} ELSE raced
    /\ Step
    /\ UNCHANGED <<model, mutex, load, doing, telling, server, file, latest, told>>

\* The text that UploadMemoryNotes hands to SetServerNote: the note as it is now,
\* unless it was sent to be deleted
Uploaded(a) == IF upload.text = Empty THEN Empty ELSE TextAt(a)

\* The server accepts: MemoryNotesModel::SetServerNote, without the mutex, up to
\* its OnMemoryNoteChanged
SetServerNote ==
    /\ upload # Idle
    /\ LET a == upload.at
           text == Uploaded(a)
           tracked == [original EXCEPT ![a] = NoNote]
       IN
       /\ server' = [server EXCEPT ![a] = IF upload.text = Empty THEN NoNote
                                          ELSE By(Me, upload.text)]
       /\ Modified(tracked)
       /\ note' = [note EXCEPT ![a] =
                        IF @ # NoNote /\ @.text = text
                        THEN IF text = Empty THEN NoNote ELSE @
                        ELSE By(Me, text)]
       /\ changes' = IF ChangesOf(tracked) = "None" /\ note[a] # NoNote /\ note[a].text = text
                     THEN "None" ELSE changes
    /\ telling' = [telling EXCEPT !["upload"] = "look"]
    /\ upload' = Idle
    /\ UNCHANGED <<pending, refreshing, mutex, load, doing, ui, file, latest, raced,
                   outdated, bounds>>

Refused ==
    /\ upload # Idle
    /\ upload' = Idle
    /\ UNCHANGED <<model, mutex, load, doing, telling, ui, server, file, history, bounds>>

\* The dialog closes, and the publisher saves.
Published ==
    /\ ui = "publishing" /\ upload = Idle /\ telling["upload"] = "no" /\ Free("ui")
    /\ ui' = "saving"
    /\ UNCHANGED <<model, mutex, load, doing, telling, upload, server, file, history, bounds>>

\* The program ends or crashes, another user may change a note, and the game is
\* loaded again.
Restart ==
    /\ loads > 0 /\ loads' = loads - 1 /\ UNCHANGED steps
    /\ note' = [a \in Addresses |-> NoNote]
    /\ original' = [a \in Addresses |-> NoNote]
    /\ pending' = Unsaved /\ refreshing' = TRUE /\ changes' = "None"
    /\ fetch' = [at |-> "asked", left |-> {}, ok |-> FALSE]
    /\ replay' = Unsaved /\ merging' = file
    /\ mutex' = NoNote
    /\ doing' = [t \in Threads |-> Idle] /\ telling' = [t \in Tellers |-> "no"]
    /\ ui' = "idle" /\ upload' = Idle
    /\ latest' = file /\ raced' = {} /\ overtaken' = {} /\ outdated' = FALSE
    /\ UNCHANGED file
    /\ \/ UNCHANGED server
       \/ \E a \in Addresses, t \in Texts :
            server' = [server EXCEPT ![a] = By(Other, t)]

-----------------------------------------------------------------------------
Next ==
    \/ Fetched \/ NotFetched \/ EndRefresh
    \/ \E a \in Addresses : ApplyFetched(a) \/ Replay(a) \/ Deserialize(a)
    \/ \E t \in Threads : AddMemoryNote(t)
    \/ \E t \in Tellers : LookForModified(t) \/ SetChanges(t)
    \/ \E a \in Addresses, text \in AllTexts : Edit(a, text)
    \/ \E a \in Addresses : Revert(a) \/ Publish(a)
    \/ SetServerNote \/ Refused \/ Published \/ Save \/ Restart

Spec == Init /\ [][Next]_vars

-----------------------------------------------------------------------------
NotesOK ==
    /\ note \in [Addresses -> Note \cup {NoNote}]
    /\ original \in [Addresses -> Note \cup {Dummy, NoNote}]
    /\ pending \in [Addresses -> AllTexts \cup {NoText}] /\ refreshing \in BOOLEAN
    /\ IF refreshing THEN \A a \in Addresses : original[a] = NoNote
                     ELSE pending = Unsaved
    /\ fetch \in [at : {"asked", "notes", "replay"}, left : SUBSET Addresses, ok : BOOLEAN]
    /\ replay \in [Addresses -> AllTexts \cup {NoText}]
    /\ merging \in [Addresses -> AllTexts \cup {NoText}]
    /\ raced \subseteq Addresses
    /\ ui \in {"idle", "saving", "publishing"}
    /\ server \in [Addresses -> [author : {Me, Other}, text : Texts] \cup {NoNote}]
    /\ file \in [Addresses -> AllTexts \cup {NoText}]
    /\ latest \in [Addresses -> AllTexts \cup {NoText}]

ChangesOK ==
    /\ changes \in Values /\ mutex \in Threads \cup {NoNote}
    /\ telling \in [Tellers -> Values \cup {"no", "look"}]
    /\ overtaken \subseteq Tellers /\ outdated \in BOOLEAN

\* A note is put aside only before the answer, and nothing is modified by then.
TypeOK == NotesOK /\ ChangesOK

\* The answer and the file are applied, and nobody is changing a note.
Quiet ==
    /\ fetch.at = "replay" /\ replay = Unsaved /\ merging = Unsaved
    /\ \A t \in Threads : doing[t] = Idle
    /\ \A t \in Tellers : telling[t] = "no"
    /\ upload = Idle

ServerText(a) == IF server[a] = NoNote THEN Empty ELSE server[a].text
Shown(n) == IF n = NoNote THEN Dummy ELSE IF n.text = Empty THEN Dummy ELSE n
Wanted(a) == IF latest[a] # NoText THEN latest[a]
             ELSE IF fetch.ok THEN ServerText(a) ELSE Empty

\* A note has the text that the user, or the file, set last, whether that was
\* before, while or after the notes were fetched, reverted or published, and the
\* server's text otherwise.
LastSetWins ==
    Quiet => \A a \in Addresses \ raced : TextAt(a) = Wanted(a)

\* What does not appear as modified is the server's, its author included, and the
\* original of what does is the server's note, to which it can be reverted.
UnmodifiedIsServers ==
    Quiet /\ fetch.ok =>
        \A a \in Addresses \ raced :
            IF original[a] = NoNote
            THEN Shown(note[a]) = Shown(server[a])
            ELSE /\ Shown(original[a]) = Shown(server[a])
                 /\ TextAt(a) # ServerText(a)

\* The file gets every text that the user set and the server does not have, and
\* nothing else, unless Changes was last set by a thread that had looked for what is
\* modified before another one changed it.
SavedNotesComplete ==
    [][Save /\ Quiet /\ fetch.ok /\ ~outdated =>
        \A a \in Addresses \ raced :
            file'[a] = IF Wanted(a) = ServerText(a) THEN NoText ELSE Wanted(a)]_vars

\* GameAssets::SaveAssets: "non-modified committed items don't need to be serialized".
\* What says None, so that it is not written, has no modified note.
NoneIsUnmodified ==
    Quiet /\ changes = "None" => \A a \in Addresses : original[a] = NoNote
=============================================================================
