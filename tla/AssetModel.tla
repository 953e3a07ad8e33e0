----------------------------- MODULE AssetModel -----------------------------
(***************************************************************************)
(* An asset of the toolkit (an achievement, a leaderboard, a rich presence *)
(* script) and the operations of AssetModelBase and DataModelBase on it.   *)
(* An asset is a record and an operation maps an asset to an asset, so     *)
(* that a module with one asset and a module with many can share them.     *)
(*                                                                         *)
(* Values other than the definition sit in `field`, and each transaction   *)
(* of `txns`, the newest first, keeps the originals of the fields changed  *)
(* since it began: the last one those of the server checkpoint, the one    *)
(* before it those of the local checkpoint.  The definition is too long to *)
(* be copied so: its field holds a hash of the text and one of the states  *)
(* None, Unpublished and Modified, and that state says which of three text *)
(* buffers the text is in.  The hash is taken to be injective.             *)
(***************************************************************************)
EXTENDS Naturals, Sequences

CONSTANTS
    Props,      \* the transactional properties other than the two below
    Values,     \* their values
    Texts,      \* the definitions
    Empty,      \* the empty definition
    Local, Promoted, Unpromoted,    \* AssetCategory
    Never,      \* the tracking property of a definition never set: 0
    Unset,      \* no original kept for this field
    Malformed   \* a line of the user's file that Deserialize rejects

States == {"None", "Unpublished", "Modified"}
Versions == [text : Texts, state : States]
Categories == {Local, Promoted, Unpromoted}

ASSUME AssetAssumption ==
    /\ Empty \in Texts
    /\ {"Category", "Definition"} \cap Props = {}
    /\ Never \notin Versions
    /\ Local \notin {Promoted, Unpromoted}
    /\ Unset \notin Values \cup Versions \cup Categories \cup {Never}
    /\ Malformed \notin [props : [Props -> Values], text : Texts]

Keys == Props \cup {"Category", "Definition"}
Domain(k) == CASE k = "Category" -> Categories
               [] k = "Definition" -> Versions \cup {Never}
               [] OTHER -> Values

AllValues == Values \cup Versions \cup Categories \cup {Never}
Fields == {f \in [Keys -> AllValues] : \A k \in Keys : f[k] \in Domain(k)}
Originals == {t \in [Keys -> AllValues \cup {Unset}] :
                 \A k \in Keys : t[k] \in Domain(k) \cup {Unset}}
NoOriginals == [k \in Keys |-> Unset]

AssetChanges == {"None", "Modified", "Unpublished", "New", "Deleted"}

Asset == [field : Fields, txns : Seq(Originals), isModified : BOOLEAN,
          changes : AssetChanges, published : Texts, local : Texts,
          current : Texts, localModified : BOOLEAN, updating : BOOLEAN,
          failed : BOOLEAN]

-----------------------------------------------------------------------------
(* Transactions and change tracking: DataModelBase.                        *)

Depth(a) == Len(a.txns)
HasOriginals(t) == \E k \in Keys : t[k] # Unset
IsUpdating(a) == a.updating \/ Depth(a) < 2

\* What OnValueChanged(IsModifiedProperty) makes of the Changes property.
NotedChanges(a) ==
    CASE a.isModified /\ a.changes \in {"Modified", "New"} -> a.changes
      [] a.isModified /\ a.changes \notin {"Modified", "New"} -> "Modified"
      [] ~a.isModified /\ HasOriginals(a.txns[2]) -> "Unpublished"
      [] ~a.isModified /\ ~HasOriginals(a.txns[2]) -> "None"

\* SetValue(IsModifiedProperty, flag)
SetModified(a, flag) ==
    LET b == [a EXCEPT !.isModified = flag] IN
    IF a.isModified = flag \/ IsUpdating(a) THEN b
    ELSE [b EXCEPT !.changes = NotedChanges(b)]

\* The original that a transaction keeps of a value, after the value has changed
Noted(original, old, new) ==
    CASE old = new -> original
      [] old # new /\ original = Unset -> old
      [] old # new /\ original = new -> Unset
      [] OTHER -> original

\* SetValue for every field that is to change
SetFields(a, fields) ==
    LET b == [a EXCEPT !.field = fields]
        top == [k \in Keys |-> Noted(a.txns[1][k], a.field[k], fields[k])]
    IN  CASE a.field = fields -> a
          [] a.field # fields /\ a.txns = << >> -> b
          [] OTHER -> SetModified([b EXCEPT !.txns[1] = top], HasOriginals(top))

SetField(a, k, v) == SetFields(a, [a.field EXCEPT ![k] = v])

BeginTransaction(a) ==
    SetModified([a EXCEPT !.txns = <<NoOriginals>> \o @], FALSE)

DiscardTransaction(a) ==
    LET rest == Tail(a.txns) IN
    SetModified([a EXCEPT !.txns = rest],
                rest # << >> /\ HasOriginals(rest[1]))

\* Variant: the original of the newer transaction replaces the older one's.
CommitIntoOverwrites(parent, top, field) ==
    [k \in Keys |-> IF top[k] = Unset THEN parent[k] ELSE top[k]]

\* Variant: a field changed back to the older original stays noted.
CommitIntoKeepsAll(parent, top, field) ==
    [k \in Keys |-> IF parent[k] = Unset THEN top[k] ELSE parent[k]]

CommitInto(parent, top, field) ==
    [k \in Keys |-> CASE top[k] = Unset -> parent[k]
                      [] top[k] # Unset /\ parent[k] = Unset -> top[k]
                      [] top[k] # Unset /\ parent[k] = field[k] -> Unset
                      [] OTHER -> parent[k]]

BaseCommit(a) ==
    DiscardTransaction(
        IF Depth(a) = 1 THEN a
        ELSE [a EXCEPT !.txns[2] = CommitInto(@, a.txns[1], a.field)])

\* While the originals are put back the transaction notes them as changes,
\* so that IsModified stays as it is; the transaction is dropped right after.
BaseRevert(a) ==
    DiscardTransaction(
        [a EXCEPT !.field = [k \in Keys |-> IF a.txns[1][k] = Unset THEN @[k]
                                            ELSE a.txns[1][k]]])

BeginUpdate(a) == [a EXCEPT !.updating = TRUE]

\* The changes held back since BeginUpdate are announced; an IsModified that
\* differs from what it was then is noted like any other.
EndUpdate(a, wasModified) ==
    LET b == [a EXCEPT !.updating = FALSE] IN
    IF b.isModified = wasModified \/ IsUpdating(b) THEN b
    ELSE [b EXCEPT !.changes = NotedChanges(b)]

-----------------------------------------------------------------------------
(* The versions of the definition: AssetModelBase.                         *)

StateOf(v) == IF v = Never THEN "None" ELSE v.state
DefinitionState(a) == StateOf(a.field["Definition"])

TextIn(a, state) ==
    CASE state = "None" -> a.published
      [] state = "Unpublished" -> a.local
      [] OTHER -> a.current

\* GetAssetDefinition: the text the program shows, runs and uploads
Definition(a) == TextIn(a, DefinitionState(a))

\* GetLocalAssetDefinition: the text Serialize writes to the user's file
LocalDefinition(a) == IF a.localModified THEN a.local ELSE a.published

\* Variant: the hash is taken of the text the old state names.
UpdateVersionOfOld(a, state) ==
    SetField(a, "Definition", [text |-> Definition(a), state |-> state])

UpdateVersion(a, state) ==
    SetField(a, "Definition", [text |-> TextIn(a, state), state |-> state])

\* SetAssetDefinition before there is a server checkpoint
SetPublished(a, text) ==
    IF a.published = text THEN a
    ELSE UpdateVersion([a EXCEPT !.published = text], "None")

\* SetAssetDefinition while the local checkpoint is read from the file
SetLocal(a, text) ==
    CASE text = a.published /\ a.local # Empty ->
           UpdateVersion([a EXCEPT !.local = Empty, !.localModified = FALSE],
                         "None")
      [] text # a.published /\ text # a.local ->
           UpdateVersion([a EXCEPT !.local = text, !.localModified = TRUE],
                         "Unpublished")
      [] OTHER -> a

BackTo(a, state) ==
    IF DefinitionState(a) = state THEN a
    ELSE UpdateVersion([a EXCEPT !.current = Empty], state)

\* SetAssetDefinition after the local checkpoint
SetCurrent(a, text) ==
    LET saved == text = LocalDefinition(a) IN
    CASE saved ->
           BackTo(a, IF a.localModified THEN "Unpublished" ELSE "None")
      [] ~saved /\ a.current # text ->
           UpdateVersion([a EXCEPT !.current = text], "Modified")
      [] ~saved /\ a.current = text /\ text = Empty /\ Definition(a) # Empty ->
           UpdateVersion(a, "Modified")
      [] OTHER -> a

SetDefinition(a, text) ==
    CASE Depth(a) = 0 -> SetPublished(a, text)
      [] Depth(a) = 1 -> SetLocal(a, text)
      [] OTHER -> SetCurrent(a, text)

-----------------------------------------------------------------------------
(* Commit and revert, with the text buffers moved along.                   *)

\* CommitTransaction when the local checkpoint becomes the server's
PublishLocal(a) ==
    IF DefinitionState(a) # "Unpublished" \/ ~a.localModified THEN a
    ELSE UpdateVersion([a EXCEPT !.published = a.local, !.local = Empty,
                                 !.localModified = FALSE], "None")

\* Variant: the text is moved, its state is not.
KeepCurrentUnversioned(a) ==
    [a EXCEPT !.local = a.current, !.current = Empty, !.localModified = TRUE]

\* CommitTransaction when the current state becomes the local checkpoint
KeepCurrent(a) ==
    CASE a.current = a.published ->
           UpdateVersion([a EXCEPT !.current = Empty, !.local = Empty,
                                   !.localModified = FALSE], "None")
      [] a.current # a.published /\ a.local # a.current ->
           UpdateVersion([a EXCEPT !.local = a.current, !.current = Empty,
                                   !.localModified = TRUE], "Unpublished")
      [] /\ a.current # a.published /\ a.local = a.current
         /\ a.local = Empty /\ ~a.localModified ->
           UpdateVersion(a, "Unpublished")
      [] OTHER -> a

SaveCurrent(a) ==
    LET b == [a EXCEPT !.changes = IF @ = "New" THEN "Modified" ELSE @] IN
    IF DefinitionState(b) = "Modified" THEN KeepCurrent(b) ELSE b

Commit(a) == BaseCommit(IF Depth(a) = 1 THEN PublishLocal(a) ELSE SaveCurrent(a))

\* Variant: the local text goes whenever the current one does.
FollowStateClears(a) ==
    [a EXCEPT !.current = Empty, !.local = Empty, !.localModified = FALSE]

\* Variant: the flag of the local text is left as it was.
FollowStateKeepsFlag(a) ==
    CASE DefinitionState(a) = "None" ->
           [a EXCEPT !.current = Empty, !.local = Empty]
      [] DefinitionState(a) = "Unpublished" -> [a EXCEPT !.current = Empty]
      [] OTHER -> [a EXCEPT !.failed = TRUE]

\* Variant: the local text survives a return to the server's.
FollowStateKeepsLocal(a) ==
    CASE DefinitionState(a) = "None" ->
           [a EXCEPT !.current = Empty, !.localModified = FALSE]
      [] DefinitionState(a) = "Unpublished" ->
           [a EXCEPT !.current = Empty, !.localModified = (a.local # a.published)]
      [] OTHER -> [a EXCEPT !.failed = TRUE]

\* After a revert the buffers follow from the state that was put back.
FollowState(a) ==
    CASE DefinitionState(a) = "None" ->
           [a EXCEPT !.current = Empty, !.local = Empty, !.localModified = FALSE]
      [] DefinitionState(a) = "Unpublished" ->
           [a EXCEPT !.current = Empty, !.localModified = (a.local # a.published)]
      [] OTHER -> [a EXCEPT !.failed = TRUE]    \* Expects(!"Unexpected state")

Revert(a) == FollowState(BaseRevert(a))

-----------------------------------------------------------------------------
(* The checkpoint operations the rest of the program calls.                *)

WithChanges(a, changes) == [a EXCEPT !.changes = changes]

CreateServerCheckpoint(a) == WithChanges(BeginTransaction(a), "None")

CreateLocalCheckpoint(a) ==
    WithChanges(BeginTransaction(a),
                IF HasOriginals(a.txns[1]) THEN "Unpublished" ELSE "None")

UpdateLocalCheckpoint(a) == CreateLocalCheckpoint(Commit(a))

\* Variant: the local checkpoint is not created again.
FreshServerCheckpoint(a) == WithChanges(BeginTransaction(a), "None")

FreshCheckpoints(a) == WithChanges(BeginTransaction(BeginTransaction(a)), "None")

UpdateServerCheckpoint(a) == FreshCheckpoints(Commit(Commit(a)))

RestoreLocalCheckpoint(a) == CreateLocalCheckpoint(Revert(a))

RestoreServerCheckpoint(a) ==
    EndUpdate(FreshCheckpoints(Revert(Revert(BeginUpdate(a)))), a.isModified)

\* A line of the user's file either gives every property and the definition
\* or is malformed, and then nothing is assigned: Deserialize reads the whole
\* line before it assigns.
Lines == [props : [Props -> Values], text : Texts] \cup {Malformed}

\* One property after the other, and nothing looks at Changes in between.
Assign(a, props) ==
    SetFields(a, [k \in Keys |-> IF k \in Props THEN props[k] ELSE a.field[k]])

Deserialize(a, line) ==
    IF line = Malformed THEN a
    ELSE SetDefinition(Assign(a, line.props), line.text)

DeserializeLocalCheckpoint(a, line) ==
    EndUpdate(CreateLocalCheckpoint(Deserialize(BeginUpdate(a), line)),
              a.isModified)

ResetLocalCheckpoint(a, line) ==
    EndUpdate(CreateLocalCheckpoint(Deserialize(BeginTransaction(
                  Revert(Revert(BeginUpdate(a)))), line)), a.isModified)
=============================================================================
