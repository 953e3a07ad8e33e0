-------------------------- MODULE AssetCheckpoint --------------------------
(***************************************************************************)
(* The life of one asset under the operations the program performs on it:  *)
(* it is loaded from the server or from the user's file, created or        *)
(* cloned; it is edited, saved, published, promoted, discarded, reverted,  *)
(* reloaded and deleted, in every order the callers allow.                 *)
(***************************************************************************)
EXTENDS AssetModel

CONSTANTS
    Default,    \* the default value of a property
    Edits       \* the definitions the user types

ASSUME EditAssumption == Default \in Values /\ Edits \subseteq Texts

VARIABLE asset

Constructed ==
    [field |-> [k \in Keys |-> CASE k = "Category" -> Promoted
                                 [] k = "Definition" -> Never
                                 [] OTHER -> Default],
     txns |-> << >>, isModified |-> FALSE, changes |-> "None",
     published |-> Empty, local |-> Empty, current |-> Empty,
     localModified |-> FALSE, updating |-> FALSE, failed |-> FALSE]

Init == asset = Constructed

-----------------------------------------------------------------------------
(* How an asset comes to be.                                               *)

NotCreated == Depth(asset) = 0

InCategory(category) == SetField(Constructed, "Category", category)

LoadFromServer(category, props, text) ==
    /\ NotCreated
    /\ asset' = CreateLocalCheckpoint(CreateServerCheckpoint(
                    SetDefinition(Assign(InCategory(category), props), text)))

LoadFromFile(line) ==
    /\ NotCreated
    /\ asset' = DeserializeLocalCheckpoint(
                    CreateServerCheckpoint(InCategory(Local)), line)

NewLocal == CreateLocalCheckpoint(CreateServerCheckpoint(InCategory(Local)))

CreateNew ==
    /\ NotCreated
    /\ asset' = WithChanges(NewLocal, "New")

Clone(props, text) ==
    /\ NotCreated
    /\ asset' = WithChanges(SetDefinition(Assign(NewLocal, props), text), "New")

-----------------------------------------------------------------------------
(* What is done with it.  A deleted asset is dropped from the list before  *)
(* anything else is done; a failed Expects ends the program.               *)

Live == Depth(asset) = 2 /\ asset.changes # "Deleted" /\ ~asset.failed
IsLocalAsset == asset.field["Category"] = Local

EditProperty(p, v) ==
    /\ Live
    /\ asset.field[p] # v
    /\ asset' = SetField(asset, p, v)

EditDefinition(text) ==
    /\ Live
    /\ Definition(asset) # text
    /\ asset' = SetDefinition(asset, text)

\* GameAssets::SaveAssets, for an asset that is selected
Save ==
    /\ Live
    /\ asset.changes \in {"Modified", "New"}
    /\ asset' = UpdateLocalCheckpoint(asset)

\* The answer of the server to the upload of asset a.  A local achievement
\* becomes Unpromoted, a local leaderboard or rich presence Promoted.
Answer(a, succeeded, category) ==
    LET b == IF a.field["Category"] = Local THEN SetField(a, "Category", category)
             ELSE a
    IN  CASE succeeded -> UpdateServerCheckpoint(UpdateLocalCheckpoint(b))
          [] ~succeeded /\ a.changes # "None" -> RestoreLocalCheckpoint(a)
          [] OTHER -> a

Publish(succeeded, category) ==
    /\ Live
    /\ asset.changes = "Unpublished"
    /\ asset' = Answer(asset, succeeded, category)

\* The badge is uploaded first, and the asset gets the name the server gave it
PublishWithBadge(p, v, succeeded) ==
    /\ Live
    /\ asset.changes = "Unpublished"
    /\ asset' = Answer(SetField(asset, p, v), succeeded, Unpromoted)

PromoteOrDemote(category, succeeded) ==
    /\ Live
    /\ asset.changes = "None"
    /\ asset.field["Category"] \notin {Local, category}
    /\ asset' = Answer(SetField(asset, "Category", category), succeeded, category)

\* AssetEditorViewModel::LoadAsset
Discard ==
    /\ Live
    /\ asset' = RestoreLocalCheckpoint(asset)

\* AssetListViewModel::RevertSelected, and an asset missing from the file
RevertToServer ==
    /\ Live
    /\ ~IsLocalAsset
    /\ asset' = RestoreServerCheckpoint(asset)

Delete ==
    /\ Live
    /\ IsLocalAsset
    /\ asset' = WithChanges(asset, "Deleted")

Reload(line) ==
    /\ Live
    /\ asset' = ResetLocalCheckpoint(asset, line)

Next ==
    \/ \E category \in Categories \ {Local}, props \in [Props -> Values],
          text \in Texts : LoadFromServer(category, props, text)
    \/ \E line \in Lines : LoadFromFile(line)
    \/ CreateNew
    \/ \E props \in [Props -> Values], text \in Edits : Clone(props, text)
    \/ \E p \in Props, v \in Values : EditProperty(p, v)
    \/ \E text \in Edits : EditDefinition(text)
    \/ Save
    \/ \E succeeded \in BOOLEAN, category \in Categories \ {Local} :
          Publish(succeeded, category)
    \/ \E p \in Props, v \in Values, succeeded \in BOOLEAN :
          PublishWithBadge(p, v, succeeded)
    \/ \E category \in Categories \ {Local}, succeeded \in BOOLEAN :
          PromoteOrDemote(category, succeeded)
    \/ Discard
    \/ RevertToServer
    \/ Delete
    \/ \E line \in Lines : Reload(line)

Spec == Init /\ [][Next]_asset

-----------------------------------------------------------------------------
(* Properties.                                                             *)

\* The asset is well formed, every transaction keeps originals of the types of
\* the fields, and between operations there are two transactions, one for each
\* checkpoint, or none before the asset is loaded, and no update is under way.
TypeOK ==
    /\ asset \in Asset
    /\ Depth(asset) \in {0, 2}
    /\ ~asset.updating

\* Expects(!"Unexpected state after revert") never fails: the state that a
\* revert puts back is never Modified, whatever was saved, published and
\* reverted before.
RevertSucceeds == ~asset.failed

TextOf(version) == IF version = Never THEN Empty ELSE version.text

\* The hash that transactions copy stands for the text that is shown: no
\* operation moves a text between the three buffers and leaves the tracking
\* property with another one's hash.
HashFollowsText == TextOf(asset.field["Definition"]) = Definition(asset)

Kept(txn, later) == [k \in Keys |-> IF txn[k] = Unset THEN later[k] ELSE txn[k]]
LocalFields == Kept(asset.txns[1], asset.field)
ServerFields == Kept(asset.txns[2], LocalFields)

\* The Changes property, which decides what SaveAssets writes and what the
\* publish and revert buttons offer, agrees with the three versions: it is
\* Modified just when the memory differs from the local checkpoint, else
\* Unpublished when that differs from the server's, else None.  Of a local
\* asset without any difference nothing more is said here: see LocalUnpublished.
ChangesAgree ==
    Depth(asset) = 2 =>
        /\ asset.isModified <=> asset.field # LocalFields
        /\ asset.changes \notin {"New", "Deleted"} =>
              /\ asset.changes = "Modified" <=> asset.field # LocalFields
              /\ asset.field = LocalFields /\ LocalFields # ServerFields =>
                    asset.changes = "Unpublished"
              /\ asset.field = LocalFields /\ LocalFields = ServerFields
                 /\ ~IsLocalAsset => asset.changes = "None"

\* SaveAssets leaves out of the user's file what reports None: "ASSERT:
\* unmodified local items should report as Unpublished".  It does not hold of a
\* new asset that is saved before anything was entered in it.
LocalUnpublished == Live /\ IsLocalAsset => asset.changes # "None"

\* A revert finds the text whose hash it puts back: while a version is kept
\* only as a hash and a state, the buffer that the state names still holds the
\* text, for the local and for the server checkpoint.
TextRecoverable ==
    Depth(asset) = 2 =>
        \A fields \in {LocalFields, ServerFields} :
            /\ StateOf(fields["Definition"]) # "Modified"
            /\ TextOf(fields["Definition"]) =
                  TextIn(asset, StateOf(fields["Definition"]))

\* Serialize writes the definition of the local checkpoint
\* (GetLocalAssetDefinition) beside its properties (GetLocalValue): what is in
\* memory but not saved never reaches the user's file, what is saved always
\* does.  "Updates the local checkpoint to match the current state of the
\* asset."
SavedTextWritten ==
    Depth(asset) = 2 => LocalDefinition(asset) = TextOf(LocalFields["Definition"])

Contents(fields) ==
    [props |-> [p \in Props |-> fields[p]],
     text |-> TextOf(fields["Definition"]),
     category |-> fields["Category"]]

Serialized == [props |-> [p \in Props |-> LocalFields[p]],
               text |-> LocalDefinition(asset)]

\* A reload undoes everything since the save and nothing else: the line that
\* Serialize writes, read back by ResetLocalCheckpoint over whatever was
\* edited since, gives the local checkpoint it was written from.
ReloadRestoresSaved ==
    Depth(asset) = 2 =>
        LET again == ResetLocalCheckpoint(asset, Serialized) IN
        /\ Contents(again.field) = Contents(LocalFields)
        /\ Definition(again) = TextOf(LocalFields["Definition"])

Promise == INSTANCE AssetVersions WITH
    Blank <- Contents(Constructed.field),
    phase <- CASE Depth(asset) < 2 -> "absent"
               [] Depth(asset) = 2 /\ asset.changes = "Deleted" -> "gone"
               [] OTHER -> "present",
    server <- Contents(IF Depth(asset) = 2 THEN ServerFields ELSE asset.field),
    local <- Contents(IF Depth(asset) = 2 THEN LocalFields ELSE asset.field),
    current <- Contents(asset.field)

\* The two transactions, the three text buffers and the hash together behave
\* as three complete contents: a save, a publish, a discard, a revert or a
\* reload moves whole contents and nothing else changes them.
ImplementsVersions == Promise!Spec
=============================================================================
