SPECIFICATION Spec
CONSTANTS
    Props = {name, badge}
    Values = {v1, v2}
    Texts = {empty, a, b, c}
    Empty = empty
    Local = Local
    Promoted = Promoted
    Unpromoted = Unpromoted
    Never = Never
    Unset = Unset
    Malformed = Malformed
    Default = v1
    Edits = {a, b, c}
INVARIANTS
    TypeOK
    RevertSucceeds
    ChangesAgree
    HashFollowsText
    TextRecoverable
    SavedTextWritten
    ReloadRestoresSaved
PROPERTIES
    ImplementsVersions
CHECK_DEADLOCK FALSE
