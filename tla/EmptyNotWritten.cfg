SPECIFICATION Spec
CONSTANTS
    Props = {name}
    Values = {v1, v2}
    Texts = {empty, a, b}
    Empty = empty
    Local = Local
    Promoted = Promoted
    Unpromoted = Unpromoted
    Never = Never
    Unset = Unset
    Malformed = Malformed
    Default = v1
    Edits = {empty, a, b}
INVARIANTS
    SavedTextWritten
CHECK_DEADLOCK FALSE
