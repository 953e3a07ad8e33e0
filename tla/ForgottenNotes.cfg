SPECIFICATION Spec
CONSTANTS
    n1 = n1
    n2 = n2
    Addresses = {n1, n2}
    Texts = {"health", "lives"}
    Me = "me"
    Other = "other"
    NoNote = NoNote
    NoText = NoText
    MaxLoads = 1
    MaxSteps = 3
SYMMETRY Symmetry
INVARIANTS
    NoneIsUnmodified
CHECK_DEADLOCK FALSE
