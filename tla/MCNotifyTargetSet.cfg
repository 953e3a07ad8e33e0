SPECIFICATION Spec
CONSTANTS
    Targets = {t1, t2}
    Nodes = {n1, n2, n3, n4}
    MaxDepth = 3
SYMMETRY Symmetry
INVARIANTS
    TypeOK
    LocksOwned
    CopiesReleased
    LocksNested
PROPERTIES
    ImplementsNotifications
