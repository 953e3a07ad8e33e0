SPECIFICATION FairSpec
CONSTANTS
    a1 = a1
    a2 = a2
    a3 = a3
    b1 = b1
    Assets = {a1, a2, a3}
    Notes = {1, 2, 3, 4}
    NoBadge = NoBadge
    BadgeOf <- Images
    MaxThreads = 3
    BatchSize = 2
INVARIANTS
    TypeOK
    ResultsComplete
    ResultsTrue
    SentOnce
    NotUsedDestroyed
PROPERTIES
    PublishEnds
CHECK_DEADLOCK FALSE
