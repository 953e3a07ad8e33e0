SPECIFICATION Spec
CONSTANTS
    g1 = g1
    g2 = g2
    Games = {g1, g2}
    NoGame = NoGame
    MaxTime = 14
    MaxSessions = 3
SYMMETRY Symmetry
INVARIANTS
    TypeOK
    PlaytimeTrue
    CrashLosesLittle
CHECK_DEADLOCK FALSE
