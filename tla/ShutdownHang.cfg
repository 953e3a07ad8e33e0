SPECIFICATION FairSpec
CONSTANTS
    Workers = {w1, w2}
    Clients = {c1}
    Tasks = {t1}
    Scheduler = Scheduler
    None = None
    Delays = {0, 1}
    MaxTime = 1
    MaxRounds = 2
PROPERTIES
    ShutdownReturns
CHECK_DEADLOCK FALSE
