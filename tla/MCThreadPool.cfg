SPECIFICATION FairSpec
CONSTANTS
    Workers = {w1, w2}
    Clients = {c1}
    Tasks = {t1, t2}
    Scheduler = Scheduler
    None = None
    Delays = {0, 1}
    MaxTime = 1
    MaxRounds = 2
INVARIANTS
    TypeOK
    Custody
    DelayedSorted
    NeverEarly
    SchedulerPresent
    WokenInTime
PROPERTIES
    ImplementsService
    DueTaskMoved
CHECK_DEADLOCK FALSE
