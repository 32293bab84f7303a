SPECIFICATION FairSpec
CONSTANTS
    t1 = t1
    t2 = t2
    r1 = r1
    c1 = c1
    TimerOps = {t1, t2}
    ResetOps = {r1}
    Controllers = {c1}
    Target <- MCTarget
    None = None
    QueueMax = 2
    CommitMayFail = TRUE
    MaxCrashes = 1
INVARIANTS TypeOK NothingForgotten OwnArgs OwnMessage
PROPERTIES RowsGo
CHECK_DEADLOCK FALSE
