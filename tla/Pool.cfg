SPECIFICATION FairSpec
CONSTANTS
    w1 = w1
    w2 = w2
    t1 = t1
    t2 = t2
    t3 = t3
    NoTask = NoTask
    Worker = {w1, w2}
    Task = {t1, t2, t3}
    Spawned <- FirstSpawnsSecond
INVARIANTS
    CountIsExact
    WaitMeansDone
PROPERTY
    StopReturns
