\* A periodic task of high priority, one of lower priority, a named task that runs once.
SPECIFICATION FairSpec
CONSTANTS
    flush = flush
    gc = gc
    once = once
    w1 = w1
    w2 = w2
    NoTask = NoTask
    NoName = NoName
    Tasks <- ThreeTasks
    Periodic <- FlushAndGC
    Prio <- Priorities
    Kind <- Kinds
    Name <- OneName
    Workers <- TwoWorkers
INVARIANT TypeOK
INVARIANT QuietWhenDown
INVARIANT CancelledIsNotRun
PROPERTY TopTasksGoOn
PROPERTY ShutdownEnds
