CONSTANTS
    t1 = t1
    t2 = t2
    Tasks = {t1, t2}
    Rank <- SameRank
    Runs = {r1, r2}
    Callers = {c1}
    MaxConcurrentTasks = 2
    MaxFaults = 1
    MaxCrashes = 1
SPECIFICATION MCSpec
CHECK_DEADLOCK FALSE
INVARIANTS
    TypeOK
    SlotsAccounted
    StoppedIsQuiet
    ScheduledHasNextRun
    StaleRunningNeedsFailure
PROPERTY DueTaskRuns
