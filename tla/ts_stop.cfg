CONSTANTS
    t1 = t1
    t2 = t2
    Tasks = {t1, t2}
    Rank <- SameRank
    Runs = {r1, r2}
    Callers = {c1}
    MaxConcurrentTasks = 2
    MaxFaults = 0
    MaxCrashes = 0
SPECIFICATION MCSpec
CHECK_DEADLOCK FALSE
PROPERTY StopEnds
