CONSTANTS
    t1 = t1
    t2 = t2
    t3 = t3
    alpha = alpha
    beta = beta
    Tasks = {t1, t2, t3}
    Squads = {alpha, beta}
    SquadOf <- TwoSquads
    NoTask = NoTask
    MaxFaults = 1
    MaxCrashes = 0
SPECIFICATION FairSpec
CHECK_DEADLOCK FALSE
PROPERTY AckedTaskGetsItsTurn
