CONSTANTS
    t1 = t1
    t2 = t2
    t3 = t3
    alpha = alpha
    beta = beta
    Tasks = {t1, t2}
    Squads = {alpha}
    SquadOf <- TwoOnOneSquad
    NoTask = NoTask
    MaxFaults = 1
    MaxCrashes = 2
SPECIFICATION FairSpec
CHECK_DEADLOCK FALSE
INVARIANTS
    NoOvertaking
PROPERTIES
    ImplementsSerialQueue
    TasksGetTheirTurn
