CONSTANTS
    a1 = a1
    a2 = a2
    r1 = r1
    r2 = r2
    Agents = {a1, a2}
    Readers = {r1, r2}
    Cases <- BothKinds
    None = None
    MaxRuntime = 1
    MaxTaskEvents = 2
    MinCapacity = 2
    ExtraCapacity = 0
SPECIFICATION FairSpec
CHECK_DEADLOCK FALSE
INVARIANTS
    ChannelsAreSafe
    OutcomeIsTold
PROPERTIES
    FinalUnlessLateUpsert
    ReaderIsReleased
