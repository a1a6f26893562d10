CONSTANTS
    a1 = a1
    a2 = a2
    r1 = r1
    r2 = r2
    Agents = {a1}
    Readers = {r1}
    Cases <- OneAgent
    None = None
    MaxRuntime = 1
    MaxTaskEvents = 4
    MinCapacity = 2
    ExtraCapacity = 1
SPECIFICATION Spec
CHECK_DEADLOCK FALSE
INVARIANT NoPanic
