CONSTANTS
    e1 = e1
    e2 = e2
    Executions = {e1, e2}
    Origin <- PausedAndResumed
    Waiters = {w1}
    None = None
    RetryOnFailure = 1
    HasTimeout = TRUE
    Replies <- StreamedReplies
    MaxRounds = 3
    Capacity = 2
    ToolKeys = {"read", "write", "search", "transfer", "complete"}
    KeyKind <- KindOfKey
    ModelReplies <- RepliesOfTurn
    MaxTurns = 3
    QueuedTasks = {t1}
    Heartbeats = {b1, b2}
    MaxAutonomousActions = 2
    MaxDbFaults = 1
    MaxDeaths = 0
    MaxTroubles = 1
    Peers = {c1}
    Broadcasters = {k1}
    QueueSize = 1
    McpServers = {sv1}
    StdioServers = {sv1}
    ToolCalls = {k1, k2}
    MaxClients = 1
    MaxFailures = 1
    PtySessions = {x1}
    ToolUsers = {u1}
    MaxOutput = 2
    MaxInputs = 2
SPECIFICATION Spec
CHECK_DEADLOCK FALSE
PROPERTIES
    SubAgentCorrect
    RuntimeLoopCorrect
    TurnLoopCorrect
    StopEndsOnceBeatsEntered
    HandOversEnd
    CallsEnd
    OperatorCorrect
