CONSTANTS
    c1 = c1
    c2 = c2
    g1 = g1
    g2 = g2
    k1 = k1
    k2 = k2
    k3 = k3
    o2 = o2
    o3 = o3
    p1 = p1
    p2 = p2
    Clients = {c1, c2}
    MaxConcurrency <- LimitOfOne
    Capability <- TwoCapabilities
    PoolStrategy = "least_load"
    PoolCallers = {h1, h2}
    Requests <- KindsOfRequest
    MaxPools = 2
    Providers = {p1, p2}
    Order <- OneThenTwo
    PoolConfigs <- AnyPoolConfig
    MaxRetries = 1
    LLMRequests = {r1, r2}
    MaxTimers = 1
    FailureThreshold = 2
    Askers = {a1, a2}
    MaxBeyond = 1
    Lines = {1, 2}
    FirstFile <- OpenAndApproval
    Beats = {b1, b2}
    Quota = 1
    MaxMishaps = 1
    MaxTries = 2
    Runs = {r1, r2}
    Compactions = {c1}
    SessionAgents = {"a"}
    NoRun = NoRun
    AcpIds = {s1}
    Loads = {l1, l2}
    Prompts = {m1, m2}
    MaxRuntimes = 3
    AcpCalls = {k1, k2}
    KeySets <- AlikeOrNot
    MaxRefusals = 1
    QueuedTasks = {t1, t2}
    Heartbeats = {b1, b2}
    MaxAutonomousActions = 2
    MaxDbFaults = 1
    MaxDeaths = 1
    MaxTroubles = 1
    Peers = {e1, e2}
    Broadcasters = {k1}
    QueueSize = 1
    McpServers = {sv1}
    StdioServers = {sv1}
    ToolCalls = {k1, k2}
    MaxClients = 2
    MaxFailures = 1
    s1 = s1
    s2 = s2
    Squads = {s1, s2}
    Agents = {"a", "b"}
    LeadOf <- OneLeadEach
    SquadCallers = {h1, h2}
    NoService = NoService
    MaxSquadCalls = 2
    MaxRowFaults = 1
    CacheProcs = {g1, g2}
    CacheKeys = {k1, k2, k3}
    CacheSize = 2
    MaxSets = 3
    MaxIoFaults = 1
    MaxKills = 1
    Facts = {f1, f2, f3}
    Observations = {o1, o2, o3}
    OldObservation = o1
    OldEvidence = {f1}
    NewFacts = {f3}
    MemCallers = {h1, h2}
    NoMemory = NoMemory
    ReflectThreshold = 3
    MaxMemCalls = 2
    MaxMemMishaps = 1
    CodeRuns = {x1, x2}
    Scriptable = {t1}
    NoCodeRun = NoCodeRun
    MaxToolCalls = 1
    HistorySize = 1
    Documents = {d1, d2}
    InBatch = {d1, d2}
    BatchLimit = 2
    LastChunk = 2
    Blanks <- AllOrNotTheFirst
    MaxRowTroubles = 1
    PlanIds = {q1, q2}
    PlanRunners = {u1, u2}
    PlanSize = 2
    Dependencies <- EitherWay
    RefersBack = {2}
    MaxExecutions = 2
    MaxSaveFaults = 1
    NoPlan = NoPlan
    ConvIds = {v1}
    ChatCalls = {h1, h2}
    MaxConversations = 2
    MaxPrompts = 1
    ReplyKinds <- StreamedReplies
    ToolNames = {"look", "task_complete"}
    Texts <- FewTexts
    ChunkSizes = {3, 7, 15}
    Overlaps = {0, 2, 6, 10}
SPECIFICATION Spec
CHECK_DEADLOCK FALSE
SYMMETRY PairsExchanged
INVARIANTS
    ProviderPoolInv
    AcpSessionsInv
    GatewayInv
    McpManagerInv
    FileCacheInv
    CodeSandboxInv
    RagInv
    AgentCallsInv
PROPERTIES
    ClientPoolCorrect
    BreakerCorrect
    ChecklistCorrect
    ServiceRunsCorrect
    LongRunCorrect
    SquadMembershipCorrect
    MemoryFilesCorrect
