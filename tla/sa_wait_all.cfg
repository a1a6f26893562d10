CONSTANTS
    e1 = e1
    e2 = e2
    Executions = {e1, e2}
    Origin <- RunThenWaitAll
    Waiters = {}
    None = None
    RetryOnFailure = 0
    HasTimeout = FALSE
SPECIFICATION SubAgentSpec
CHECK_DEADLOCK FALSE
INVARIANT NoPanic
