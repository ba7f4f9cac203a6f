CONSTANTS
    Msgs = {m1, m2}
    NoMsg = NoMsg
    s1 = s1
    w1 = w1
    w2 = w2
    p1 = p1
    p2 = p2
    Clients <- MCClients
    Sessions <- MCSessions
    Workers <- MCWorkers
    Processors <- MCProcessors
    ProcOf <- MCProcOf
    BufferSize = 1
    EnqueueDelays <- DueNowOrLater
    RetryDelays <- MCRetryDelays
    FiveSeconds = 1
    Hour = 1
    MaxRetries = 1
    BaseRetryDelay = 1
    MaxRetryDelay = 1
    RetryCap = 2
    QueueMayClose = TRUE
SPECIFICATION Spec
SYMMETRY Symmetry
CHECK_DEADLOCK FALSE
INVARIANT ShutdownKeepsMail
INVARIANT RetryBudget
PROPERTY UsesQueueProperly
