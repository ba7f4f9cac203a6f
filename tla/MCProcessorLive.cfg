CONSTANTS
    Msgs = {m1, m2}
    NoMsg = NoMsg
    s1 = s1
    w1 = w1
    w2 = w2
    p1 = p1
    p2 = p2
    Clients <- OneWorkerClients
    Sessions <- MCSessions
    Workers <- OneWorker
    Processors <- OneProcessor
    ProcOf <- OneWorkerProcOf
    BufferSize = 1
    EnqueueDelays <- DueNow
    RetryDelays <- MCRetryDelays
    FiveSeconds = 1
    Hour = 1
    MaxRetries = 0
    BaseRetryDelay = 1
    MaxRetryDelay = 1
    RetryCap = 0
    QueueMayClose = TRUE
SPECIFICATION FairSpec
CHECK_DEADLOCK FALSE
PROPERTY StopReturns
PROPERTY EventuallySettled
PROPERTY CloseReturns
