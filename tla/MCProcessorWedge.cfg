CONSTANTS
    Msgs = {m1, m2}
    NoMsg = NoMsg
    s1 = s1
    w1 = w1
    w2 = w2
    p1 = p1
    p2 = p2
    Clients <- OneWorkerClients
    Sessions <- MCSessions
    Workers <- OneWorker
    Processors <- OneProcessor
    ProcOf <- OneWorkerProcOf
    BufferSize = 1
    EnqueueDelays <- DueNow
    RetryDelays <- MCRetryDelays
    FiveSeconds = 1
    Hour = 2
    MaxRetries = 1
    BaseRetryDelay = 1
    MaxRetryDelay = 1
    RetryCap = 2
    QueueMayClose = FALSE
SPECIFICATION FairSpec
PROPERTY RequeuedIsRetried
