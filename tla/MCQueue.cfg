CONSTANTS
    Msgs = {m1, m2, m3}
    NoMsg = NoMsg
    Clients = {c1, c2}
    BufferSize = 1
    EnqueueDelays <- MCEnqueueDelays
    RetryDelays <- MCRetryDelays
    FiveSeconds = 1
    Hour = 3
SPECIFICATION QueueSpec
SYMMETRY Symmetry
CHECK_DEADLOCK FALSE
INVARIANT OneOwner
INVARIANT AcceptedIsKept
INVARIANT NoLostWakeup
PROPERTY NoEarlyPromotion
PROPERTY KeepsCustody
