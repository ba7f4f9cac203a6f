CONSTANTS
    Conns = {c1, c2}
    IPs = {i1, i2}
    Senders = {alice}
    Rcpts = {bob}
    None = None
    Configs <- MCConfigs
    Minute = 2
SPECIFICATION FairSpec
INVARIANTS
    PeerAccounting
    AdmissionLimits
    RateBound
    CleanRestart
    AckIsDurable
PROPERTIES
    RefusalEarned
    ServeReturns
    TransactionEnds
