CONSTANTS
    m1 = m1
    m2 = m2
    d1 = d1
    d2 = d2
    here = here
    h1 = h1
    h2 = h2
    h3 = h3
    Messages <- MCMessages
    Domains <- MCDomains
    Hosts = {h1, h2, h3}
    Clients = {c1, c2, c3, c4, c5, c6}
    None = None
    To <- MCTo
    Local = {here}
    MX <- MCMX
    Offering = {h3}
    TLSEnabled = TRUE
    PoolSize = 1
SPECIFICATION FairSpec
CHECK_DEADLOCK FALSE
PROPERTY DeliverReturns
