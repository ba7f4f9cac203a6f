CONSTANTS
    s1 = s1
    s2 = s2
    d1 = d1
    d2 = d2
    Nil = Nil
    Callers = {s1, s2}
    Keys = {d1, d2}
    Answers <- MCAnswers
    cacheTTL = 2
    maxCacheSize = 1
    MaxEvents = 2
    SubdomainOf <- MCSubdomainOf
    DmarcRecords <- MCDmarcRecords
    Verifications <- MCVerifications
SPECIFICATION FairSpec
INVARIANT CacheBounded
PROPERTIES
    AskedOnce
    SpfVerdict
    MailAnswered
    EventsReported
