SPECIFICATION FairSpec
CONSTANTS
    s1 = s1
    s2 = s2
    d1 = d1
    w1 = w1
    w2 = w2
    e1 = e1
    Sources = {s1}
    Docs = {d1}
    Workers = {w1, w2}
    Enqueuers = {e1}
    Cadence <- MCPlainCadence
    Content <- MCPlainContent
    AdaptedSources = {s1}
    CatalogSources = {}
    ManualSources = {}
    ManagedSources = {}
    PoisonDocs = {d1}
    MaxAttempts = 2
    Backoff <- MCBackoff
    LockTimeout = 1
    OutageEnd = 0
    MaxTime = 5
    MaxKills = 0
    MaxDbErrors = 0
    NoWorker = NoWorker
    NoDoc = NoDoc
PROPERTIES LoadJobsEnd
CHECK_DEADLOCK FALSE
