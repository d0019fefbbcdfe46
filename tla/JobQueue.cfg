SPECIFICATION FairSpec
CONSTANTS
    s1 = s1
    s2 = s2
    d1 = d1
    w1 = w1
    w2 = w2
    e1 = e1
    Sources = {s1, s2}
    Docs = {d1}
    Workers = {w1, w2}
    Enqueuers = {e1}
    Cadence <- MCCadence
    Content <- MCContent
    AdaptedSources = {s2}
    CatalogSources = {s2}
    ManualSources = {s2}
    ManagedSources = {s2}
    PoisonDocs = {}
    MaxAttempts = 2
    Backoff <- MCBackoff
    LockTimeout = 1
    OutageEnd = 2
    MaxTime = 2
    MaxKills = 1
    MaxDbErrors = 1
    NoWorker = NoWorker
    NoDoc = NoDoc
INVARIANTS OneWorkerPerJob DeadAfterMaxAttempts LoadsFollowTheFirstSource
PROPERTIES FetchSpacing ImplementsWorkQueue LoadJobsEnd DueSourceIsFetched
CHECK_DEADLOCK FALSE
