SPECIFICATION FairPipeSpec
CONSTANTS
    p1 = p1
    p2 = p2
    s1 = s1
    s2 = s2
    Producers = {p1, p2}
    Stoppers = {s1, s2}
    Configs <- MCConfigs
    MaxLogs <- MCMaxLogs
    Sentinel = Sentinel
    NoThread = NoThread
CHECK_DEADLOCK FALSE
INVARIANTS
    TypeOK
    SinksInStep
    RecordsAccounted
    DrainedOnReturn
    ReleasedOnReturn
    MissedOnlyAfterStop
PROPERTIES
    FifoDelivered
    CallsTerminate
    PutsAreTaken
