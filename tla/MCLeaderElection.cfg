SPECIFICATION FairSpec
CONSTANTS
    Instances = {a, b}
    Sessions = {s1, s2, s3}
    NoSession = none
    Heartbeat = 2
    DbTimeout = 1
    Retry = 1
    StaleAfter = 6
    LeaseMode = TRUE
    StartMax = 1
    StopMax = 0
    AgeCap = 7
    MaxFaults = 2
INVARIANTS TypeOK OneLeader RunsUnderLock FencedBeforeStale
PROPERTY LeaderReturns
