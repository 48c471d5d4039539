SPECIFICATION FairSpec
CONSTANTS
    Nodes = {n1, n2}
    Rules = {r1}
    Stores = {"part", "drain"}
    RuleBatch = 2
    RuleConcurrent = 2
    LateBatch = 1
    LateConcurrent = 1
    MaxAttempts = 1
    RunMax = 1
    Stale = 2
    Faults = {"crash", "panic", "error", "shutdown", "mode", "dataset", "delete"}
    MaxFaults = 3
INVARIANTS TypeOK   
PROPERTIES RulesRun RepairsFinish
