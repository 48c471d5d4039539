SPECIFICATION FairSpec
CONSTANTS
    Rules = {r1}
    MaxTime = 4
    MaxEntries = 2
    Lateness = 4
    Spread = 0
    Delay = 1
    Overlap = 1
    DefaultLookback = 4
    Lookback = 0
    MaxCatchup = 2
    Batch = 9
    MaxHistory = 9
    MaxWindows = 2
    MaxAccepted = 2
    Faults = {"commit"}
    MaxFaults = 1
PROPERTY EveryRowEvaluated
