SPECIFICATION FairSpec
CONSTANTS
    Rules = {r1}
    MaxTime = 3
    MaxEntries = 2
    Lateness = 3
    Spread = 1
    Delay = 1
    Overlap = 1
    DefaultLookback = 4
    Lookback = 0
    MaxCatchup = 2
    Batch = 1
    MaxHistory = 2
    MaxWindows = 2
    MaxAccepted = 2
    Faults = {"error", "crash", "plan", "commit", "drain", "respawn", "reset"}
    MaxFaults = 1
INVARIANTS TypeOK 
PROPERTIES OnTimeRowsEvaluated  
