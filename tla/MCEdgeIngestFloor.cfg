SPECIFICATION Spec
CONSTANTS
    Consumers = {c1}
    MaxIssued = 2
    MayDrain = TRUE
    MaxSeg = 2
    MaxLog = 3
    MaxLeases = 3
    MaxFaults = 0
INVARIANTS
    FloorsAreAppendable
CHECK_DEADLOCK FALSE
