SPECIFICATION Spec
CONSTANTS
    Consumers = {c1, c2}
    MaxIssued = 2
    MayDrain = TRUE
    MaxSeg = 2
    MaxLog = 3
    MaxLeases = 3
    MaxFaults = 2
CONSTRAINT FewerFaultsAroundDrain
SYMMETRY ConsumerSymmetry
INVARIANTS
    TypeOK
    ConsumedOnce
    NothingLost
    DoNeverAhead
CHECK_DEADLOCK FALSE
