SPECIFICATION FairSpec
CONSTANTS
    Consumers = {c1}
    MaxIssued = 2
    MayDrain = FALSE
    MaxSeg = 3
    MaxLog = 8
    MaxLeases = 8
    MaxFaults = 1
PROPERTIES
    EverySegmentRecorded
CHECK_DEADLOCK FALSE
