SPECIFICATION FairSpec
CONSTANTS
    Parts = {p1, p2}
    Earlier = 0
    Grace = 2
    Memory = 0
    Margin = 2
    OrphanAge = 2
    Retain = 1
    Day = 0
    SweepEvery = 1
    FoldMax = 1
    MaxRequests = 1
    MaxFailures = 1
    AppendMax = 1
    ReadMax = 0
    StepBack = 0
    MaxFaults = 1
PROPERTIES GarbageReclaimed UnlinksReceipted
