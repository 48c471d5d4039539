SPECIFICATION Spec
CONSTANTS
    Parts = {p1, p2}
    Earlier = 3
    Grace = 3
    Memory = 0
    Margin = 3
    OrphanAge = 2
    Retain = 1
    Day = 0
    SweepEvery = 1
    FoldMax = 1
    MaxRequests = 2
    MaxFailures = 2
    AppendMax = 1
    ReadMax = 0
    StepBack = 1
    MaxFaults = 1
INVARIANTS TypeOK LiveFilesPresent ReadersFindFiles ReceiptsTrue
SYMMETRY Symmetry
