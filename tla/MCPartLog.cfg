SPECIFICATION Spec
CONSTANTS
    Writers = {w1, w2}
    Epochs = {1, 2}
    Sources = {s1}
    OpKinds = {"add", "merge", "retire"}
    CheckpointEvery = 2
    MaxLog = 4
    MaxBuilt = 5
    MaxParts = 2
    MaxLate = 1
CONSTRAINT ShortSecondEpoch
SYMMETRY WriterSymmetry
INVARIANTS
    TypeOK
    ReadersAccept
    WriterMatchesLog
    
PROPERTIES
    AddsAreOwn
    ImplementsLiveParts
CHECK_DEADLOCK FALSE
