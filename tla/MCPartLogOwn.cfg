SPECIFICATION Spec
CONSTANTS
    Writers = {w1}
    Epochs = {1}
    Sources = {s1}
    OpKinds = {"add"}
    CheckpointEvery = 2
    MaxLog = 3
    MaxBuilt = 4
    MaxParts = 2
    MaxLate = 1
INVARIANTS
    OwnEntryNeverFences
CHECK_DEADLOCK FALSE
