SPECIFICATION Spec
CONSTANTS
    Pods = {p1, p2}
    NoPod = NoPod
    TTL = 3
    Margin = 1
    Drift = 1
    MaxTime = 4
    MaxEpoch = 2
    MaxStrays = 1
SYMMETRY PodSymmetry
INVARIANTS
    TypeOK
    OneCommitter
    OpenGateIsProtected
PROPERTIES
    GateEpochsOrdered
CHECK_DEADLOCK FALSE
