SPECIFICATION Spec
CONSTANTS
    Cameras = {c1}
    NoCamera = NoCamera
    Requests = {r1, r2}
    NoRequest = NoRequest
    Kinds <- AllKinds
    QueueSize = 1
    MaxDelay = 1
    CommitsFail = TRUE
    MaxBacklog = 1
    MaxRequests = 3
    MaxOutages = 0
    MaxFaults = 1
SYMMETRY MCSymmetry
CHECK_DEADLOCK FALSE
INVARIANTS
    OneProcessPerCamera

    
