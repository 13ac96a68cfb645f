SPECIFICATION Spec
CONSTANTS
    Cameras = {c1}
    NoCamera = NoCamera
    Requests = {r1}
    NoRequest = NoRequest
    Kinds <- DashboardKinds
    QueueSize = 1
    MaxDelay = 2
    CommitsFail = FALSE
    MaxBacklog = 1
    MaxRequests = 3
    MaxOutages = 1
    MaxFaults = 1
CHECK_DEADLOCK FALSE

    
PROPERTIES
    DeletedForGood
    Recovers
