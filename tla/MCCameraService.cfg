SPECIFICATION ServiceSpec
CONSTANTS
    MaxStarts = 2
    BufferSize = 2
    Policies = {0, 1}
    MaxDelay = 4
    MaxFailures = 2
    GraceChecks = 3
    MaxFrames = 4
    MaxOutages = 3
CHECK_DEADLOCK FALSE
INVARIANTS
    NotRunningIsStopped
    FreshestFrames
PROPERTIES
    ReadsInTheEnd
