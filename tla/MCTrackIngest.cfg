SPECIFICATION Spec
CONSTANTS
    Zones = {z1}
    Retries = 2
    FlushEvery = 3
    Limit = 2
    None = None
    MaxVisits = 2
    MaxFrames = 4
    MaxFaults = 1
    MaxRestarts = 1
CHECK_DEADLOCK FALSE
INVARIANTS
    
    
    FirstPageIsNewest
PROPERTIES
    
    PostsEnd
