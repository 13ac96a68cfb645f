SPECIFICATION RollupSpec
CONSTANTS
    Cameras = {c1, c2}
    Store = Store
    ZoneNames = {z1}
    HoursPerDay = 2
    UtcOffset = 0
    Dwells = {30}
    Null = Null
    MaxHour = 3
    MaxTracks = 2
    MaxErrors = 1
CHECK_DEADLOCK FALSE
INVARIANTS
    StoreCoversCameras
    
PROPERTIES
    CatchesUp
