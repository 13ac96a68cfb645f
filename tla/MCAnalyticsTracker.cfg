SPECIFICATION Spec
CONSTANTS
    Tracks = {t1}
    Places <- MCPlaces
    Zones <- MCZones
    GridSize = 2
    Unit = 4
    Throttle = 3
    LostAfter = 1
    ReloadEvery = 2
    FlushEvery = 2
    None = None
    MaxTime = 8
    MaxGap = 2
    MaxEdits = 1
    MaxFailures = 1
    MaxRestarts = 1
CHECK_DEADLOCK FALSE
INVARIANTS
    RowsFollowTracks
    HeatmapCountsOnce

    
