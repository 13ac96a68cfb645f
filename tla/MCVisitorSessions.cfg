SPECIFICATION Spec
CONSTANTS
    Visitors = {v1, v2}
    Lines = {l1}
    Settings <- DashboardSettings
    None = None
    MaxFrames = 4
    MaxEdits = 1
    MaxFailures = 1
    MaxRestarts = 1
SYMMETRY MCSymmetry
CHECK_DEADLOCK FALSE
INVARIANTS
    NetFollowsSide
    SessionsCiteCrossings
    DwellIsStay
PROPERTIES
    HistoryIsKept
