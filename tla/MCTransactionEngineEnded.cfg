SPECIFICATION Spec
CONSTANTS
    Cameras = {c1, c2}
    TrackIds = {t1}
    SessionIds = {s1, s2, s3}
    NoSession = NoSession
    Zones <- MCZones
    ZoneKinds <- MCZoneKinds
    Instants <- MCInstants
    MaxCrossings = 1
    MaxFaults = 0
    UtcOffset = 0
SYMMETRY MCSymmetry
CHECK_DEADLOCK FALSE
INVARIANTS
    EndedAreCounted
