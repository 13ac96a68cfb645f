SPECIFICATION Spec
CONSTANTS
    MaxVisitors = 2
    MinHits = 2
    MaxLost = 2
    None = None
    Zones = {till, aisle}
    Checkouts = {till}
    MinStay = 1
    MinCheckout = 1
    ShortStay = 1
    LongStay = 3
    Cooldown = 2
    MaxTime = 4
    MaxGap = 2
    MaxEdits = 1
    MaxFailures = 1
CHECK_DEADLOCK FALSE
INVARIANTS
    AbsenceIsBounded
    SessionsAreFollowed
    TillTimesAgree
    ReportsAddUp
