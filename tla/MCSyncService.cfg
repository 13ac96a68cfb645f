SPECIFICATION SyncSpec
CONSTANTS
    r1 = r1
    r2 = r2
    r3 = r3
    visits = visits
    tills = tills
    Records = {r1, r2, r3}
    Tables = {visits, tills}
    TableOf <- TillsAndVisits
    Limit = 1
    MaxDelay = 2
    MaxFaults = 2
INVARIANTS
    ResendsAreFaults
PROPERTIES
    ImplementsOutbox
    SyncedInTheEnd
