SPECIFICATION Spec
CONSTANTS
    Cameras = {c1, c2}
    Names = {n1, n2}
    Urls = {u1, u2, bad}
    InvalidUrls = {bad}
    Tasks = {t1, t2}
    Gone = Gone
    Keep = Keep
    MaxRequests = 5
    MaxCrashes = 1
INVARIANTS
    NoStrayCapture
    
PROPERTIES
    NewNamesAreFree
CHECK_DEADLOCK FALSE
SYMMETRY Symmetry
