SPECIFICATION Spec
CONSTANTS
    Requests = {p1, p2, p3}
    Viewers = {v1}
    TTL = 2
    MaxTime = 4
    MaxViews = 2
    Events = {"outage", "flush", "crash", "soft delete", "remove"}
SYMMETRY Symmetry
INVARIANTS
    TypeOK
    AtMostOncePerPeriod
    KeyMeansView
CHECK_DEADLOCK FALSE
