SPECIFICATION FairSpec
CONSTANTS
    Readers = {r1}
    Writers = {w1, w2}
    Queries = {q1}
    MaxChanges = 2
    MaxVersions = 2
    Faults = {"outage", "eviction", "crash"}
INVARIANTS
    TypeOK
    HitIsFresh
PROPERTIES
    NewVersionIsEmpty
    EventuallyFresh
CHECK_DEADLOCK FALSE
