SPECIFICATION Spec
CONSTANTS
    Requests = {p1, p2}
    Users = {u1, u2}
    Staff = {u2}
    Locations = {l1}
    Contents = {c1, c2}
    MaxReviews = 1
    Ops = {"create", "update", "delete", "formCreate"}
    Events = {"soft delete", "restore", "broker", "cache", "crash"}
SYMMETRY Symmetry
INVARIANTS
    TypeOK
    HiddenMeans404
    CreatedMeansQueued
    ErrorsHaveCause
PROPERTIES
    DeletedStaysDeleted
    NoLostUpdate
CHECK_DEADLOCK FALSE
