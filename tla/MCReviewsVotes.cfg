SPECIFICATION FairSpec
CONSTANTS
    Requests = {p1, p2}
    Users = {u1}
    Staff = {u1}
    Locations = {l1, l2}
    Contents = {0}
    MaxReviews = 2
    Ops = {"create", "formDelete", "vote", "unvote", "formEdit"}
    Events = {}
INVARIANTS
    TablesConsistent
    ErrorsHaveCause
PROPERTIES
    ImplementsBoard
    AlwaysAnswered
CHECK_DEADLOCK FALSE
