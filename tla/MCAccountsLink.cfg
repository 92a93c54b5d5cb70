SPECIFICATION Spec
CONSTANTS
    a = a
    A = A
    b = b
    x = x
    X = X
    Requests = {p1, p2}
    Forms <- MCOneForm
    Fold <- MCFold
    MaxUsers = 2
    MaxHash = 3
    MaxSessions = 1
    MaxLinks = 1
    Ops = {"register", "forgot", "confirm"}
SYMMETRY Symmetry
INVARIANT LinksAreSingleUse
CHECK_DEADLOCK FALSE
