SPECIFICATION Spec
CONSTANTS
    a = a
    A = A
    b = b
    x = x
    X = X
    Requests = {p1, p2}
    Forms <- MCForms
    Fold <- MCFold
    MaxUsers = 2
    MaxHash = 3
    MaxSessions = 2
    MaxLinks = 1
    Ops = {"register", "login", "logout", "me", "forgot", "confirm", "admin"}
SYMMETRY Symmetry
INVARIANTS
    ResetEndsSessions
    ResetEndsLinks
    TwinsWereConcurrent
PROPERTY OnlyAdminActivates
CHECK_DEADLOCK FALSE
