SPECIFICATION Spec
CONSTANTS
    Requests = {p1, p2, p3}
    Users = {u1, u2}
    Locations = {l1}
SYMMETRY Symmetry
PROPERTY ImplementsRegister
CHECK_DEADLOCK FALSE
