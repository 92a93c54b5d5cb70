SPECIFICATION Spec
CONSTANTS
    Readers = {r1, r2}
    Writers = {w1}
    Queries = {q1}
    MaxChanges = 2
    MaxVersions = 2
    Faults = {}
SYMMETRY Symmetry
INVARIANT OldPagesUnreachable
CHECK_DEADLOCK FALSE
