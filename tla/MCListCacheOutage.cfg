SPECIFICATION Spec
CONSTANTS
    Readers = {r1, r2}
    Writers = {w1}
    Queries = {q1}
    MaxChanges = 2
    MaxVersions = 2
    Faults = {"outage"}
SYMMETRY Symmetry
INVARIANT OutageNeverBreaksApi
CHECK_DEADLOCK FALSE
