SPECIFICATION FairSpec
CONSTANTS
    a1 = a1
    a2 = a2
    j1 = j1
    j2 = j2
    Apps = {a1, a2}
    Jobs = {j1, j2}
    NumFiles = 2
CHECK_DEADLOCK FALSE
INVARIANTS
    MarkedByAll
PROPERTIES
    IsDecided
