SPECIFICATION FairSpec
CONSTANTS
    a1 = a1
    a2 = a2
    j1 = j1
    Apps = {a1, a2}
    Jobs = {j1}
    MaxCount = 1
    MaxDebt = 1
    NoJob = NoJob
CHECK_DEADLOCK FALSE
INVARIANTS
    CountCoversTheApps
PROPERTIES
    UnloadedInTheEnd
