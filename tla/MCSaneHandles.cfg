SPECIFICATION FairSpec
CONSTANTS
    t1 = t1
    t2 = t2
    t3 = t3
    s1 = s1
    s2 = s2
    Threads = {t1, t2, t3}
    Scanners = {s1, s2}
    MaxOpens = 2
    NoThread = NoThread
    NoScanner = NoScanner
INVARIANTS
    UsedAlone
    ExitFindsNothingOpen
PROPERTIES
    CloseStopsTheReader
