SPECIFICATION FairSpec
CONSTANTS
    p1 = p1
    p2 = p2
    n1 = n1
    j1 = j1
    j2 = j2
    x1 = x1
    Pids = {p1, p2}
    Names = {n1}
    JobIds = {j1, j2}
    Extensions = {x1}
    PrinterTypes = {"PRINTER_CHANGE"}
    ExtTypes = {"EXTCB_START_DISCOVERY"}
    MaxListeners = 3
    MaxTasks = 1
    NoSub = NoSub
INVARIANTS
    CounterIsExact
    DeadAreNoticed
PROPERTIES
    DeadAreForgotten
