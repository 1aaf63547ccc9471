SPECIFICATION Spec
CONSTANTS
    j1 = j1
    j2 = j2
    j3 = j3
    Jobs = {j1, j2, j3}
    UsbJobs = {}
    MaxCalls = 1
    NoJob = NoJob
SYMMETRY Symmetry
CONSTRAINT FewJobs
CHECK_DEADLOCK FALSE
INVARIANTS
    HandOverIsExclusive
    WorkIsServed
    NoJobIsLost
PROPERTIES
    ImplementsPrintClient
