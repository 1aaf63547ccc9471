SPECIFICATION FairSpec
CONSTANTS
    j1 = j1
    j2 = j2
    j3 = j3
    Jobs = {j1}
    UsbJobs = {j1}
    MaxCalls = 2
    NoJob = NoJob
CHECK_DEADLOCK FALSE
PROPERTIES
    SenderEnds
    CanceledLeaves
