SPECIFICATION Spec
CONSTANTS
    u1 = u1
    u2 = u2
    j1 = j1
    j2 = j2
    j3 = j3
    p1 = p1
    p2 = p2
    Users = {u1, u2}
    Jobs = {j1, j2, j3}
    Printers = {p1}
    MaxJobs = 2
    NoUser = NoUser
    NoPrinter = NoPrinter
SYMMETRY Symmetry
CONSTRAINT FewJobs
CHECK_DEADLOCK FALSE
INVARIANTS
    NoThirdStart
    ListsAgree
    PrinterKnowsItsJobs
    HeldIsListed
    ExactForOneUser
PROPERTIES
    OnlyFinishedJobsLeave
    CompletedIsFinal
    UnloadLosesNoJob
