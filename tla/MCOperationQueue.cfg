SPECIFICATION FairSpec
CONSTANTS
    o1 = o1
    o2 = o2
    o3 = o3
    o4 = o4
    o5 = o5
    Ops = {o1, o2, o3, o4, o5}
    MaxCount = 2
    NoOp = NoOp
INVARIANTS
    QuietWhenStopped
PROPERTIES
    Implements
    AcceptedIsResolved
    StopReturns
