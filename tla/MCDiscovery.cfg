SPECIFICATION FairDiscoverySpec
CONSTANTS
    a1 = a1
    a2 = a2
    e1 = e1
    Apps = {a1, a2}
    Extensions = {e1}
    MaxConnections = 2
    MaxTasks = 2
CHECK_DEADLOCK FALSE
INVARIANTS
    DiscoveryIsWatched
PROPERTIES
    DriversStop
    ExtensionsStop
