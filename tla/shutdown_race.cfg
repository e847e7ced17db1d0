SPECIFICATION ShutSpec
CONSTANTS
    Clients = {c1}
    Keys = {k1}
    DCs <- BothDCs
    RackCount <- OneRack
    NodeCount <- ThreeNodes
    NContinuum <- ThreeNodes
    Route <- RouteFirst
    Protected <- FirstLocal
    Rejecting <- NoSlots
    Contexts = {0, 1, 2}
    NULL = NULL
    MaxCalls = 1
    MaxCrashes = 1
CHECK_DEADLOCK FALSE
INVARIANTS
    ShutdownSafe
