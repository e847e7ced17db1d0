SPECIFICATION Spec
CONSTANTS
    Clients = {c1}
    Keys = {k1}
    DCs <- BothDCs
    RackCount <- Example_RackCount
    NodeCount <- OneNode
    NContinuum <- OneNode
    Route <- RouteFirst
    Protected <- NoSlots
    Rejecting <- NoSlots
    Contexts = {0, 1, 2}
    NULL = NULL
    MaxCalls = 1
    MaxCrashes = 1
INVARIANTS
    EveryRackTried
