SPECIFICATION FairSpec
CONSTANTS
    Clients = {c1}
    Keys = {k1}
    DCs <- BothDCs
    RackCount <- Failover_RackCount
    NodeCount <- OneNode
    NContinuum <- OneNode
    Route <- RouteFirst
    Protected <- FirstLocal
    Rejecting <- NoSlots
    Contexts = {0, 1, 2, 3, 4}
    NULL = NULL
    MaxCalls = 1
    MaxCrashes = 1
PROPERTIES
    CommandReturns
    HealthyNodeRecovers
