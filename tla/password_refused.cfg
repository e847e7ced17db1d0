SPECIFICATION FairSpec
CONSTANTS
    Clients = {c1}
    Keys = {k1}
    DCs <- BothDCs
    RackCount <- OneRack
    NodeCount <- OneNode
    NContinuum <- OneNode
    Route <- RouteFirst
    Protected <- FirstLocal
    Rejecting <- FirstLocal
    Contexts = {0, 1, 2}
    NULL = NULL
    MaxCalls = 1
    MaxCrashes = 1
PROPERTIES
    RecoversBesideRejecting
