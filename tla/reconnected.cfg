SPECIFICATION Spec
CONSTANTS
    Clients = {c1}
    Keys = {0}
    DCs <- BothDCs
    RackCount <- OneRack
    NodeCount <- Ring_NodeCount
    NContinuum <- Ring_NContinuum
    Route <- RouteEnds
    Protected <- FirstLocal
    Rejecting <- FirstLocal
    Contexts = {0, 1, 2, 3}
    NULL = NULL
    MaxCalls = 1
    MaxCrashes = 1
PROPERTIES
    ReconnectedIsValid
