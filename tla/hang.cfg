SPECIFICATION HangSpec
CONSTANTS
    Clients = {c1}
    Keys = {0, 1}
    DCs <- OnlyLocal
    RackCount <- OneRack
    NodeCount <- TwoNodes
    NContinuum <- TwoNodes
    Route <- RouteEnds
    Protected <- FirstLocal
    Rejecting <- NoSlots
    Contexts = {0, 1, 2, 3}
    NULL = NULL
    MaxCalls = 1
    MaxCrashes = 1
    Hanging <- FirstLocal
INVARIANTS
    HangTypeOK
PROPERTIES
    UnaffectedReturns
    RecoversAfterHang
