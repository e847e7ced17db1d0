SPECIFICATION Spec
CONSTANTS
    Clients = {c1, c2}
    Keys = {0, 1}
    DCs <- OnlyLocal
    RackCount <- OneRack
    NodeCount <- ThreeSlots
    NContinuum <- TwoNodes
    Route <- RouteEnds
    Protected <- SecondLocal
    Rejecting <- SecondLocal
    Contexts = {0, 1, 2}
    NULL = NULL
    MaxCalls = 2
    MaxCrashes = 1
SYMMETRY Symmetry
INVARIANTS
    TypeOK
    ExclusiveUse
    MutexReleased
    ContextOwnership
    ServedByOwner
    LeakNeedsPassword
PROPERTIES
    ChangedByHolder
    NoFreeUnderCommand
    ImplementsService
