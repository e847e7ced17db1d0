SPECIFICATION Spec
CONSTANTS
    DCs <- BothDCs
    Names = {"r1", "r2"}
    Counts = {1, 2}
    HashNames <- SomeNames
    NULL = NULL
    MaxSetup = 6
    MaxFailures = 1
CHECK_DEADLOCK FALSE
INVARIANTS
    RingsComplete
    ContractSuffices
    EstablishesTopology
    SetupTypeOK
    HashFollowsCaller
