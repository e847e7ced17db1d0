SPECIFICATION MCSpec
CONSTANTS
    UINT_MOD = 32
    node_count = 4
    DIGITS_PER_INT = 2
    RADIX_VAL = 9
    MaxLen = 4
    MaxLength = 40
    MaxSize = 130
    MaxUpdates = 2
    Algs <- TestedAlgs
    Ring <- ExampleRing
    Workloads <- TestedWorkloads
CHECK_DEADLOCK FALSE
INVARIANTS
    TypeOK
    SelectsSuccessor
    KeysTypeOK
    RingOrderIsNumeric
    GroupsTileString
    AlignmentIrrelevant
    ReadsStayInWord
    NothingLost
    FeedsPaddedMessage
    PortableHash
    CrcIsRemainder
    LowWordOfFnv1a
    SpreadsKeys
PROPERTIES
    WindowHalves
    LookupReturns
