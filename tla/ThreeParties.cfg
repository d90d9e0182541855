SPECIFICATION TrialSpec
CONSTANTS
    N = 3
    Parties = 3
    Coefficient = {1}
    Bit <- MCBit
    HashBit <- MCHashBit
    Key <- FourKeys
    KeyHash <- MCKeyHash
    SubHash <- TwoRows
    BucketCount = 5
    NumHashfns = 2
INVARIANTS
    TypeOK
    ResultIsExact
    PeelsDownToCore
    TrialPasses
PROPERTIES
    ImplementsMultiSetReconciliation
\* peel returns to a caller that is not modelled here.
CHECK_DEADLOCK FALSE
