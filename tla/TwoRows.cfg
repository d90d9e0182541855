SPECIFICATION FairSpec
CONSTANTS
    Bit <- MCBit
    HashBit <- MCHashBit
    Key <- SixKeys
    KeyHash <- MCKeyHash
    SubHash <- TwoRows
    BucketCount = 5
    NumHashfns = 2
    CountHalf = 8
INVARIANTS
    TypeOK
    IInv
    TablesEncodeSets
    ResidueEncodesRest
    ResultIsExact
    PeelsDownToCore
PROPERTIES
    PeelReturns
    ImplementsReconciliation
\* peel returns to a caller that is not modelled here.
CHECK_DEADLOCK FALSE
