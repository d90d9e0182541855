SPECIFICATION FairSpec
CONSTANTS
    N = 5
    Parties = 2
    Coefficient <- AddRemoveThrice
    Bit <- MCBit
    HashBit <- MCHashBit
    Key <- OtherKeys
    KeyHash <- MCKeyHash
    SubHash <- ThreeRows
    BucketCount = 4
    NumHashfns = 3
INVARIANTS
    ResidueEncodesRest
PROPERTIES
    PeelReturns
\* peel returns to a caller that is not modelled here.
CHECK_DEADLOCK FALSE
