SPECIFICATION FairSpec
CONSTANTS
    Bit <- MCBit
    HashBit <- MCHashBit
    Key <- MCKey
    KeyHash <- MCKeyHash
    SubHash <- MCSubHash
    BucketCount = 4
    NumHashfns = 2
    CountHalf = 4
PROPERTIES
    PeelReturns

\* peel returns to a caller that is not modelled here.
CHECK_DEADLOCK FALSE
