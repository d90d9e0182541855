SPECIFICATION Spec
CONSTANTS
    num_strata = 4
    IntBits = 4
    Bit <- MCBit
    HashBit = {}
    Key <- StrataKeys
    KeyHash <- MCKeyHash
    SubHash <- MCSubHash
    BucketCount = 4
    NumHashfns = 2
    CountHalf = 16
INVARIANTS
    IInv
    EstimateIsScaledCount
\* estimate_diff returns to a caller that is not modelled here.
CHECK_DEADLOCK FALSE
