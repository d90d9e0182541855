CONSTANTS
    Word32 <- MCWord32
    Word64 <- MCWord64
    MaxVarint = 3
    OutBuffer = 7
    Objects <- MCObjects
    Earlier <- MCEarlier
SPECIFICATION TransferSpec
INVARIANTS
    TypeOK
    SizesAgree
    DeliveredIntact
    MergeAgreesWithParse
CHECK_DEADLOCK FALSE
