CONSTANTS
    UsizeMax = 7
    IoErrors = TRUE
    StreamLen = 2
    FirstCap = 1
    MaxNeed = 2
    MaxRoom = 2
    MaxHeld = 1
    MaxReset = 1
    MaxFinish = 1
    Ranges <- SomeRanges
    FaultyDecoder = TRUE
SPECIFICATION FairSpec
INVARIANTS TypeOK DeliveredInOrder
PROPERTIES BatchKeepsEndOfInput ShortReturnIsExplained StreamIsDelivered
