CONSTANTS
    MinUnits = 2
    MaxUnits = 3
    Items <- SomeItems
    IoErrors = TRUE
    StreamLen = 5
    FirstCap = 1
SPECIFICATION FairSpec
INVARIANTS SafeForAnyCodec NeverWaitsForNextValue
PROPERTIES ImplementsValueReader EveryReadReturns
