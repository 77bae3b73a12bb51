CONSTANTS
    MinUnits = 2
    MaxUnits = 3
    Items <- SourceItems
    MaxEncode = 2
    Targets <- ValueTargets
    UsizeMax = 31
    StreamLen = 3
    Tails <- EmitOrReject
    MarkTargets <- OkOrFails
    Windows <- ConvertWindows
    DMaxReset = 1
    DMaxFinish = 1
    EMaxReset = 0
    EMaxFinish = 1
SPECIFICATION FairSpec
INVARIANTS SafeForAnyCodec ReservedOutputSuffices
PROPERTIES OutputBoundSuffices ImplementsConvertStream StreamIsConverted
