CONSTANTS
    MinUnits = 2
    MaxUnits = 3
    Items <- SomeItems
    Faulty = FALSE
    UsizeMax = 7
    StreamLen = 4
    Tails <- AllTails
    Windows <- FourWindows
    BadInIndex = TRUE
    MaxReset = 1
    MaxFinish = 1
    HookBounds <- SomeHookBounds
    Strict = FALSE
SPECIFICATION Spec
INVARIANTS HonestCodecNeverPanics
PROPERTIES EofNeverNeedsInput CapacityFailureIsRetryable ImplementsDecodeStream
