CONSTANTS
    MinUnits = 2
    MaxUnits = 3
    Items <- StrictItems
    Faulty = FALSE
    UsizeMax = 7
    StreamLen = 5
    Tails <- OnlyReject
    Windows <- UpToThree
    BadInIndex = FALSE
    MaxReset = 0
    MaxFinish = 0
    HookBounds <- NoHookOutput
    Strict = TRUE
SPECIFICATION CallerSpec
PROPERTIES OutputBoundSuffices StreamIsConsumed
CHECK_DEADLOCK FALSE
