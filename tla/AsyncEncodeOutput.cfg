CONSTANTS
    UsizeMax = 12
    IoErrors = TRUE
    SourceLen = 2
    FirstCap = 1
    MaxEncode = 2
    MaxHeld = 1
    MaxReset = 1
    MaxFinish = 1
    MaxCap = 7
SPECIFICATION AsyncFairSpec
INVARIANTS CancellationIsSafe
PROPERTIES WrittenDespiteDrops
