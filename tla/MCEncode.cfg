CONSTANTS
    MaxEncode = 2
    Targets <- AllTargets
    UsizeMax = 7
    SourceLen = 3
    Windows <- EncodeWindows
    MaxReset = 1
    MaxFinish = 1
    HookBounds <- SomeHookBounds
SPECIFICATION FairSpec
INVARIANTS SafeForAnyTarget HookAskedOncePerValue
PROPERTIES OutputBoundSuffices ImplementsEncodeStream SourceIsEncoded
