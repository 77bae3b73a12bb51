CONSTANTS
    MinUnits = 1
    MaxUnits = 2
    Items <- FaultyItems
    Faulty = TRUE
    UsizeMax = 7
    StreamLen = 2
    Tails <- AllTails
    Windows <- FourWindows
    BadInIndex = FALSE
    MaxReset = 1
    MaxFinish = 1
    HookBounds <- SomeHookBounds
    Strict = FALSE
SPECIFICATION Spec
INVARIANTS DecodesOnlyOpenStreams CursorsStayInBuffers
PROPERTIES ProgressHonoursContract
