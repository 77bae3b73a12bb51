CONSTANTS
    UsizeMax = 10
    EncodeReset = 1
    EncodeValue = 2
    EncodeFinish = 1
    MinUnits = 1
    MaxUnits = 2
    MaxInput = 4
    PerUnit = 2
    MaxHeld = 1
    MaxReset = 1
    MaxTrailer = 2
    MaxOutput = 10
SPECIFICATION Spec
INVARIANTS CompleteStreamIsWhole ValueIsWhole
