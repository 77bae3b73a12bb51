CONSTANTS
    UsizeMax = 12
    EncodeReset = 1
    EncodeValue = 1
    EncodeFinish = 1
    IoErrors = TRUE
    SourceLen = 2
    FirstCap = 1
    MaxEncode = 2
    MaxHeld = 1
    MaxReset = 1
    MaxFinish = 1
    MaxRaw = 2
    MaxCap = 7
SPECIFICATION FairSpec
INVARIANTS SafeForAnyEncoder NoUnitLostOrInvented
PROPERTIES StreamIsWritten
