SPECIFICATION FairSpec
CONSTANTS
    MayReset = TRUE
    MayEnd = TRUE
    MaxChunks = 2
    MaxStops = 1
    MaxInterrupts = 2
INVARIANTS TypeOK FileIsPrefix GracefulStop StopReturnsRest
PROPERTY CallsReturn
CHECK_DEADLOCK FALSE
