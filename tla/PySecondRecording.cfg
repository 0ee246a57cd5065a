SPECIFICATION Spec
CONSTANTS
    Patterns = {p1, p2}
    FirstId = 1
    Flags = {FALSE}
    StopBuffered = FALSE
    MayLose = FALSE
    MayInterrupt = FALSE
    MayCrash = FALSE
    MaxFrames = 3
    MaxPerStream = 2
    MaxFiles = 2
INVARIANT ReadBack
CHECK_DEADLOCK FALSE
