SPECIFICATION Spec
CONSTANTS
    Patterns = {p1, p2}
    FirstId = 1
    Flags = {FALSE}
    StopBuffered = FALSE
    MayLose = FALSE
    MayInterrupt = TRUE
    MayCrash = FALSE
    MaxFrames = 3
    MaxPerStream = 1
    MaxFiles = 2
PROPERTY InterruptStops
CHECK_DEADLOCK FALSE
