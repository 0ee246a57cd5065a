SPECIFICATION BothSpec
CONSTANTS
    Patterns = {p1, p2}
    FirstId = 1
    Flags = {FALSE, TRUE}
    StopBuffered = FALSE
    RecordsReplays = FALSE
    MayLose = TRUE
    MayInterrupt = TRUE
    MayCrash = TRUE
    MaxFrames = 3
    MaxPerStream = 1
    MaxFiles = 2
INVARIANTS TypeOK ReadBack FooterDescribes 
PROPERTIES LostFrameRaised NoFalseAlarm
CHECK_DEADLOCK FALSE
