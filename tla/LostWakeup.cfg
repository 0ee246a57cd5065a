SPECIFICATION AnsweringSpec
CONSTANTS
    Clients = {c1}
    Nobody = Nobody
    Runner = Runner
    Outsider = Outsider
    Chain = Chain
    StartAsync = TRUE
    HasRunner = TRUE
    SharedContext = FALSE
    Ops = {"get"}
    SubscribesAlone = FALSE
    MayFail = FALSE
    MayClose = FALSE
    MaxRequests = 3
    MaxEvents = 1
    MaxTimeouts = 0
    MaxForeign = 0
PROPERTY CallsReturn
CHECK_DEADLOCK FALSE
