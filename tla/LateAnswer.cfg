SPECIFICATION Spec
CONSTANTS
    Clients = {c1, c2}
    Nobody = Nobody
    Runner = Runner
    Outsider = Outsider
    Chain = Chain
    StartAsync = TRUE
    HasRunner = FALSE
    SharedContext = TRUE
    Ops = {"get"}
    SubscribesAlone = FALSE
    MayFail = FALSE
    MayClose = FALSE
    MaxRequests = 2
    MaxEvents = 0
    MaxTimeouts = 0
    MaxForeign = 1
INVARIANT OwnResponse
CHECK_DEADLOCK FALSE
