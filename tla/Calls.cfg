SPECIFICATION Spec
CONSTANTS
    Clients = {c1, c2}
    Nobody = Nobody
    Runner = Runner
    Outsider = Outsider
    Chain = Chain
    StartAsync = FALSE
    HasRunner = FALSE
    SharedContext = FALSE
    Ops = {"get", "subscribe", "open", "next"}
    SubscribesAlone = TRUE
    MayFail = TRUE
    MayClose = TRUE
    MaxRequests = 3
    MaxEvents = 2
    MaxTimeouts = 3
    MaxForeign = 0
INVARIANTS TypeOK CallsInvUndisturbed OwnResponseUndisturbed NoStrayRead SlotAwaited EventsInOrder
PROPERTIES CallsReturnUnlessStuck ChannelUndisturbed
CHECK_DEADLOCK FALSE
