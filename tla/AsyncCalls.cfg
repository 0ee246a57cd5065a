SPECIFICATION Spec
CONSTANTS
    Clients = {c1, c2, c3}
    Nobody = Nobody
    Runner = Runner
    Outsider = Outsider
    Chain = Chain
    StartAsync = TRUE
    HasRunner = TRUE
    SharedContext = TRUE
    Ops = {"get", "subscribe"}
    SubscribesAlone = FALSE
    MayFail = TRUE
    MayClose = FALSE
    MaxRequests = 3
    MaxEvents = 2
    MaxTimeouts = 0
    MaxForeign = 1
INVARIANTS CallsInvUndisturbed OwnResponseUndisturbed SlotAwaited EventsInOrder
PROPERTY ChannelUndisturbed
SYMMETRY ClientSymmetry
CHECK_DEADLOCK FALSE
