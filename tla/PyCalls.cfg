SPECIFICATION Spec
CONSTANTS
    Ops = {"get", "subscribe", "next", "stop"}
    MayFail = TRUE
    MayClose = TRUE
    MayTimeout = TRUE
    SendBuffer = 5
    MaxRequests = 5
    MaxEvents = 2
INVARIANTS TypeOK NothingSkipped
PROPERTIES CallsReturn ImplementsChannel
