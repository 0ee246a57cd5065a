SPECIFICATION FleetSpec
CONSTANTS
    d1 = d1
    d2 = d2
    wide = wide
    narrow = narrow
    App = app
    Clients = {app, gui}
    Devices = {d1, d2}
    Shapes = {wide, narrow}
    MaxRate <- MCMaxRate
    Drift <- MCDrift
    MaxDiff = 1
    MaxDuration = 1
    VaryPersist = FALSE
    None = None
    Network = {d1, d2}
    NoInfo = NoInfo
    Duration = 2
    MaxInfos = 2
    MaxCalls = 2
    MaxChanges = 1
INVARIANTS FleetTypeOK FoundInOrder SameRate ClocksAgree
PROPERTIES OtherPartKept SyncedAsAsked SearchEnds
CHECK_DEADLOCK FALSE
