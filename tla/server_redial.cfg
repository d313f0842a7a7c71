CONSTANTS
    Parts = {"server"}
    EndReasons <- MCEndReasons
    Directions <- Inbound
    Snapshots <- NoSnapshot
    Statuses <- ActiveOnly
    IdleLimit = 1
    DurationLimitOn = {TRUE}
    EndsInsideAclose = FALSE
    Conns = {c1, c2, c3}
    CallIds = {"a"}
    MaxConnections = 2
    PrepareSuspends = FALSE
    Window = 1
    PruneEvery = 1
    MaxTime = 0
    NoConn = NoConn
SPECIFICATION CallSpec
PROPERTIES
    UnansweredIsReaped
CHECK_DEADLOCK FALSE
