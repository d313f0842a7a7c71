CONSTANTS
    Parts = {"session"}
    EndReasons <- MCEndReasons
    Directions <- Inbound
    Snapshots <- NoSnapshot
    Statuses <- ActiveOnly
    IdleLimit = 1
    DurationLimitOn = {TRUE}
    EndsInsideAclose = FALSE
    Conns = {c1}
    CallIds = {"a"}
    MaxConnections = 2
    PrepareSuspends = FALSE
    Window = 0
    PruneEvery = 1
    MaxTime = 0
    NoConn = NoConn
SPECIFICATION CallSpec
PROPERTIES
    CeilingEndsTheCall
CHECK_DEADLOCK FALSE
