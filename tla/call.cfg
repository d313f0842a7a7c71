CONSTANTS
    Parts = {"session", "server"}
    EndReasons <- MCEndReasons
    Directions <- AnyDirection
    Snapshots <- AnySnapshot
    Statuses <- AnyStatus
    IdleLimit = 1
    DurationLimitOn = {TRUE, FALSE}
    EndsInsideAclose = TRUE
    Conns = {c1, c2}
    CallIds = {"a", "b"}
    MaxConnections = 2
    PrepareSuspends = TRUE
    Window = 0
    PruneEvery = 1
    MaxTime = 1
    NoConn = NoConn
SPECIFICATION CallSpec
INVARIANTS
    ReleasedOnceBeforeFreed
    VoiceUntilReleased
    RegistryIsExact
PROPERTIES
    NoCallbackAfterRelease
    ReportedStatusWins
    ImplementsContract
    SlotEventuallyFreed
    FirstUnansweredIsReaped
    AcloseGetsThrough
    ShutdownEndsEveryCall
\* A call that is over stops, and so does a listener; a handler's aclose that
\* awaits session.end() stops a call for good.
CHECK_DEADLOCK FALSE
