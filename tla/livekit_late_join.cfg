CONSTANTS
    Plugins = {"livekit"}
    MaxEvents = 2
    Tracks = {"t1", "t2", "t3"}
    MaxContext = 1
SPECIFICATION PluginSpec
INVARIANTS
    NoRoomLeftJoined
\* A call comes to rest.
CHECK_DEADLOCK FALSE
