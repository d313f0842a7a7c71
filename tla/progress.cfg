CONSTANTS
    Messages = {"m1", "m2"}
    Conversation <- OneConversation
    Author <- OnlyAnnInPrivate
    Nobody = "nobody"
    Capacity = 1
    MaxSenders = 1
    Window = 1
    MaxTime = 2
    MaxTurns = 3
    ShowCalls = {"a", "b", "c"}
    Pictures = 2
    Plugins = {"elevenlabs", "cartesia", "deepgram", "livekit", "hermes"}
    MaxEvents = 2
    Tracks = {"t1", "t2", "t3"}
    MaxContext = 1
SPECIFICATION Spec
INVARIANTS
    TurnsInOrder
    RedeliveriesAreHarmless
    ReplacedStaysReplaced
    OneVoice
PROPERTIES
    EveryTurnEnds
    EveryStopReturns
    RelaysOneLine
    GoneProviderFreesTheCall
\* A channel, a slideshow and a call come to rest.
CHECK_DEADLOCK FALSE
