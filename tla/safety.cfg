CONSTANTS
    Parts = {"guard", "consult", "tasks", "voice", "sight", "turns", "gate", "startup",
             "tile", "delivery", "recap", "minutes", "speech", "lips"}
    CallIds = {"call1"}
    Window = 2
    PruneEvery = 2
    MaxTime = 5
    MaxAskers = 4
    Tasks = {1, 2}
    Processes = {"p", "q"}
    Undeliverable = {2}
    ResumeLimit = 1
    PrerollFrames = 1
    SilenceFrames = 2
    MinVoiced = 2
    MaxUtterance = 4
    SourceOrder <- OneScreen
    Screens = {"x", "y"}
    PerMinute = 3
    QueueMax = 1
    HistoryMax = 1
    MaxShown = 2
    MaxCharges = 3
    MaxAsks = 3
    MaxWire = 3
    FollowUp = 1
    MaxHeard = 3
    MaxGateTime = 3
    MaxAudio = 2
    MaxNotes = 1
    MaxSpoken = 4
    MaxFrames = 4
    Shapes = {1, 2}
    MaxChars = 3
    MaxMs = 3
    TailWindow = 1
    MaxAnswers = 2
    MaxDelta = 3
    MaxPut = 3
    MaxPlayTime = 3
    LiveLegs = {"c1", "c2"}
    Lines = {1, 2, 3}
    LaneLines = {2, 3}
    NoCall = "none"
    MaxPerHour = 1
    Hour = 2
    RequestsAtOnce = 2
    MaxClock = 3
    Recaps = {1}
    Drains = {11, 12, 13}
    MaxAttempts = 2
    MaxJobs = 1
    MaxCrashes = 1
    Speakers = {"sara", "omar", "agent"}
    Agent = "agent"
    MaxEntry = 3
    MaxTranscript = 2
    MaxFragments = 3
    MaxLines = 3
SPECIFICATION SuiteSpec
INVARIANTS
    SingleUse
    NoAgentServesTwo
    PromisesAreKept
    StoppedIsSilent
    SeesWhatItMay
    LatchIsBacked
    QuietMeansQuiet
    FirstWordsAreHeard
    NewestFrameWins
    NewestCallIsFound
    
    RecapsAreKept
    MinutesPostedOnce
    MinutesAreFaithful
    SpeechKeepsStep
    MouthFollowsText
\* Every part may come to rest, and every clock has its bound.
CHECK_DEADLOCK FALSE
