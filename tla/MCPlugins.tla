------------------------------ MODULE MCPlugins ------------------------------
(***************************************************************************)
(* The provider plugins, each against the contract of RelayContract: a     *)
(* behaviour is a behaviour of one plugin, chosen at the start.            *)
(***************************************************************************)
EXTENDS LiveKitCall, Integers

CONSTANTS Plugins, MaxEvents

VARIABLES plugin,
    tool, lastAudio, lastCut, played,
    keepalive, function,
    batch, filed

ElevenLabs == INSTANCE ElevenLabsCall
Cartesia == INSTANCE CartesiaCall
Deepgram == INSTANCE DeepgramCall
Hermes == INSTANCE HermesCall

eleven == <<tool, lastAudio, lastCut, played>>
livekit == <<media, context, lateJoin>>
hermes == <<batch, filed>>
pluginVars == <<plugin, relayVars, eleven, keepalive, function, livekit, hermes>>

NothingRunning ==
    /\ tool = "none" /\ lastAudio = 0 /\ lastCut = 0 /\ played = 0
    /\ keepalive = FALSE /\ function = "none"
    /\ track = [t \in Tracks |-> "new"] /\ pump = [t \in Tracks |-> "none"]
    /\ claim = "nobody" /\ bound = FALSE /\ queued = 0 /\ published = 0 /\ lateJoin = FALSE
    /\ batch = "none" /\ filed = FALSE

PluginInit ==
    /\ NothingRunning
    /\ plugin \in Plugins
    /\ \/ plugin = "elevenlabs" /\ ElevenLabs!ElevenInit
       \/ plugin = "cartesia" /\ Cartesia!CartesiaInit
       \/ plugin = "deepgram" /\ Deepgram!DeepgramInit
       \/ plugin = "livekit" /\ LiveKitInit
       \/ plugin = "hermes" /\ Hermes!HermesInit

\* No call is relayed.
NoPlugin == NothingRunning /\ plugin = "none" /\ CallInit("over", FALSE)

ByElevenLabs == plugin = "elevenlabs" /\ UNCHANGED <<plugin, keepalive, function, livekit, hermes>>
ByCartesia == plugin = "cartesia" /\ UNCHANGED <<plugin, eleven, function, livekit, hermes>>
ByDeepgram == plugin = "deepgram" /\ UNCHANGED <<plugin, eleven, livekit, hermes>>
ByLiveKit == plugin = "livekit" /\ UNCHANGED <<plugin, eleven, keepalive, function, hermes>>
ByHermes == plugin = "hermes" /\ UNCHANGED <<plugin, eleven, keepalive, function, livekit>>

PluginNext ==
    \/ ElevenLabs!ElevenNext /\ ByElevenLabs
    \/ Cartesia!CartesiaNext /\ ByCartesia
    \/ Deepgram!DeepgramNext /\ ByDeepgram
    \/ LiveKitNext /\ ByLiveKit
    \/ Hermes!HermesNext /\ ByHermes

\* The event loop runs whatever is ready; a dial is bounded by the session's
\* on_start timeout; a disconnect returns.
PluginFairness ==
    /\ WF_pluginVars(ElevenLabs!ElevenSteps /\ ByElevenLabs)
    /\ WF_pluginVars(Cartesia!CartesiaSteps /\ ByCartesia)
    /\ WF_pluginVars((Deepgram!DeepgramSteps \/ Deepgram!DialSteps) /\ ByDeepgram)
    /\ WF_pluginVars(LiveKitSteps /\ ByLiveKit)
    /\ WF_pluginVars(Hermes!HermesSteps /\ ByHermes)

PluginSpec == PluginInit /\ [][PluginNext]_pluginVars /\ PluginFairness

\* A LiveKit room joined after aclose disconnected is nobody's line: see
\* NoRoomLeftJoined.
Relay == INSTANCE RelayContract WITH
    line <- IF line # "open" \/ lateJoin THEN "down"
            ELSE IF starting \in {"greeting", "regreeting"} THEN "dialled" ELSE "up",
    released <- sess = "over"

-----------------------------------------------------------------------------
\* Every plugin's socket keeps RelayContract: nobody's call is over with the
\* conversation still up, and a late connection is hung up again, but for a LiveKit
\* room whose join outlasts the release.
RelaysOneLine == Relay!ContractSpec

\* A call whose provider has gone, or that closes for any other reason, is over
\* in the end: no read loop, close and teardown wait for each other for good.
GoneProviderFreesTheCall == (sess # "up" \/ line = "shut") ~> sess = "over"
==============================================================================
