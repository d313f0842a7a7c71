----------------------------- MODULE ProgressProofs -----------------------------
(***************************************************************************)
(* Theorems about the parts of a call that somebody waits for: the         *)
(* provider plugins (plugins/) and the chat channel (chat.py).             *)
(***************************************************************************)
EXTENDS MCPlugins, ChatChannel, FiniteSetTheorems, SequenceTheorems, TLAPS

(***************************************************************************)
(* The LiveKit plugin's pumps.                                             *)
(***************************************************************************)

\* OneVoice says nothing of the claim, which is what makes it true: a track the room
\* still carries is relayed by the claim's holder only, and a new track by nobody yet.
VoiceInv ==
    /\ track \in [Tracks -> {"new", "subscribed", "gone"}]
    /\ pump \in [Tracks -> {"none", "relaying", "over"}]
    /\ \A t \in Tracks :
           /\ pump[t] = "relaying" /\ track[t] = "subscribed" => claim = t
           /\ pump[t] = "relaying" => track[t] # "new"

\* The claim is taken by one pump at a time and given back by its holder only
\* (LiveKitCall._start_pump, _pump).
THEOREM VoiceInvariant == LiveKitSpec => []VoiceInv
<1>1. LiveKitInit => VoiceInv
  BY DEF LiveKitInit, VoiceInv
<1>2. VoiceInv /\ [LiveKitNext]_livekitVars => VoiceInv'
  <2> SUFFICES ASSUME VoiceInv, [LiveKitNext]_livekitVars PROVE VoiceInv'
    OBVIOUS
  <2> USE DEF VoiceInv
  <2>1. ASSUME UNCHANGED media PROVE VoiceInv'
    BY <2>1 DEF media
  <2>2. ASSUME NEW t \in Tracks, AudioSubscribed(t) PROVE VoiceInv'
    <3>1. /\ track[t] = "new" /\ track' = [track EXCEPT ![t] = "subscribed"] /\ StartPump(t)
      BY <2>2 DEF AudioSubscribed
    <3>2. CASE claim = "nobody"
      <4>1. \A u \in Tracks : ~(pump[u] = "relaying" /\ track[u] = "subscribed")
        BY <3>2, LiveKitAssumption DEF LiveKitAssumption
      <4> QED BY <3>1, <3>2, <4>1 DEF StartPump
    <3>3. CASE claim # "nobody"
      BY <3>1, <3>3 DEF StartPump
    <3> QED BY <3>2, <3>3
  <2>3. ASSUME NEW t \in Tracks, Unsubscribed(t) PROVE VoiceInv'
    BY <2>3 DEF Unsubscribed
  <2>4. ASSUME NEW t \in Tracks, PumpEnds(t) PROVE VoiceInv'
    BY <2>4 DEF PumpEnds, Unclaims
  <2>5. CASE Disconnects
    BY <2>5 DEF Disconnects
  <2>6. CASE AgentLeaves \/ RoomDropped \/ ContextArrives \/ (CallCloses /\ UNCHANGED <<media, context>>)
    BY <2>1, <2>6 DEF AgentLeaves, RoomDropped, ContextArrives, media
  <2>7. CASE AsksToRelease \/ DeletesRoom \/ Joins \/ StartFails \/ SetUp
    BY <2>1, <2>7 DEF AsksToRelease, DeletesRoom, Joins, StartFails, SetUp, media
  <2>8. CASE UNCHANGED livekitVars
    BY <2>1, <2>8 DEF livekitVars
  <2> QED BY <2>2, <2>3, <2>4, <2>5, <2>6, <2>7, <2>8 DEF LiveKitNext, LiveKitSteps
<1> QED BY <1>1, <1>2, PTL DEF LiveKitSpec

\* However tracks come and go while a pump still winds down, the caller hears at
\* most one of those the room carries, for any number of tracks (LiveKitCall).
THEOREM OneVoiceOnly == LiveKitSpec => []OneVoice
<1>1. VoiceInv => OneVoice
  BY DEF VoiceInv, OneVoice, Heard
<1> QED BY <1>1, VoiceInvariant, PTL

(***************************************************************************)
(* Every plugin keeps the contract of RelayContract.                       *)
(***************************************************************************)

\* The read loop is gone only with its socket, a dial has no socket yet, and an
\* open socket is the handler's own, or not greeted yet, until the release began.
DialledInStep ==
    /\ reader \in {"gone", "disposing", "reporting"} => line # "open"
    /\ starting \in {"dialling", "redialling"} => line # "open" /\ reader = "none"
    /\ starting \in {"greeting", "regreeting"} => reader = "none"
    /\ line = "open" => owned \/ starting \in {"greeting", "regreeting"} \/ releasing # "no"
    /\ handlerClosed => releasing # "no"
    /\ handlerClosed \in BOOLEAN /\ owned \in BOOLEAN

\* An open session is the handler's own, or about to be closed.
HermesInStep ==
    /\ line = "open" => owned \/ releasing \in {"unwinding", "closing"}
    /\ starting = "dialling" /\ releasing = "no" => owned
    /\ owned \/ starting = "joining" => releasing = "no"
    /\ starting \notin {"greeting", "regreeting"}

\* A room is deleted after it was left, and only one that was still being joined when
\* it should have been left is joined then.
LiveKitInStep ==
    /\ starting = "joining" => line # "open"
    /\ releasing \in {"deleting", "done"} => lateJoin \/ (line # "open" /\ starting # "joining")
    /\ sess = "over" => releasing = "done"
    /\ starting \notin {"greeting", "regreeting"}

RelayInv ==
    /\ plugin \in {"elevenlabs", "cartesia", "deepgram"} => DialledInStep
    /\ plugin = "hermes" => HermesInStep
    /\ plugin = "livekit" => LiveKitInStep

Greeting == starting \in {"greeting", "regreeting"}

\* What the contract sees of the line.
Stands == line = "open" /\ ~lateJoin

\* Until the handler is released, and once it is, the line may be dialled when it is
\* down, and answer or be hung up at any time.
LEMMA LineMoves ==
    ASSUME sess = "over" <=> sess' = "over",
           Stands /\ Stands' /\ Greeting' => Greeting
    PROVE  [Relay!ContractNext]_Relay!contractVars
<1> DEFINE Mapped == IF line # "open" \/ lateJoin THEN "down" ELSE IF Greeting THEN "dialled" ELSE "up"
           Released == sess = "over"
<1>1. Mapped \in {"down", "dialled", "up"} /\ Mapped' \in {"down", "dialled", "up"}
  BY DEF Greeting
<1>2. Released' = Released
  OBVIOUS
<1>3. Mapped' = "dialled" => Mapped \in {"down", "dialled"}
  BY DEF Stands
<1>4. /\ Relay!contractVars = <<Mapped, Released>>
      /\ Relay!Dial <=> Mapped = "down" /\ Mapped' = "dialled" /\ Released' = Released
      /\ Relay!Answer <=> Mapped # "up" /\ Mapped' = "up" /\ Released' = Released
      /\ Relay!HangUp <=> Mapped # "down" /\ Mapped' = "down" /\ Released' = Released
  BY DEF Relay!contractVars, Relay!Dial, Relay!Answer, Relay!HangUp, Greeting
<1>5. Mapped' = Mapped => UNCHANGED Relay!contractVars
  BY <1>2 DEF Relay!contractVars, Greeting
<1> HIDE DEF Mapped, Released
<1> QED BY <1>1, <1>2, <1>3, <1>4, <1>5 DEF Relay!ContractNext

\* A handler is released with its line down, or dialled and not answered yet.
LEMMA LineIsReleased ==
    ASSUME sess # "over", sess' = "over", Stands' <=> Stands, starting' = starting,
           Stands => Greeting
    PROVE  Relay!ContractNext
BY DEF Relay!ContractNext, Relay!Release, Greeting, Stands

\* A connection is kept, or nobody's when the handler has been closed meanwhile.
LEMMA KeptOrDropped ==
    ASSUME DialledInStep, reader' = "reading", starting' \in {"dropping", "over"},
           owned' = ~handlerClosed, UNCHANGED <<handlerClosed, releasing>>
    PROVE  DialledInStep'
<1>1. handlerClosed \in BOOLEAN /\ (handlerClosed => releasing # "no")
  BY DEF DialledInStep
<1>2. owned' \in BOOLEAN /\ (handlerClosed \/ owned')
  BY <1>1, Zenon
<1> QED BY <1>1, <1>2 DEF DialledInStep

\* Every step of the ElevenLabs plugin keeps line and handler in step.
LEMMA ElevenLabsKeeps == DialledInStep /\ ElevenLabs!ElevenNext => DialledInStep'
<1> USE DEF DialledInStep, ElevenLabs!EndsTheCall, ElevenLabs!ShutsLine, ElevenLabs!StaysUp,
            ElevenLabs!relayVars, ElevenLabs!Voice, ElevenLabs!Live
<1>1. DialledInStep /\ ElevenLabs!Connects => DialledInStep'
  BY KeptOrDropped DEF ElevenLabs!Connects, ElevenLabs!KeepsIt
<1>2. DialledInStep /\ (ElevenLabs!DialFails \/ ElevenLabs!RedialFails \/ ElevenLabs!HangsUpLate) => DialledInStep'
  BY DEF ElevenLabs!DialFails, ElevenLabs!RedialFails, ElevenLabs!HangsUpLate
<1>3. DialledInStep /\ ElevenLabs!Cancelled => DialledInStep'
  BY DEF ElevenLabs!Cancelled, ElevenLabs!StartCancelled
<1>4. DialledInStep /\ (ElevenLabs!AgentEndsCall \/ ElevenLabs!ProviderGoes \/ ElevenLabs!SocketReported) => DialledInStep'
  BY DEF ElevenLabs!AgentEndsCall, ElevenLabs!ProviderGoes, ElevenLabs!SocketReported, ElevenLabs!Reports
<1>5. DialledInStep /\ (ElevenLabs!AsksToRelease \/ ElevenLabs!Unwinds \/ ElevenLabs!Released) => DialledInStep'
  BY DEF ElevenLabs!AsksToRelease, ElevenLabs!Unwinds, ElevenLabs!Released
<1>6. DialledInStep /\ (ElevenLabs!AudioArrives \/ ElevenLabs!InterruptionArrives \/ ElevenLabs!Goodbye
        \/ ElevenLabs!ToolCalled \/ ElevenLabs!ToolEnds \/ ElevenLabs!CallCloses) => DialledInStep'
  BY DEF ElevenLabs!AudioArrives, ElevenLabs!InterruptionArrives, ElevenLabs!Goodbye,
         ElevenLabs!ToolCalled, ElevenLabs!ToolEnds, ElevenLabs!CallCloses
<1> QED BY <1>1, <1>2, <1>3, <1>4, <1>5, <1>6 DEF ElevenLabs!ElevenNext, ElevenLabs!ElevenSteps

\* Every step of the Cartesia plugin does.
LEMMA CartesiaKeeps == DialledInStep /\ Cartesia!CartesiaNext => DialledInStep'
<1> USE DEF DialledInStep, Cartesia!EndsTheCall, Cartesia!ShutsLine, Cartesia!StaysUp, Cartesia!Live
<1>1. DialledInStep /\ Cartesia!Connects => DialledInStep'
  BY KeptOrDropped DEF Cartesia!Connects, Cartesia!KeepsIt
<1>2. DialledInStep /\ (Cartesia!DialFails \/ Cartesia!RedialFails \/ Cartesia!HangsUpLate) => DialledInStep'
  BY DEF Cartesia!DialFails, Cartesia!RedialFails, Cartesia!HangsUpLate
<1>3. DialledInStep /\ Cartesia!Cancelled => DialledInStep'
  BY DEF Cartesia!Cancelled, Cartesia!StartCancelled
<1>4. DialledInStep /\ (Cartesia!AgentEndsCall \/ Cartesia!ProviderGoes \/ Cartesia!SocketReported) => DialledInStep'
  BY DEF Cartesia!AgentEndsCall, Cartesia!ProviderGoes, Cartesia!SocketReported, Cartesia!Reports
<1>5. DialledInStep /\ (Cartesia!AsksToRelease \/ Cartesia!Unwinds \/ Cartesia!Released) => DialledInStep'
  BY DEF Cartesia!AsksToRelease, Cartesia!Unwinds, Cartesia!Released
<1>6. DialledInStep /\ Cartesia!CallCloses => DialledInStep'
  BY DEF Cartesia!CallCloses
<1> QED BY <1>1, <1>2, <1>3, <1>4, <1>5, <1>6 DEF Cartesia!CartesiaNext, Cartesia!CartesiaSteps

\* Every step of the Deepgram plugin does.
LEMMA DeepgramKeeps == DialledInStep /\ Deepgram!DeepgramNext => DialledInStep'
<1> USE DEF DialledInStep, Deepgram!EndsTheCall, Deepgram!ShutsLine, Deepgram!StaysUp, Deepgram!Live,
            Deepgram!Disposes, Deepgram!relayVars
<1>1. DialledInStep /\ Deepgram!Welcomed => DialledInStep'
  BY KeptOrDropped DEF Deepgram!Welcomed, Deepgram!KeepsIt
<1>7. DialledInStep /\ Deepgram!SocketOpens => DialledInStep'
  BY DEF Deepgram!SocketOpens
<1>2. DialledInStep /\ (Deepgram!AttemptFails \/ Deepgram!RetryFails \/ Deepgram!HangsUpLate) => DialledInStep'
  BY DEF Deepgram!AttemptFails, Deepgram!RetryFails, Deepgram!HangsUpLate
<1>3. DialledInStep /\ Deepgram!Cancelled => DialledInStep'
  BY DEF Deepgram!Cancelled, Deepgram!StartCancelled
<1>4. DialledInStep /\ (Deepgram!ProviderGoes \/ Deepgram!SocketReported) => DialledInStep'
  BY DEF Deepgram!ProviderGoes, Deepgram!SocketReported, Deepgram!Reports
<1>5. DialledInStep /\ (Deepgram!AsksToRelease \/ Deepgram!Unwinds \/ Deepgram!Released) => DialledInStep'
  BY DEF Deepgram!AsksToRelease, Deepgram!Unwinds, Deepgram!Released
<1>6. DialledInStep /\ (Deepgram!FunctionCalled \/ Deepgram!FunctionEnds \/ Deepgram!FunctionEndsCall
        \/ Deepgram!CallCloses) => DialledInStep'
  BY DEF Deepgram!FunctionCalled, Deepgram!FunctionEnds, Deepgram!FunctionEndsCall, Deepgram!CallCloses
<1> QED BY <1>1, <1>2, <1>3, <1>4, <1>5, <1>6, <1>7 DEF Deepgram!DeepgramNext, Deepgram!DeepgramSteps

\* Every step of the Hermes plugin keeps session and handler in step.
LEMMA HermesKeeps == HermesInStep /\ Hermes!HermesNext => HermesInStep'
<1> USE DEF HermesInStep, Hermes!EndsTheCall, Hermes!ShutsLine, Hermes!StaysUp, Hermes!Live,
            Hermes!relayVars
<1>1. HermesInStep /\ (Hermes!Refuses \/ Hermes!Admits \/ Hermes!ConnectFails \/ Hermes!SocketOpens
        \/ Hermes!Configured) => HermesInStep'
  BY DEF Hermes!Refuses, Hermes!Admits, Hermes!ConnectFails, Hermes!SocketOpens, Hermes!Configured
<1>2. HermesInStep /\ Hermes!Cancelled => HermesInStep'
  BY DEF Hermes!Cancelled, Hermes!StartCancelled
<1>3. HermesInStep /\ (Hermes!ToolsCalled \/ Hermes!ToolsReturn \/ Hermes!ProviderGoes
        \/ Hermes!CallCloses) => HermesInStep'
  BY DEF Hermes!ToolsCalled, Hermes!ToolsReturn, Hermes!ProviderGoes, Hermes!Reports, Hermes!CallCloses
<1>4. HermesInStep /\ (Hermes!AsksToRelease \/ Hermes!Unwinds \/ Hermes!BatchesUnwind
        \/ Hermes!ClosesSockets \/ Hermes!Released) => HermesInStep'
  BY DEF Hermes!AsksToRelease, Hermes!Unwinds, Hermes!BatchesUnwind, Hermes!ClosesSockets, Hermes!Released
<1> QED BY <1>1, <1>2, <1>3, <1>4 DEF Hermes!HermesNext, Hermes!HermesSteps

\* Every step of the LiveKit plugin keeps room and handler in step.
LEMMA LiveKitKeeps == LiveKitInStep /\ LiveKitNext => LiveKitInStep'
<1> USE DEF LiveKitInStep, EndsTheCall, ShutsLine, EndsSoon, InRoom, relayVars
<1>1. LiveKitInStep /\ (Joins \/ StartFails \/ SetUp) => LiveKitInStep'
  BY DEF Joins, StartFails, SetUp
<1>2. LiveKitInStep /\ (AgentLeaves \/ RoomDropped \/ ContextArrives \/ (CallCloses /\ UNCHANGED lateJoin))
        => LiveKitInStep'
  BY DEF AgentLeaves, RoomDropped, Dropped, ContextArrives, CallCloses
<1>3. LiveKitInStep /\ (AsksToRelease \/ Disconnects \/ DeletesRoom) => LiveKitInStep'
  BY DEF AsksToRelease, Disconnects, DeletesRoom
<1>4. ASSUME NEW t \in Tracks, AudioSubscribed(t) \/ Unsubscribed(t) \/ PumpEnds(t), LiveKitInStep
      PROVE  LiveKitInStep'
  BY <1>4 DEF AudioSubscribed, Unsubscribed, PumpEnds
<1> QED BY <1>1, <1>2, <1>3, <1>4 DEF LiveKitNext, LiveKitSteps

\* In every plugin the handler knows of the line it has to hang up (plugins/).
THEOREM RelayInvariant == PluginSpec => []RelayInv
<1>1. PluginInit => RelayInv
  BY DEF RelayInv, PluginInit, CallInit, ElevenLabs!ElevenInit, Cartesia!CartesiaInit,
         Deepgram!DeepgramInit, LiveKitInit, Hermes!HermesInit, DialledInStep, HermesInStep,
         LiveKitInStep, ElevenLabs!CallInit, Cartesia!CallInit, Deepgram!CallInit, Hermes!CallInit
<1>2. RelayInv /\ [PluginNext]_pluginVars => RelayInv'
  <2> SUFFICES ASSUME RelayInv, [PluginNext]_pluginVars PROVE RelayInv'
    OBVIOUS
  <2>1. CASE ElevenLabs!ElevenNext /\ ByElevenLabs
    BY <2>1, ElevenLabsKeeps DEF RelayInv, ByElevenLabs
  <2>2. CASE Cartesia!CartesiaNext /\ ByCartesia
    BY <2>2, CartesiaKeeps DEF RelayInv, ByCartesia
  <2>3. CASE Deepgram!DeepgramNext /\ ByDeepgram
    BY <2>3, DeepgramKeeps DEF RelayInv, ByDeepgram
  <2>4. CASE LiveKitNext /\ ByLiveKit
    BY <2>4, LiveKitKeeps DEF RelayInv, ByLiveKit
  <2>5. CASE Hermes!HermesNext /\ ByHermes
    BY <2>5, HermesKeeps DEF RelayInv, ByHermes
  <2>6. CASE UNCHANGED pluginVars
    BY <2>6 DEF pluginVars, relayVars, livekit, RelayInv, DialledInStep, HermesInStep, LiveKitInStep
  <2> QED BY <2>1, <2>2, <2>3, <2>4, <2>5, <2>6 DEF PluginNext
<1> QED BY <1>1, <1>2, PTL DEF PluginSpec

\* Every step of the ElevenLabs plugin is one of the contract's, or invisible to it.
LEMMA ElevenLabsKeepsContract ==
    DialledInStep /\ ElevenLabs!ElevenNext /\ UNCHANGED lateJoin => [Relay!ContractNext]_Relay!contractVars
<1> SUFFICES ASSUME DialledInStep, ElevenLabs!ElevenNext, UNCHANGED lateJoin
             PROVE  [Relay!ContractNext]_Relay!contractVars
  OBVIOUS
<1> USE DEF ElevenLabs!EndsTheCall, ElevenLabs!ShutsLine, ElevenLabs!StaysUp, ElevenLabs!relayVars, Greeting, Stands
<1>1. CASE ElevenLabs!AsksToRelease
  BY <1>1, LineMoves, LineIsReleased DEF ElevenLabs!AsksToRelease, DialledInStep
<1>2. CASE ElevenLabs!Released
  BY <1>2, LineMoves, LineIsReleased DEF ElevenLabs!Released, DialledInStep
<1>3. CASE ElevenLabs!Connects \/ ElevenLabs!HangsUpLate \/ ElevenLabs!Cancelled \/ ElevenLabs!DialFails
           \/ ElevenLabs!RedialFails
  BY <1>3, LineMoves DEF ElevenLabs!Connects, ElevenLabs!KeepsIt, ElevenLabs!HangsUpLate, ElevenLabs!Cancelled,
     ElevenLabs!StartCancelled, ElevenLabs!DialFails, ElevenLabs!RedialFails
<1>4. CASE ElevenLabs!AgentEndsCall \/ ElevenLabs!ProviderGoes \/ ElevenLabs!SocketReported \/ ElevenLabs!Unwinds
           \/ ElevenLabs!CallCloses
  BY <1>4, LineMoves DEF ElevenLabs!AgentEndsCall, ElevenLabs!ProviderGoes, ElevenLabs!SocketReported,
     ElevenLabs!Reports, ElevenLabs!Unwinds, ElevenLabs!CallCloses
<1>5. CASE ElevenLabs!AudioArrives \/ ElevenLabs!InterruptionArrives \/ ElevenLabs!Goodbye
           \/ ElevenLabs!ToolCalled \/ ElevenLabs!ToolEnds
  BY <1>5, LineMoves DEF ElevenLabs!AudioArrives, ElevenLabs!InterruptionArrives, ElevenLabs!Goodbye,
     ElevenLabs!ToolCalled, ElevenLabs!ToolEnds
<1> QED BY <1>1, <1>2, <1>3, <1>4, <1>5 DEF ElevenLabs!ElevenNext, ElevenLabs!ElevenSteps

\* Every step of the Cartesia plugin is.
LEMMA CartesiaKeepsContract ==
    DialledInStep /\ Cartesia!CartesiaNext /\ UNCHANGED lateJoin => [Relay!ContractNext]_Relay!contractVars
<1> SUFFICES ASSUME DialledInStep, Cartesia!CartesiaNext, UNCHANGED lateJoin
             PROVE  [Relay!ContractNext]_Relay!contractVars
  OBVIOUS
<1> USE DEF Cartesia!EndsTheCall, Cartesia!ShutsLine, Cartesia!StaysUp, Greeting, Stands
<1>1. CASE Cartesia!AsksToRelease
  BY <1>1, LineMoves, LineIsReleased DEF Cartesia!AsksToRelease, DialledInStep
<1>2. CASE Cartesia!Released
  BY <1>2, LineMoves, LineIsReleased DEF Cartesia!Released, DialledInStep
<1>3. CASE Cartesia!Connects \/ Cartesia!HangsUpLate \/ Cartesia!Cancelled \/ Cartesia!DialFails
           \/ Cartesia!RedialFails
  BY <1>3, LineMoves DEF Cartesia!Connects, Cartesia!KeepsIt, Cartesia!HangsUpLate, Cartesia!Cancelled,
     Cartesia!StartCancelled, Cartesia!DialFails, Cartesia!RedialFails
<1>4. CASE Cartesia!AgentEndsCall \/ Cartesia!ProviderGoes \/ Cartesia!SocketReported \/ Cartesia!Unwinds
           \/ Cartesia!CallCloses
  BY <1>4, LineMoves DEF Cartesia!AgentEndsCall, Cartesia!ProviderGoes, Cartesia!SocketReported,
     Cartesia!Reports, Cartesia!Unwinds, Cartesia!CallCloses
<1> QED BY <1>1, <1>2, <1>3, <1>4 DEF Cartesia!CartesiaNext, Cartesia!CartesiaSteps

\* Every step of the Deepgram plugin is.
LEMMA DeepgramKeepsContract ==
    DialledInStep /\ Deepgram!DeepgramNext /\ UNCHANGED lateJoin => [Relay!ContractNext]_Relay!contractVars
<1> SUFFICES ASSUME DialledInStep, Deepgram!DeepgramNext, UNCHANGED lateJoin
             PROVE  [Relay!ContractNext]_Relay!contractVars
  OBVIOUS
<1> USE DEF Deepgram!EndsTheCall, Deepgram!ShutsLine, Deepgram!StaysUp, Deepgram!relayVars,
            Deepgram!Disposes, Greeting, Stands
<1>1. CASE Deepgram!AsksToRelease
  BY <1>1, LineMoves, LineIsReleased DEF Deepgram!AsksToRelease, DialledInStep
<1>2. CASE Deepgram!Released
  BY <1>2, LineMoves, LineIsReleased DEF Deepgram!Released, DialledInStep
<1>3. CASE Deepgram!SocketOpens
  BY <1>3, LineMoves DEF Deepgram!SocketOpens, DialledInStep
<1>4. CASE Deepgram!Welcomed \/ Deepgram!HangsUpLate \/ Deepgram!Cancelled \/ Deepgram!AttemptFails
           \/ Deepgram!RetryFails
  BY <1>4, LineMoves DEF Deepgram!Welcomed, Deepgram!KeepsIt, Deepgram!HangsUpLate, Deepgram!Cancelled,
     Deepgram!StartCancelled, Deepgram!AttemptFails, Deepgram!RetryFails
<1>5. CASE Deepgram!FunctionCalled \/ Deepgram!FunctionEnds \/ Deepgram!FunctionEndsCall
           \/ Deepgram!ProviderGoes \/ Deepgram!SocketReported \/ Deepgram!Unwinds \/ Deepgram!CallCloses
  BY <1>5, LineMoves DEF Deepgram!FunctionCalled, Deepgram!FunctionEnds, Deepgram!FunctionEndsCall,
     Deepgram!ProviderGoes, Deepgram!SocketReported, Deepgram!Reports, Deepgram!Unwinds, Deepgram!CallCloses
<1> QED BY <1>1, <1>2, <1>3, <1>4, <1>5 DEF Deepgram!DeepgramNext, Deepgram!DeepgramSteps

\* Every step of the Hermes plugin is.
LEMMA HermesKeepsContract ==
    HermesInStep /\ Hermes!HermesNext /\ UNCHANGED lateJoin => [Relay!ContractNext]_Relay!contractVars
<1> SUFFICES ASSUME HermesInStep, Hermes!HermesNext, UNCHANGED lateJoin
             PROVE  [Relay!ContractNext]_Relay!contractVars
  OBVIOUS
<1> USE DEF Hermes!EndsTheCall, Hermes!ShutsLine, Hermes!StaysUp, Hermes!relayVars, Greeting, Stands
<1>1. CASE Hermes!Released
  BY <1>1, LineIsReleased DEF Hermes!Released, HermesInStep
<1>2. CASE Hermes!Refuses \/ Hermes!Admits \/ Hermes!ConnectFails \/ Hermes!SocketOpens \/ Hermes!Configured
           \/ Hermes!Cancelled
  BY <1>2, LineMoves DEF Hermes!Refuses, Hermes!Admits, Hermes!ConnectFails, Hermes!SocketOpens,
     Hermes!Configured, Hermes!Cancelled, Hermes!StartCancelled
<1>3. CASE Hermes!ToolsCalled \/ Hermes!ToolsReturn \/ Hermes!ProviderGoes \/ Hermes!CallCloses
  BY <1>3, LineMoves DEF Hermes!ToolsCalled, Hermes!ToolsReturn, Hermes!ProviderGoes, Hermes!Reports,
     Hermes!CallCloses
<1>4. CASE Hermes!AsksToRelease \/ Hermes!Unwinds \/ Hermes!BatchesUnwind \/ Hermes!ClosesSockets
  BY <1>4, LineMoves DEF Hermes!AsksToRelease, Hermes!Unwinds, Hermes!BatchesUnwind, Hermes!ClosesSockets
<1> QED BY <1>1, <1>2, <1>3, <1>4 DEF Hermes!HermesNext, Hermes!HermesSteps

\* Every step of the LiveKit plugin is.
LEMMA LiveKitKeepsContract ==
    LiveKitInStep /\ LiveKitNext => [Relay!ContractNext]_Relay!contractVars
<1> SUFFICES ASSUME LiveKitInStep, LiveKitNext
             PROVE  [Relay!ContractNext]_Relay!contractVars
  OBVIOUS
<1> USE DEF EndsTheCall, ShutsLine, EndsSoon, InRoom, relayVars, Greeting, Stands
<1>1. CASE DeletesRoom
  BY <1>1, LineMoves, LineIsReleased DEF DeletesRoom, LiveKitInStep
<1>2. CASE Joins \/ StartFails \/ SetUp \/ AsksToRelease \/ Disconnects
  <2>1. sess = "over" <=> sess' = "over"
    BY <1>2 DEF Joins, StartFails, SetUp, AsksToRelease, Disconnects, LiveKitInStep
  <2>2. starting' \notin {"greeting", "regreeting"}
    BY <1>2 DEF Joins, StartFails, SetUp, AsksToRelease, Disconnects, LiveKitInStep
  <2> QED BY <2>1, <2>2, LineMoves
<1>3. CASE AgentLeaves \/ RoomDropped \/ ContextArrives \/ CallCloses
  BY <1>3, LineMoves DEF AgentLeaves, RoomDropped, Dropped, ContextArrives, CallCloses
<1>4. CASE \E t \in Tracks : AudioSubscribed(t) \/ Unsubscribed(t) \/ PumpEnds(t)
  BY <1>4, LineMoves DEF AudioSubscribed, Unsubscribed, PumpEnds
<1> QED BY <1>1, <1>2, <1>3, <1>4 DEF LiveKitNext, LiveKitSteps

\* Every plugin's connection behaves as RelayContract says: nobody's handler is
\* released with a conversation still up, and what comes up later is hung up
\* again, wherever dials, losses, time-outs and the teardown meet (plugins/), but for a
\* LiveKit room whose join outlasts the release.  That it is hung up in the end is for
\* TLC to check.
THEOREM PluginsKeepTheContract == PluginSpec => Relay!ContractSafety
<1>1. PluginInit => Relay!ContractInit
  BY DEF PluginInit, CallInit, ElevenLabs!ElevenInit, Cartesia!CartesiaInit, Deepgram!DeepgramInit,
         LiveKitInit, Hermes!HermesInit, ElevenLabs!CallInit, Cartesia!CallInit, Deepgram!CallInit,
         Hermes!CallInit, Relay!ContractInit
<1>2. RelayInv /\ [PluginNext]_pluginVars => [Relay!ContractNext]_Relay!contractVars
  <2> SUFFICES ASSUME RelayInv, [PluginNext]_pluginVars
               PROVE  [Relay!ContractNext]_Relay!contractVars
    OBVIOUS
  <2>1. CASE ElevenLabs!ElevenNext /\ ByElevenLabs
    BY <2>1, ElevenLabsKeepsContract DEF RelayInv, ByElevenLabs, livekit
  <2>2. CASE Cartesia!CartesiaNext /\ ByCartesia
    BY <2>2, CartesiaKeepsContract DEF RelayInv, ByCartesia, livekit
  <2>3. CASE Deepgram!DeepgramNext /\ ByDeepgram
    BY <2>3, DeepgramKeepsContract DEF RelayInv, ByDeepgram, livekit
  <2>4. CASE LiveKitNext /\ ByLiveKit
    BY <2>4, LiveKitKeepsContract DEF RelayInv, ByLiveKit
  <2>5. CASE Hermes!HermesNext /\ ByHermes
    BY <2>5, HermesKeepsContract DEF RelayInv, ByHermes, livekit
  <2>6. CASE UNCHANGED pluginVars
    BY <2>6, LineMoves DEF pluginVars, relayVars, livekit, Greeting, Stands
  <2> QED BY <2>1, <2>2, <2>3, <2>4, <2>5, <2>6 DEF PluginNext
<1> QED BY <1>1, <1>2, RelayInvariant, PTL DEF PluginSpec, Relay!ContractSafety

\* A LiveKit room is left joined behind its call only when it was still being joined as
\* aclose disconnected (LiveKitHandler.aclose): no failing start, leaving agent, dropped
\* room or deletion that fails does it.
THEOREM OnlyLateJoinsStay == LiveKitSpec => []OnlyALateJoinStays
<1>1. LiveKitInit => LiveKitInStep
  BY DEF LiveKitInit, CallInit, LiveKitInStep
<1>2. LiveKitInStep /\ [LiveKitNext]_livekitVars => LiveKitInStep'
  <2>1. LiveKitInStep /\ UNCHANGED livekitVars => LiveKitInStep'
    BY DEF livekitVars, relayVars, LiveKitInStep
  <2> QED BY <2>1, LiveKitKeeps
<1>3. LiveKitInStep => OnlyALateJoinStays
  BY DEF LiveKitInStep, OnlyALateJoinStays
<1> QED BY <1>1, <1>2, <1>3, PTL DEF LiveKitSpec

(***************************************************************************)
(* The chat channel: the turns of a conversation.                          *)
(***************************************************************************)
SameConversation(i, j) == Conversation[turns[i].msg] = Conversation[turns[j].msg]
EarlierOver(j) ==
    \A i \in 1..(j - 1) : SameConversation(i, j) => turns[i].at \in Finished

TurnRecords == [msg : Messages, after : Nat, at : Working \cup Finished]

LaneTypes ==
    /\ turns \in Seq(TurnRecords)
    /\ chains \in [Conversations -> Nat]
    /\ chatClosing \in {"no", "cancelling", "done"}

\* A turn holds the one before it in its conversation; a turn that holds none was
\* made when all those before it were over.
Follows(j, a) ==
    IF a = 0 THEN EarlierOver(j)
    ELSE /\ a \in 1..(j - 1) /\ SameConversation(a, j)
         /\ \A k \in (a + 1)..(j - 1) : ~SameConversation(k, j)
HoldsTheLast == \A j \in DOMAIN turns : Follows(j, turns[j].after)

\* Until the channel closes, a turn that is no longer parked comes after all others.
BegunInOrder ==
    chatClosing = "no" =>
        \A j \in DOMAIN turns : turns[j].at # "parked" => EarlierOver(j)

\* Until then, too, a chain ends in the last turn of its conversation, or they are
\* all over.
ChainsEnd ==
    chatClosing = "no" =>
        \A c \in Conversations :
            IF chains[c] = 0
            THEN \A i \in DOMAIN turns : Conversation[turns[i].msg] = c => turns[i].at \in Finished
            ELSE /\ chains[c] \in DOMAIN turns /\ Conversation[turns[chains[c]].msg] = c
                 /\ \A k \in DOMAIN turns : k > chains[c] => Conversation[turns[k].msg] # c

\* TurnsInOrder does not say what a parked turn waits for, nor that the chain of a
\* conversation still leads to all of it.
LaneInv == LaneTypes /\ HoldsTheLast /\ BegunInOrder /\ ChainsEnd /\ TurnsInOrder

\* A step of one turn, which is not over yet, and over whatever came before it if it
\* leaves the row.
LEMMA TurnGoesOn ==
    ASSUME LaneInv, NEW i \in DOMAIN turns, NEW state \in Working \cup Finished, GoesTo(i, state),
           turns[i].at \in Working, UNCHANGED <<chains, chatClosing>>,
           chatClosing = "no" => EarlierOver(i),
           state # "cancelled" => EarlierOver(i)
    PROVE  LaneInv'
<1>1. /\ turns \in Seq(TurnRecords) /\ turns' = [turns EXCEPT ![i].at = state]
      /\ turns[i] \in TurnRecords
  BY DEF GoesTo, LaneInv, LaneTypes
<1>2. turns' \in Seq(TurnRecords) /\ DOMAIN turns' = DOMAIN turns /\ Len(turns') = Len(turns)
  <2>1. PICK r \in TurnRecords : r = [turns[i] EXCEPT !.at = state]
    BY <1>1 DEF TurnRecords
  <2>2. turns' = [turns EXCEPT ![i] = r]
    BY <1>1, <2>1
  <2> QED BY <1>1, <2>2
<1>3. \A j \in DOMAIN turns :
        /\ turns'[j].msg = turns[j].msg /\ turns'[j].after = turns[j].after
        /\ j # i => turns'[j].at = turns[j].at
  BY <1>1 DEF TurnRecords
<1>4. turns'[i].at = state
  BY <1>1 DEF TurnRecords
<1>5. \A j \in DOMAIN turns : turns[j].at \in Finished => turns'[j].at \in Finished
  BY <1>3 DEF Working, Finished
<1>6. \A j \in DOMAIN turns : j \in Nat /\ \A k \in 1..(j - 1) : k \in DOMAIN turns
  <2>1. DOMAIN turns = 1..Len(turns) /\ Len(turns) \in Nat
    BY <1>1
  <2> QED BY <2>1
<1>7. \A j, k \in DOMAIN turns : SameConversation(j, k)' = SameConversation(j, k)
  BY <1>2, <1>3 DEF SameConversation
<1>8. \A j \in DOMAIN turns : EarlierOver(j) => EarlierOver(j)'
  BY <1>5, <1>6, <1>7 DEF EarlierOver
<1>9. LaneTypes'
  BY <1>2 DEF LaneInv, LaneTypes
<1>10. HoldsTheLast'
  <2> SUFFICES ASSUME NEW j \in DOMAIN turns, NEW a, a = turns[j].after
               PROVE  Follows(j, a)'
    BY <1>2, <1>3 DEF HoldsTheLast
  <2>1. Follows(j, a) /\ a \in Nat /\ j \in Nat
    <3>1. turns[j] \in TurnRecords
      BY <1>1
    <3> QED BY <1>6, <3>1 DEF TurnRecords, LaneInv, HoldsTheLast
  <2>2. \A k \in (a + 1)..(j - 1) : k \in 1..(j - 1)
    BY <2>1
  <2> QED BY <1>6, <1>7, <1>8, <2>1, <2>2 DEF Follows
<1>11. BegunInOrder'
  BY <1>2, <1>3, <1>8 DEF LaneInv, BegunInOrder, Working, Finished
<1>12. ChainsEnd'
  BY <1>2, <1>3, <1>5 DEF LaneInv, ChainsEnd
<1>13. TurnsInOrder'
  <2> SUFFICES ASSUME NEW j \in DOMAIN turns, NEW k \in DOMAIN turns, j < k, SameConversation(j, k),
                      turns'[k].at \notin {"parked", "cancelled"}
               PROVE  turns'[j].at \in Finished
    BY <1>2, <1>3 DEF TurnsInOrder, SameConversation
  <2>1. CASE k # i
    BY <1>3, <1>5, <2>1 DEF LaneInv, TurnsInOrder, SameConversation
  <2>2. CASE k = i
    <3>1. EarlierOver(i) /\ j \in 1..(i - 1)
      BY <1>1, <1>4, <1>6, <2>2
    <3> QED BY <1>5, <2>2, <3>1 DEF EarlierOver
  <2> QED BY <2>1, <2>2
<1> QED BY <1>9, <1>10, <1>11, <1>12, <1>13 DEF LaneInv

\* A message makes a turn behind the last of its conversation.
LEMMA TurnIsQueued ==
    ASSUME LaneInv, NEW m \in Messages, Enqueue(m), chatClosing = "no", chatClosing' = chatClosing
    PROVE  LaneInv'
<1>1. PICK c : c = Conversation[m]
  OBVIOUS
<1>2. PICK n : n = Len(turns) + 1
  OBVIOUS
<1>3. PICK last : last = chains[c]
  OBVIOUS
<1>4. PICK fresh : fresh = [msg |-> m, after |-> last, at |-> "parked"]
  OBVIOUS
<1>5. /\ turns' = Append(turns, fresh) /\ chains' = [chains EXCEPT ![c] = n]
      /\ turns \in Seq(TurnRecords) /\ chains \in [Conversations -> Nat] /\ c \in Conversations
  BY <1>1, <1>2, <1>3, <1>4 DEF Enqueue, LaneInv, LaneTypes, Conversations
<1>6. n \in Nat /\ n # 0 /\ DOMAIN turns = 1..(n - 1) /\ last \in Nat
  BY <1>2, <1>3, <1>5
<1>7. fresh \in TurnRecords /\ fresh.msg = m /\ fresh.at = "parked" /\ fresh.after = last
  BY <1>4, <1>6 DEF TurnRecords, Working
<1>8. /\ turns' \in Seq(TurnRecords) /\ DOMAIN turns' = 1..n
      /\ turns'[n] = fresh /\ \A j \in 1..(n - 1) : turns'[j] = turns[j]
  BY <1>2, <1>5, <1>7
<1>9. LaneTypes'
  BY <1>5, <1>6, <1>8 DEF LaneInv, LaneTypes
<1>10. \A j, k \in 1..(n - 1) : SameConversation(k, j)' = SameConversation(k, j)
  BY <1>8 DEF SameConversation
<1>11. \A k \in 1..n : k # n => k \in 1..(n - 1)
  BY <1>6
<1>12. \A j \in 1..n : \A k \in 1..(j - 1) : k \in 1..(n - 1)
  BY <1>6
<1>13. \A j \in 1..(n - 1) : EarlierOver(j)' = EarlierOver(j)
  <2> SUFFICES ASSUME NEW j \in 1..(n - 1) PROVE EarlierOver(j)' = EarlierOver(j)
    OBVIOUS
  <2>1. \A k \in 1..(j - 1) : k \in 1..(n - 1) /\ turns'[k] = turns[k]
    BY <1>6, <1>8
  <2> QED BY <1>10, <2>1 DEF EarlierOver
<1>14. IF last = 0
       THEN \A i \in 1..(n - 1) : Conversation[turns[i].msg] = c => turns[i].at \in Finished
       ELSE /\ last \in 1..(n - 1) /\ Conversation[turns[last].msg] = c
            /\ \A k \in 1..(n - 1) : k > last => Conversation[turns[k].msg] # c
  BY <1>3, <1>5, <1>6 DEF LaneInv, ChainsEnd
<1>15. HoldsTheLast'
  <2>1. ASSUME NEW j \in 1..(n - 1), NEW a, a = turns[j].after PROVE Follows(j, a)'
    <3>1. Follows(j, a) /\ a \in Nat
      <4>1. turns[j] \in TurnRecords
        BY <1>5, <1>6
      <4> QED BY <1>6, <2>1, <4>1 DEF TurnRecords, LaneInv, HoldsTheLast
    <3>2. \A k \in (a + 1)..(j - 1) : k \in 1..(n - 1)
      BY <1>6, <3>1
    <3>3. a \in 1..(j - 1) => a \in 1..(n - 1)
      BY <1>6
    <3> QED BY <1>10, <1>13, <3>1, <3>2, <3>3 DEF Follows
  <2>2. Follows(n, last)'
    <3>1. \A k \in 1..(n - 1) : SameConversation(k, n)' <=> Conversation[turns[k].msg] = c
      BY <1>1, <1>7, <1>8 DEF SameConversation
    <3>2. CASE last = 0
      <4>1. EarlierOver(n)'
        BY <1>8, <1>14, <3>1, <3>2 DEF EarlierOver
      <4> QED BY <3>2, <4>1 DEF Follows
    <3>3. CASE last # 0
      <4>1. \A k \in (last + 1)..(n - 1) : k \in 1..(n - 1) /\ k > last
        BY <1>6
      <4> QED BY <1>14, <3>1, <3>3, <4>1 DEF Follows
    <3> QED BY <3>2, <3>3
  <2> QED BY <1>7, <1>8, <1>11, <2>1, <2>2 DEF HoldsTheLast
<1>16. BegunInOrder'
  <2> SUFFICES ASSUME NEW j \in 1..n, turns'[j].at # "parked" PROVE EarlierOver(j)'
    BY <1>8 DEF BegunInOrder
  <2>1. j \in 1..(n - 1)
    BY <1>7, <1>8, <1>11
  <2> QED BY <1>6, <1>8, <1>13, <2>1 DEF LaneInv, BegunInOrder
<1>17. ChainsEnd'
  <2> SUFFICES ASSUME NEW d \in Conversations
               PROVE  IF chains'[d] = 0
                      THEN \A i \in 1..n : Conversation[turns'[i].msg] = d => turns'[i].at \in Finished
                      ELSE /\ chains'[d] \in 1..n /\ Conversation[turns'[chains'[d]].msg] = d
                           /\ \A k \in 1..n : k > chains'[d] => Conversation[turns'[k].msg] # d
    BY <1>8 DEF ChainsEnd
  <2>1. CASE d = c
    <3>1. chains'[d] = n /\ n \in 1..n /\ \A k \in 1..n : ~(k > n)
      BY <1>5, <1>6, <2>1
    <3> QED BY <1>1, <1>6, <1>7, <1>8, <2>1, <3>1
  <2>2. CASE d # c
    <3>1. chains'[d] = chains[d]
      BY <1>5, <2>2
    <3>2. Conversation[turns'[n].msg] # d
      BY <1>1, <1>7, <1>8, <2>2
    <3>3. IF chains[d] = 0
          THEN \A i \in 1..(n - 1) : Conversation[turns[i].msg] = d => turns[i].at \in Finished
          ELSE /\ chains[d] \in 1..(n - 1) /\ Conversation[turns[chains[d]].msg] = d
               /\ \A k \in 1..(n - 1) : k > chains[d] => Conversation[turns[k].msg] # d
      BY <1>6 DEF LaneInv, ChainsEnd
    <3>4. chains[d] \in 1..(n - 1) => chains[d] \in 1..n
      BY <1>6
    <3> QED BY <1>8, <1>11, <3>1, <3>2, <3>3, <3>4
  <2> QED BY <2>1, <2>2
<1>18. TurnsInOrder'
  <2> SUFFICES ASSUME NEW j \in 1..n, NEW k \in 1..n, j < k, SameConversation(j, k)',
                      turns'[k].at \notin {"parked", "cancelled"}
               PROVE  turns'[j].at \in Finished
    BY <1>8 DEF TurnsInOrder, SameConversation
  <2>1. k # n
    BY <1>7, <1>8
  <2>2. j \in 1..(n - 1) /\ k \in 1..(n - 1)
    BY <1>6, <2>1
  <2> QED BY <1>6, <1>8, <1>10, <2>2 DEF LaneInv, TurnsInOrder, SameConversation
<1> QED BY <1>9, <1>15, <1>16, <1>17, <1>18 DEF LaneInv

\* A turn whose predecessor is over comes after all the turns before it.
LEMMA BeginsInOrder ==
    ASSUME LaneInv, chatClosing = "no", NEW i \in DOMAIN turns, PreviousOver(i)
    PROVE  EarlierOver(i)
<1>1. turns[i] \in TurnRecords /\ DOMAIN turns = 1..Len(turns) /\ Len(turns) \in Nat
  BY DEF LaneInv, LaneTypes
<1>2. PICK a \in Nat : a = turns[i].after
  BY <1>1 DEF TurnRecords
<1>3. Follows(i, a)
  BY <1>2 DEF LaneInv, HoldsTheLast
<1>4. CASE a = 0
  BY <1>3, <1>4 DEF Follows
<1>5. CASE a # 0
  <2>1. /\ a \in 1..(i - 1) /\ a \in DOMAIN turns /\ SameConversation(a, i)
        /\ \A k \in (a + 1)..(i - 1) : ~SameConversation(k, i)
    BY <1>1, <1>3, <1>5 DEF Follows
  <2>2. turns[a].at \in Finished
    BY <1>2, <1>5 DEF PreviousOver
  <2>3. EarlierOver(a)
    BY <2>1, <2>2 DEF LaneInv, BegunInOrder, Finished
  <2> SUFFICES ASSUME NEW k \in 1..(i - 1), SameConversation(k, i) PROVE turns[k].at \in Finished
    BY DEF EarlierOver
  <2>4. k \in 1..(a - 1) \/ k = a \/ k \in (a + 1)..(i - 1)
    BY <1>1, <2>1
  <2> QED BY <2>1, <2>2, <2>3, <2>4 DEF EarlierOver, SameConversation
<1> QED BY <1>4, <1>5

\* The done callback drops the chain that ends in its task, and no other.
LEMMA TurnIsPruned ==
    ASSUME LaneInv, NEW i \in DOMAIN turns, TurnDone(i)
    PROVE  LaneInv'
<1>1. /\ turns[i].at \in Finished /\ UNCHANGED <<turns, chatClosing>> /\ chains' = Pruned(i)
      /\ turns[i] \in TurnRecords /\ chains \in [Conversations -> Nat]
      /\ DOMAIN turns = 1..Len(turns) /\ Len(turns) \in Nat
  BY DEF TurnDone, LaneInv, LaneTypes
<1>2. PICK c \in Conversations : c = Conversation[turns[i].msg]
  BY <1>1 DEF TurnRecords, Conversations
<1>3. CASE chains[c] # i
  <2>1. UNCHANGED chains
    BY <1>1, <1>2, <1>3 DEF Pruned
  <2> QED BY <1>1, <2>1 DEF LaneInv, LaneTypes, HoldsTheLast, Follows, EarlierOver, SameConversation,
             BegunInOrder, ChainsEnd, TurnsInOrder
<1>4. CASE chains[c] = i
  <2>1. chains' = [chains EXCEPT ![c] = 0]
    BY <1>1, <1>2, <1>4 DEF Pruned
  <2>2. LaneTypes' /\ HoldsTheLast' /\ BegunInOrder' /\ TurnsInOrder'
    BY <1>1, <2>1 DEF LaneInv, LaneTypes, HoldsTheLast, Follows, EarlierOver, SameConversation,
       BegunInOrder, TurnsInOrder
  <2>3. ChainsEnd'
    <3> SUFFICES ASSUME chatClosing = "no", NEW d \in Conversations
                 PROVE  IF chains'[d] = 0
                        THEN \A k \in DOMAIN turns : Conversation[turns[k].msg] = d => turns[k].at \in Finished
                        ELSE /\ chains'[d] \in DOMAIN turns /\ Conversation[turns[chains'[d]].msg] = d
                             /\ \A k \in DOMAIN turns : k > chains'[d] => Conversation[turns[k].msg] # d
      BY <1>1 DEF ChainsEnd
    <3>1. CASE d # c
      BY <1>1, <2>1, <3>1 DEF LaneInv, ChainsEnd
    <3>2. CASE d = c
      <4>1. EarlierOver(i)
        BY <1>1 DEF LaneInv, BegunInOrder, Finished
      <4>2. \A k \in DOMAIN turns : k > i => Conversation[turns[k].msg] # c
        <5>1. i # 0
          BY <1>1
        <5> QED BY <1>4, <5>1 DEF LaneInv, ChainsEnd
      <4>3. \A k \in DOMAIN turns : k \in 1..(i - 1) \/ k = i \/ k > i
        BY <1>1
      <4>4. \A k \in DOMAIN turns : Conversation[turns[k].msg] = c => turns[k].at \in Finished
        BY <1>1, <1>2, <4>1, <4>2, <4>3 DEF EarlierOver, SameConversation
      <4> QED BY <1>1, <2>1, <3>2, <4>4
    <3> QED BY <3>1, <3>2
  <2> QED BY <2>2, <2>3 DEF LaneInv
<1> QED BY <1>3, <1>4

\* The row of turns stays in order through every arrival, answer, time-out, closing
\* and done callback (ChatChannel._enqueue).
THEOREM LaneInvariant == ChatSpec => []LaneInv
<1>1. ChatInit => LaneInv
  <2> SUFFICES ASSUME ChatInit PROVE LaneInv
    OBVIOUS
  <2>1. turns = <<>> /\ DOMAIN turns = {} /\ <<>> \in Seq(TurnRecords)
    BY DEF ChatInit
  <2> QED BY <2>1 DEF ChatInit, LaneInv, LaneTypes, HoldsTheLast, BegunInOrder, ChainsEnd, TurnsInOrder
<1>2. LaneInv /\ [ChatNext]_chatVars => LaneInv'
  <2> SUFFICES ASSUME LaneInv, [ChatNext]_chatVars PROVE LaneInv'
    OBVIOUS
  <2>1. ASSUME UNCHANGED <<turns, chains>>, chatClosing' = chatClosing \/ chatClosing' \in {"cancelling", "done"}
        PROVE  LaneInv'
    BY <2>1 DEF LaneInv, LaneTypes, HoldsTheLast, Follows, EarlierOver, SameConversation, BegunInOrder,
       ChainsEnd, TurnsInOrder
  <2>2. CASE StartChat \/ LoseChat \/ ChatTick \/ CancelChat
    BY <2>1, <2>2 DEF StartChat, LoseChat, ChatTick, CancelChat, turnVars
  <2>3. ASSUME NEW m \in Messages, chatClosing = "no", Receive(m) \/ ReceiveRepeat(m)
        PROVE  LaneInv'
    <3>1. CASE Receive(m)
      <4>1. CASE listenOnly
        BY <2>1, <3>1, <4>1 DEF Receive
      <4>2. CASE ~listenOnly
        BY <2>3, <3>1, <4>2, TurnIsQueued DEF Receive
      <4> QED BY <4>1, <4>2
    <3>2. CASE ReceiveRepeat(m)
      BY <2>1, <3>2 DEF ReceiveRepeat, chatVars, turnVars
    <3> QED BY <2>3, <3>1, <3>2
  <2>4. ASSUME NEW i \in DOMAIN turns, TurnSteps(i) \/ RespondEnds(i) \/ RespondCancelled(i)
        PROVE  LaneInv'
    <3>1. CASE BeginTurn(i)
      BY <3>1, BeginsInOrder, TurnGoesOn DEF BeginTurn, TurnStep, OnlyTurns, Working
    <3>2. CASE TurnTimesOut(i) \/ SendReply(i) \/ RespondEnds(i) \/ RespondCancelled(i)
      <4>1. /\ turns[i].at \in {"thinking", "sending"} /\ chatClosing = "no"
            /\ UNCHANGED <<chains, chatClosing>>
        BY <3>2 DEF TurnTimesOut, SendReply, RespondEnds, RespondCancelled, TurnStep, OnlyTurns
      <4>2. EarlierOver(i)
        BY <4>1 DEF LaneInv, BegunInOrder
      <4>3. \E state \in Working \cup Finished : GoesTo(i, state)
        BY <3>2 DEF TurnTimesOut, SendReply, RespondEnds, RespondCancelled, Working, Finished
      <4> QED BY <4>1, <4>2, <4>3, TurnGoesOn DEF Working
    <3>3. CASE TurnUnwinds(i)
      BY <3>3, TurnGoesOn DEF TurnUnwinds, OnlyTurns, Finished
    <3> QED BY <2>4, <3>1, <3>2, <3>3 DEF TurnSteps
  <2>5. ASSUME NEW i \in DOMAIN turns, TurnDone(i) PROVE LaneInv'
    BY <2>5, TurnIsPruned
  <2>6. CASE CloseChat
    <3>1. UNCHANGED turns /\ chatClosing' = "done" /\ chains' \in [Conversations -> Nat]
      BY <2>6 DEF CloseChat
    <3> QED BY <3>1 DEF LaneInv, LaneTypes, HoldsTheLast, Follows, EarlierOver, SameConversation,
               BegunInOrder, ChainsEnd, TurnsInOrder
  <2>7. CASE UNCHANGED chatVars
    BY <2>1, <2>7 DEF chatVars, turnVars
  <2> QED BY <2>2, <2>3, <2>4, <2>5, <2>6, <2>7 DEF ChatNext
<1> QED BY <1>1, <1>2, PTL DEF ChatSpec

\* Within a conversation no turn begins before the earlier ones are over, for any
\* number of messages and conversations, however turns end (ChatChannel).
THEOREM TurnsKeepTheirOrder == ChatSpec => []TurnsInOrder
<1>1. LaneInv => TurnsInOrder
  BY DEF LaneInv
<1> QED BY <1>1, LaneInvariant, PTL

(***************************************************************************)
(* The chat channel: what StandIn sends again.                             *)
(***************************************************************************)

\* The last n elements of a sequence, each in its place from the end.
LEMMA LastOnes ==
    ASSUME NEW S, NEW s \in Seq(S), NEW n \in Nat \ {0}
    PROVE  /\ LastOf(s, n) \in Seq(S)
           /\ Len(LastOf(s, n)) = IF Len(s) > n THEN n ELSE Len(s)
           /\ \A k \in 1..Len(LastOf(s, n)) : LastOf(s, n)[k] = s[Len(s) - Len(LastOf(s, n)) + k]
<1>1. CASE Len(s) > n
  <2>1. PICK a : a = Len(s) - n + 1
    OBVIOUS
  <2>2. a \in 1..Len(s) /\ Len(s) \in Nat
    BY <1>1, <2>1
  <2>3. PICK last : last = SubSeq(s, a, Len(s))
    OBVIOUS
  <2>4. last \in Seq(S) /\ Len(last) = n /\ \A k \in 1..n : last[k] = s[a + k - 1]
    BY <2>1, <2>2, <2>3
  <2>5. LastOf(s, n) = last
    BY <1>1, <2>1, <2>3 DEF LastOf
  <2>6. \A k \in 1..n : last[k] = s[Len(s) - n + k]
    <3> SUFFICES ASSUME NEW k \in 1..n PROVE last[k] = s[Len(s) - n + k]
      OBVIOUS
    <3>1. a + k - 1 = Len(s) - n + k
      BY <2>1, <2>2
    <3> QED BY <2>4, <3>1
  <2>7. Len(last) = n
    BY <2>4
  <2> HIDE DEF LastOf
  <2> QED BY <1>1, <2>4, <2>5, <2>6, <2>7
<1>2. CASE ~(Len(s) > n)
  BY <1>2 DEF LastOf
<1> QED BY <1>1, <1>2

Entries == [who : People, conv : Conversations, seenAt : Nat]

\* What is left of a dictionary was there before.
LEMMA PopLeaves ==
    ASSUME NEW s \in Seq(Entries), NEW p
    PROVE  /\ Pop(s, p) \in Seq(Entries)
           /\ \A k \in DOMAIN Pop(s, p) : \E i \in DOMAIN s : Pop(s, p)[k] = s[i]
<1>1. CASE \E i \in DOMAIN s : s[i].who = p
  <2>1. PICK i \in DOMAIN s : i = CHOOSE j \in DOMAIN s : s[j].who = p
    BY <1>1
  <2>2. Pop(s, p) = SubSeq(s, 1, i - 1) \o SubSeq(s, i + 1, Len(s))
    BY <1>1, <2>1 DEF Pop, RemoveAt
  <2>3. PICK before : before = SubSeq(s, 1, i - 1)
    OBVIOUS
  <2>4. PICK behind : behind = SubSeq(s, i + 1, Len(s))
    OBVIOUS
  <2>5. i \in 1..Len(s) /\ Len(s) \in Nat
    OBVIOUS
  <2>6. before \in Seq(Entries) /\ \A k \in 1..Len(before) : k \in DOMAIN s /\ before[k] = s[k]
    BY <2>3, <2>5
  <2>7. behind \in Seq(Entries) /\ \A k \in 1..Len(behind) : i + k \in DOMAIN s /\ behind[k] = s[i + k]
    BY <2>4, <2>5
  <2>8. before \o behind \in Seq(Entries) /\ DOMAIN (before \o behind) = 1..(Len(before) + Len(behind))
    BY <2>6, <2>7
  <2> SUFFICES ASSUME NEW k \in DOMAIN (before \o behind)
               PROVE  \E j \in DOMAIN s : (before \o behind)[k] = s[j]
    BY <2>2, <2>3, <2>4, <2>8
  <2>9. CASE k <= Len(before)
    BY <2>6, <2>7, <2>8, <2>9
  <2>10. CASE k > Len(before)
    <3>1. k - Len(before) \in 1..Len(behind) /\ (before \o behind)[k] = behind[k - Len(before)]
      BY <2>6, <2>7, <2>8, <2>10
    <3> QED BY <2>7, <3>1
  <2> QED BY <2>6, <2>8, <2>9, <2>10
<1>2. CASE ~\E i \in DOMAIN s : s[i].who = p
  BY <1>2 DEF Pop
<1> QED BY <1>1, <1>2

\* A person was seen in a conversation by a message of theirs that was let in then,
\* or again since.
Evident(e) ==
    \E m \in Messages : Author[m] = e.who /\ Conversation[m] = e.conv /\ e.seenAt <= evidence[m]

\* What came after a remembered message is on record, and a message that was let in
\* once is forgotten only after Capacity others.
ForgottenLate ==
    /\ since \in [Messages -> SUBSET Messages]
    /\ \A m \in Messages : IsFiniteSet(since[m])
    /\ \A i, j \in DOMAIN seen : i < j => seen[j] \in since[seen[i]]
    /\ \A m \in Messages :
           evidence[m] # -1 /\ FirstTime(m) => Cardinality(since[m]) >= Capacity

ChatsInv ==
    /\ chats \in Seq(Entries) /\ chatClock \in Nat
    /\ evidence \in [Messages -> Int] /\ \A m \in Messages : evidence[m] <= chatClock
    /\ \A k \in DOMAIN chats : Evident(chats[k])

\* A person is remembered by a message of theirs (PersonalChats.remember).
LEMMA RememberKeeps ==
    ASSUME ChatsInv, NEW m \in Messages, Remember(m), chatClock' = chatClock,
           evidence' = [evidence EXCEPT ![m] = chatClock]
    PROVE  ChatsInv'
<1>1. /\ evidence' \in [Messages -> Int] /\ evidence'[m] = chatClock
      /\ \A o \in Messages : evidence[o] <= evidence'[o] /\ evidence'[o] <= chatClock
      /\ \A o \in Messages : evidence[o] \in Int /\ evidence'[o] \in Int
  BY DEF ChatsInv
<1>2. \A e \in Entries : Evident(e) => Evident(e)'
  <2> SUFFICES ASSUME NEW e \in Entries, NEW o \in Messages, Author[o] = e.who,
                      Conversation[o] = e.conv, e.seenAt <= evidence[o]
               PROVE  e.seenAt <= evidence'[o]
    BY DEF Evident
  <2> QED BY <1>1 DEF Entries
<1>3. CASE Author[m] = Nobody
  <2>1. chats' = chats
    BY <1>3 DEF Remember
  <2>2. \A k \in DOMAIN chats : chats[k] \in Entries
    BY DEF ChatsInv
  <2> QED BY <1>1, <1>2, <2>1, <2>2 DEF ChatsInv
<1>4. CASE Author[m] # Nobody
  <2>1. PICK left : left = Pop(chats, Author[m])
    OBVIOUS
  <2>2. PICK e : e = Entry(m)
    OBVIOUS
  <2>3. PICK all : all = Append(left, e)
    OBVIOUS
  <2>4. chats' = LastOf(all, MaxSenders) /\ MaxSenders \in Nat \ {0}
    BY <1>4, <2>1, <2>2, <2>3, ChatAssumption DEF Remember, ChatAssumption
  <2>5. e \in Entries /\ Evident(e)'
    <3>1. e.who = Author[m] /\ e.conv = Conversation[m] /\ e.seenAt = chatClock
      BY <2>2 DEF Entry
    <3>2. e \in Entries
      BY <1>4, <2>2 DEF Entry, Entries, People, Conversations, ChatsInv
    <3> QED BY <1>1, <3>1, <3>2 DEF Evident, ChatsInv
  <2>6. left \in Seq(Entries) /\ \A k \in DOMAIN left : left[k] \in Entries /\ Evident(left[k])'
    <3>1. left \in Seq(Entries) /\ \A k \in DOMAIN left : \E i \in DOMAIN chats : left[k] = chats[i]
      BY <2>1, PopLeaves DEF ChatsInv
    <3> QED BY <1>2, <3>1 DEF ChatsInv
  <2>7. /\ all \in Seq(Entries) /\ Len(all) = Len(left) + 1
        /\ \A k \in 1..Len(all) : all[k] \in Entries /\ Evident(all[k])'
    <3>1. all \in Seq(Entries) /\ Len(all) = Len(left) + 1 /\ all[Len(all)] = e
      BY <2>3, <2>5, <2>6
    <3>2. \A k \in 1..Len(left) : all[k] = left[k]
      BY <2>3, <2>5, <2>6
    <3>3. \A k \in 1..Len(all) : k \in 1..Len(left) \/ k = Len(all)
      BY <2>6, <3>1
    <3> QED BY <2>5, <2>6, <3>1, <3>2, <3>3
  <2>8. /\ chats' \in Seq(Entries)
        /\ \A k \in 1..Len(chats') : chats'[k] = all[Len(all) - Len(chats') + k]
        /\ Len(chats') \in Nat /\ Len(chats') <= Len(all)
    <3>1. PICK last : last = LastOf(all, MaxSenders)
      OBVIOUS
    <3>2. /\ last \in Seq(Entries)
          /\ Len(last) = IF Len(all) > MaxSenders THEN MaxSenders ELSE Len(all)
          /\ \A k \in 1..Len(last) : last[k] = all[Len(all) - Len(last) + k]
      BY <2>4, <2>7, <3>1, LastOnes
    <3>3. chats' = last /\ Len(last) \in Nat /\ Len(last) <= Len(all)
      BY <2>4, <2>7, <3>1, <3>2
    <3> QED BY <3>2, <3>3
  <2>9. \A k \in DOMAIN chats' : Len(all) - Len(chats') + k \in 1..Len(all)
    BY <2>7, <2>8
  <2>10. ASSUME NEW k \in DOMAIN chats' PROVE Evident(chats[k])'
    <3>1. PICK x \in Entries : x = all[Len(all) - Len(chats') + k] /\ x = chats'[k] /\ Evident(x)'
      BY <2>7, <2>8, <2>9
    <3> QED BY <3>1 DEF Evident
  <2> QED BY <1>1, <2>8, <2>10 DEF ChatsInv
<1> QED BY <1>3, <1>4

\* NoFreshSecondTurn does not say what is remembered: the messages of the latest
\* turns, each once, as many as fit or all of them.
SeenIsRecent ==
    /\ seen \in Seq(Messages) /\ Len(seen) <= Capacity
    /\ \A a, b \in DOMAIN seen : seen[a] = seen[b] => a = b
    /\ IF listenOnly THEN turns = <<>>
       ELSE /\ Len(seen) <= Len(turns)
            /\ Len(seen) < Capacity => Len(seen) = Len(turns)
            /\ \A k \in DOMAIN seen : seen[k] = turns[Len(turns) - Len(seen) + k].msg

RepeatInv ==
    /\ turns \in Seq(TurnRecords) /\ listenOnly \in BOOLEAN
    /\ ChatsInv /\ SeenIsRecent /\ ForgottenLate /\ NoFreshSecondTurn

\* A message that is let in again has been forgotten, and so many others came since.
LEMMA OthersCameSince ==
    ASSUME RepeatInv, ~listenOnly, NEW i \in DOMAIN turns, FirstTime(turns[i].msg)
    PROVE  Cardinality(Between(i, Len(turns) + 1)) >= Capacity
<1>1. PICK last \in Nat : last = Len(turns)
  BY DEF RepeatInv
<1>2. PICK kept \in Nat : kept = Len(seen)
  BY DEF RepeatInv, SeenIsRecent
<1>3. /\ DOMAIN turns = 1..last /\ DOMAIN seen = 1..kept /\ Capacity \in Nat \ {0}
      /\ kept <= last /\ kept <= Capacity /\ i \in 1..last
      /\ \A k \in 1..kept : seen[k] = turns[last - kept + k].msg
      /\ \A a, b \in 1..kept : seen[a] = seen[b] => a = b
  <2>1. /\ DOMAIN turns = 1..last /\ DOMAIN seen = 1..kept /\ i \in 1..last
        /\ Capacity \in Nat \ {0} /\ kept <= last /\ kept <= Capacity
    BY <1>1, <1>2, ChatAssumption DEF ChatAssumption, RepeatInv, SeenIsRecent
  <2>2. \A k \in 1..kept : seen[k] = turns[last - kept + k].msg
    BY <1>1, <1>2, <2>1 DEF RepeatInv, SeenIsRecent
  <2>3. \A a, b \in 1..kept : seen[a] = seen[b] => a = b
    BY <2>1 DEF RepeatInv, SeenIsRecent
  <2> QED BY <2>1, <2>2, <2>3
<1>4. i <= last - kept
  <2> SUFFICES ASSUME i > last - kept PROVE FALSE
    BY <1>3
  <2>1. PICK k \in 1..kept : last - kept + k = i
    <3>1. i - (last - kept) \in 1..kept
      BY <1>3
    <3>2. last - kept + (i - (last - kept)) = i
      BY <1>3
    <3> QED BY <3>1, <3>2
  <2> QED BY <1>3, <2>1 DEF FirstTime
<1>5. kept = Capacity
  BY <1>1, <1>2, <1>3, <1>4 DEF RepeatInv, SeenIsRecent
<1> DEFINE places == (i + 1)..last
<1>6. Between(i, Len(turns) + 1) = {turns[k].msg : k \in places}
  <2>1. Len(turns) + 1 - 1 = last
    BY <1>1
  <2> QED BY <2>1 DEF Between
<1>7. PICK others : others = {turns[k].msg : k \in places}
  OBVIOUS
<1>8. IsFiniteSet(others)
  <2>1. IsFiniteSet(places)
    <3>1. i + 1 \in Int /\ last \in Int
      BY <1>3
    <3> QED BY <3>1, FS_Interval
  <2> DEFINE f == [k \in places |-> turns[k].msg]
  <2>2. f \in Surjection(places, others)
    BY <1>7 DEF Surjection
  <2> QED BY <2>1, <2>2, FS_Surjection
<1>9. Cardinality(1..Capacity) = Capacity
  <2>1. 1 \in Int /\ Capacity \in Int /\ ~(1 > Capacity) /\ Capacity - 1 + 1 = Capacity
    BY <1>3
  <2>2. Cardinality(1..Capacity) = IF 1 > Capacity THEN 0 ELSE Capacity - 1 + 1
    BY <2>1, FS_Interval
  <2> QED BY <2>1, <2>2
<1>10. Cardinality(1..Capacity) <= Cardinality(others)
  <2> DEFINE g == [k \in 1..Capacity |-> seen[k]]
  <2>1. \A k \in 1..Capacity : seen[k] \in others
    <3> SUFFICES ASSUME NEW k \in 1..Capacity PROVE seen[k] \in others
      OBVIOUS
    <3>1. last - kept + k \in places
      BY <1>3, <1>4, <1>5
    <3> QED BY <1>3, <1>5, <1>7, <3>1
  <2>2. g \in Injection(1..Capacity, others)
    <3>1. g \in [1..Capacity -> others]
      BY <2>1
    <3>2. \A a, b \in 1..Capacity : g[a] = g[b] => a = b
      BY <1>3, <1>5
    <3> QED BY <3>1, <3>2 DEF Injection, IsInjective
  <2> QED BY <1>8, <2>2, FS_Injection
<1>11. Cardinality(others) \in Nat
  BY <1>8, FS_CardinalityType
<1> QED BY <1>3, <1>6, <1>7, <1>9, <1>10, <1>11

\* Turns that only go on are made of the same messages.
LEMMA MessagesStay ==
    ASSUME RepeatInv, turns' \in Seq(TurnRecords), Len(turns') = Len(turns),
           \A k \in 1..Len(turns) : turns'[k].msg = turns[k].msg,
           UNCHANGED <<seen, listenOnly, chats, evidence, since>>, chatClock' \in Nat, chatClock <= chatClock'
    PROVE  RepeatInv'
<1>1. /\ Len(turns) \in Nat /\ DOMAIN turns = 1..Len(turns) /\ DOMAIN turns' = 1..Len(turns)
      /\ Len(seen) \in Nat /\ DOMAIN seen = 1..Len(seen)
  BY DEF RepeatInv, SeenIsRecent
<1>2. ChatsInv'
  BY DEF RepeatInv, ChatsInv, Evident
<1>3. SeenIsRecent'
  <2>1. CASE listenOnly
    <3>1. turns' = <<>>
      BY <1>1, <2>1 DEF RepeatInv, SeenIsRecent
    <3> QED BY <2>1, <3>1 DEF RepeatInv, SeenIsRecent
  <2>2. CASE ~listenOnly
    <3>1. PICK last \in Nat : last = Len(turns)
      BY <1>1
    <3>2. PICK kept \in Nat : kept = Len(seen)
      BY <1>1
    <3>3. /\ seen \in Seq(Messages) /\ kept <= Capacity /\ kept <= last
          /\ kept < Capacity => kept = last
          /\ \A x, y \in DOMAIN seen : seen[x] = seen[y] => x = y
      BY <2>2, <3>1, <3>2 DEF RepeatInv, SeenIsRecent
    <3>4. \A k \in 1..kept : seen[k] = turns[last - kept + k].msg
      BY <1>1, <2>2, <3>1, <3>2 DEF RepeatInv, SeenIsRecent
    <3>5. \A k \in 1..kept : last - kept + k \in 1..last
      BY <3>3
    <3>6. \A k \in 1..kept : seen[k] = turns'[last - kept + k].msg
      BY <3>1, <3>4, <3>5
    <3>7. seen' = seen /\ listenOnly' = listenOnly /\ DOMAIN seen = 1..kept
      BY <1>1, <3>2
    <3>8. ~listenOnly' /\ Len(turns') = last /\ Len(seen') = kept
      BY <2>2, <3>1, <3>2
    <3> QED BY <3>3, <3>6, <3>7, <3>8 DEF SeenIsRecent
  <2> QED BY <2>1, <2>2 DEF RepeatInv
<1>4. NoFreshSecondTurn'
  <2> SUFFICES ASSUME NEW i \in 1..Len(turns), NEW j \in 1..Len(turns), i < j,
                      turns'[i].msg = turns'[j].msg
               PROVE  Cardinality({turns'[k].msg : k \in (i + 1)..(j - 1)}) >= Capacity
    BY <1>1 DEF NoFreshSecondTurn, Between
  <2>1. \A k \in (i + 1)..(j - 1) : k \in 1..Len(turns)
    BY <1>1
  <2>2. {turns'[k].msg : k \in (i + 1)..(j - 1)} = Between(i, j)
    BY <2>1 DEF Between
  <2>3. turns[i].msg = turns[j].msg
    OBVIOUS
  <2> QED BY <1>1, <2>2, <2>3 DEF RepeatInv, NoFreshSecondTurn
<1>5. ForgottenLate'
  BY DEF RepeatInv, ForgottenLate, FirstTime
<1> QED BY <1>2, <1>3, <1>4, <1>5 DEF RepeatInv

\* A message is let in: the row of the remembered moves on with the row of turns.
LEMMA LetIn ==
    ASSUME RepeatInv, NEW m \in Messages, Receive(m), turns' \in Seq(TurnRecords)
    PROVE  RepeatInv'
<1>1. PICK kept \in Nat : kept = Len(seen)
  BY DEF RepeatInv, SeenIsRecent
<1>2. PICK last \in Nat : last = Len(turns)
  BY DEF RepeatInv
<1>3. PICK size \in Nat : size = Len(seen') /\ size = (IF kept + 1 > Capacity THEN Capacity ELSE kept + 1)
  <2>1. Append(seen, m) \in Seq(Messages) /\ Len(Append(seen, m)) = kept + 1
    BY <1>1 DEF RepeatInv, SeenIsRecent
  <2>2. PICK all : all = Append(seen, m)
    OBVIOUS
  <2>3. all \in Seq(Messages) /\ Len(all) = kept + 1 /\ seen' = LastOf(all, Capacity)
    BY <2>1, <2>2 DEF Receive, MarkFirst
  <2>4. Capacity \in Nat \ {0}
    BY ChatAssumption DEF ChatAssumption
  <2>5. Len(LastOf(all, Capacity)) = IF Len(all) > Capacity THEN Capacity ELSE Len(all)
    BY <2>3, <2>4, LastOnes
  <2> QED BY <2>3, <2>4, <2>5
<1>4. /\ seen' \in Seq(Messages) /\ DOMAIN seen' = 1..size
      /\ \A k \in 1..size : seen'[k] = IF k = size THEN m ELSE seen[kept + 1 - size + k]
  <2>1. PICK all : all = Append(seen, m)
    OBVIOUS
  <2>2. /\ all \in Seq(Messages) /\ Len(all) = kept + 1 /\ all[kept + 1] = m
        /\ \A k \in 1..kept : all[k] = seen[k]
    BY <1>1, <2>1 DEF RepeatInv, SeenIsRecent
  <2>3. seen' = LastOf(all, Capacity) /\ Capacity \in Nat \ {0}
    BY <2>1, ChatAssumption DEF Receive, MarkFirst, ChatAssumption
  <2>4. /\ LastOf(all, Capacity) \in Seq(Messages)
        /\ \A k \in 1..Len(LastOf(all, Capacity)) :
               LastOf(all, Capacity)[k] = all[Len(all) - Len(LastOf(all, Capacity)) + k]
    BY <2>2, <2>3, LastOnes
  <2>5. seen' \in Seq(Messages) /\ DOMAIN seen' = 1..size
    <3>1. PICK row \in Seq(Messages) : row = seen'
      BY <2>3, <2>4
    <3>2. DOMAIN row = 1..Len(row)
      BY <3>1
    <3>3. Len(row) = size
      BY <1>3, <3>1
    <3> QED BY <3>1, <3>2, <3>3
  <2>7. \A k \in 1..size : seen'[k] = all[kept + 1 - size + k]
    <3>1. PICK row : row = LastOf(all, Capacity)
      OBVIOUS
    <3>2. Len(row) = size /\ seen' = row /\ \A k \in 1..Len(row) : row[k] = all[Len(all) - Len(row) + k]
      BY <1>3, <2>3, <2>4, <3>1
    <3> QED BY <2>2, <3>2
  <2>6. ASSUME NEW k \in 1..size PROVE seen'[k] = IF k = size THEN m ELSE seen[kept + 1 - size + k]
    <3>1. CASE k = size
      <4>1. kept + 1 - size + k = kept + 1
        BY <3>1
      <4> QED BY <2>2, <2>7, <3>1, <4>1
    <3>2. CASE k # size
      <4>1. kept + 1 - size + k \in 1..kept
        BY <1>3, <2>3, <3>2
      <4> QED BY <2>2, <2>7, <3>2, <4>1
    <3> QED BY <3>1, <3>2
  <2> QED BY <2>5, <2>6
<1>5. /\ DOMAIN seen = 1..kept /\ DOMAIN turns = 1..last /\ Capacity \in Nat \ {0}
      /\ kept <= Capacity /\ \A k \in 1..kept : seen[k] # m
      /\ \A a, b \in 1..kept : seen[a] = seen[b] => a = b
  <2>1. DOMAIN seen = 1..kept /\ DOMAIN turns = 1..last /\ kept <= Capacity
    BY <1>1, <1>2 DEF RepeatInv, SeenIsRecent
  <2>2. Capacity \in Nat \ {0}
    BY ChatAssumption DEF ChatAssumption
  <2>3. \A k \in 1..kept : seen[k] # m
    BY <2>1 DEF Receive, FirstTime
  <2>4. \A a, b \in 1..kept : seen[a] = seen[b] => a = b
    BY <2>1 DEF RepeatInv, SeenIsRecent
  <2> QED BY <2>1, <2>2, <2>3, <2>4
<1>6. ChatsInv' /\ listenOnly' = listenOnly
  <2>1. evidence' = [evidence EXCEPT ![m] = chatClock]
    BY DEF RepeatInv, ForgottenLate, Receive, Note
  <2> QED BY <2>1, RememberKeeps DEF RepeatInv, Receive, laneVars
<1>7. size <= Capacity /\ \A a, b \in 1..size : seen'[a] = seen'[b] => a = b
  <2> SUFFICES ASSUME NEW a \in 1..size, NEW b \in 1..size, seen'[a] = seen'[b] PROVE a = b
    BY <1>3
  <2>1. \A k \in 1..size : k # size => kept + 1 - size + k \in 1..kept
    BY <1>3, <1>5
  <2>2. CASE a = size /\ b # size
    BY <1>4, <1>5, <2>1, <2>2
  <2>3. CASE a # size /\ b = size
    BY <1>4, <1>5, <2>1, <2>3, SMTT(30)
  <2>4. CASE a # size /\ b # size
    <3>1. PICK x \in 1..kept : x = kept + 1 - size + a
      BY <2>1, <2>4
    <3>2. PICK y \in 1..kept : y = kept + 1 - size + b
      BY <2>1, <2>4
    <3>3. seen[x] = seen[y]
      BY <1>4, <2>4, <3>1, <3>2
    <3>4. x = y
      BY <1>5, <3>3
    <3> QED BY <3>1, <3>2, <3>4
  <2> QED BY <2>2, <2>3, <2>4
<1>10. ForgottenLate'
  <2>1. /\ since \in [Messages -> SUBSET Messages] /\ \A o \in Messages : IsFiniteSet(since[o])
        /\ since' = [o \in Messages |-> IF o = m THEN {} ELSE since[o] \cup {m}]
    BY DEF RepeatInv, ForgottenLate, Receive, Note
  <2>2. /\ since' \in [Messages -> SUBSET Messages] /\ since'[m] = {}
        /\ \A o \in Messages \ {m} : since'[o] = since[o] \cup {m}
    BY <2>1
  <2>3. \A o \in Messages : IsFiniteSet(since'[o])
    BY <2>1, <2>2, FS_EmptySet, FS_AddElement
  <2>4. ASSUME NEW i \in 1..size, NEW j \in 1..size, i < j
        PROVE  seen'[j] \in since'[seen'[i]]
    <3>1. PICK x \in 1..kept : x = kept + 1 - size + i /\ seen'[i] = seen[x]
      BY <1>3, <1>4, <1>5, <2>4, SMTT(30)
    <3>2. seen[x] \in Messages \ {m}
      BY <1>1, <1>5 DEF RepeatInv, SeenIsRecent
    <3>3. CASE j = size
      BY <1>4, <2>2, <3>1, <3>2, <3>3
    <3>4. CASE j # size
      <4>3. kept + 1 - size + j \in 1..kept
        BY <1>3, <1>5, <2>4, <3>4
      <4>1. PICK y \in 1..kept : y = kept + 1 - size + j /\ seen'[j] = seen[y]
        BY <1>4, <2>4, <3>4, <4>3
      <4>2. seen[y] \in since[seen[x]]
        BY <1>5, <2>4, <3>1, <4>1 DEF RepeatInv, ForgottenLate
      <4> QED BY <2>2, <3>1, <3>2, <4>1, <4>2
    <3> QED BY <3>3, <3>4
  <2>5. ASSUME NEW o \in Messages, evidence'[o] # -1, FirstTime(o)'
        PROVE  Cardinality(since'[o]) >= Capacity
    <3>1. o # m
      <4>1. size \in 1..size
        BY <1>3, <1>5
      <4>2. seen'[size] = m /\ size \in DOMAIN seen'
        BY <1>4, <4>1
      <4> QED BY <2>5, <4>2 DEF FirstTime
    <3>2. since[o] \subseteq since'[o] /\ IsFiniteSet(since'[o])
      BY <2>2, <2>3, <3>1
    <3>3. CASE FirstTime(o)
      <4>1. evidence[o] # -1
        BY <2>5, <3>1 DEF Receive, Note, RepeatInv, ChatsInv
      <4>2. Cardinality(since[o]) >= Capacity
        BY <3>3, <4>1 DEF RepeatInv, ForgottenLate
      <4>3. Cardinality(since[o]) <= Cardinality(since'[o])
        BY <3>2, FS_Subset
      <4>4. Cardinality(since[o]) \in Nat /\ Cardinality(since'[o]) \in Nat
        BY <2>1, <3>2, FS_CardinalityType
      <4> QED BY <1>5, <4>2, <4>3, <4>4
    <3>4. CASE ~FirstTime(o)
      <4>1. PICK a \in 1..kept : seen[a] = o
        BY <1>5, <3>4 DEF FirstTime
      <4>10. \A k \in 1..size : k # size => kept + 1 - size + k \in 1..kept
        BY <1>3, <1>5
      <4>2. \A k \in 1..size : k # size => kept + 1 - size + k \in 1..kept /\ seen'[k] = seen[kept + 1 - size + k]
        BY <1>4, <4>10
      <4>3. a < kept + 1 - size + 1
        <5> SUFFICES ASSUME a >= kept + 1 - size + 1 PROVE FALSE
          BY <1>3
        <5>1. PICK k \in 1..size : k # size /\ a = kept + 1 - size + k
          <6>1. a - (kept + 1 - size) \in 1..size /\ a - (kept + 1 - size) # size
            BY <1>3, <1>5
          <6> QED BY <1>3, <6>1
        <5>2. seen'[k] = o
          BY <4>1, <4>2, <5>1
        <5> QED BY <1>4, <2>5, <5>2 DEF FirstTime
      <4>4. size = Capacity /\ a = 1 /\ kept = Capacity
        BY <1>3, <1>5, <4>3
      <4>5. \A k \in 1..Capacity : seen'[k] \in since'[o]
        <5> SUFFICES ASSUME NEW k \in 1..Capacity PROVE seen'[k] \in since'[o]
          OBVIOUS
        <5>1. CASE k = size
          BY <1>4, <2>2, <3>1, <4>4, <5>1
        <5>2. CASE k # size
          <6>1. kept + 1 - size + k \in 1..kept /\ kept + 1 - size + k > 1 /\ 1 \in 1..kept
            BY <4>2, <4>4, <5>2
          <6>2. seen'[k] \in since[o]
            BY <1>5, <4>1, <4>2, <4>4, <5>2, <6>1, SMTT(30) DEF RepeatInv, ForgottenLate
          <6> QED BY <3>2, <6>2
        <5> QED BY <5>1, <5>2
      <4> DEFINE g == [k \in 1..Capacity |-> seen'[k]]
      <4>6. g \in Injection(1..Capacity, since'[o])
        <5>1. g \in [1..Capacity -> since'[o]]
          BY <4>5
        <5>2. \A b, c \in 1..Capacity : g[b] = g[c] => b = c
          BY <1>7, <4>4
        <5> QED BY <5>1, <5>2 DEF Injection, IsInjective
      <4>7. Cardinality(1..Capacity) <= Cardinality(since'[o])
        BY <3>2, <4>6, FS_Injection
      <4>8. Cardinality(1..Capacity) = Capacity
        <5>1. 1 \in Int /\ Capacity \in Int /\ ~(1 > Capacity) /\ Capacity - 1 + 1 = Capacity
          BY <1>5
        <5> QED BY <5>1, FS_Interval
      <4>9. Cardinality(since'[o]) \in Nat
        BY <3>2, FS_CardinalityType
      <4> QED BY <1>5, <4>7, <4>8, <4>9
    <3> QED BY <3>3, <3>4
  <2> QED BY <1>4, <2>2, <2>3, <2>4, <2>5 DEF ForgottenLate
<1>8. CASE listenOnly
  <2>1. turns' = turns /\ turns = <<>>
    BY <1>8 DEF Receive, RepeatInv, SeenIsRecent
  <2>2. DOMAIN turns' = {}
    BY <2>1
  <2> QED BY <1>3, <1>4, <1>6, <1>7, <1>8, <1>10, <2>1, <2>2 DEF RepeatInv, SeenIsRecent, NoFreshSecondTurn
<1>9. CASE ~listenOnly
  <2>1. PICK t : t = [msg |-> m, after |-> chains[Conversation[m]], at |-> "parked"]
    OBVIOUS
  <2>2. turns' = Append(turns, t) /\ t.msg = m
    BY <1>9, <2>1 DEF Receive, Enqueue
  <2>4. /\ Len(turns') = last + 1 /\ DOMAIN turns' = 1..(last + 1) /\ turns'[last + 1] = t
        /\ \A k \in 1..last : turns'[k] = turns[k]
    BY <1>2, <2>2 DEF RepeatInv
  <2>5. SeenIsRecent'
    <3>1. kept <= last /\ (kept < Capacity => kept = last)
      BY <1>1, <1>2, <1>9 DEF RepeatInv, SeenIsRecent
    <3>2. size <= last + 1 /\ (size < Capacity => size = last + 1)
      BY <1>3, <1>5, <3>1
    <3>3. ASSUME NEW k \in 1..size PROVE seen'[k] = turns'[last + 1 - size + k].msg
      <4>1. CASE k = size
        <5>1. last + 1 - size + k = last + 1
          BY <4>1
        <5> QED BY <1>4, <2>2, <2>4, <4>1, <5>1
      <4>2. CASE k # size
        <5>1. PICK x \in 1..kept : x = kept + 1 - size + k
          <6>1. kept + 1 - size + k \in 1..kept
            BY <1>3, <1>5, <4>2
          <6> QED BY <6>1
        <5>2. seen[x] = turns[last - kept + x].msg
          BY <1>1, <1>2, <1>5, <1>9 DEF RepeatInv, SeenIsRecent
        <5>3. last - kept + x = last + 1 - size + k /\ last - kept + x \in 1..last
          BY <3>1, <5>1
        <5> QED BY <1>4, <2>4, <4>2, <5>1, <5>2, <5>3
      <4> QED BY <4>1, <4>2
    <3>4. PICK row : row = seen'
      OBVIOUS
    <3>5. PICK done : done = turns'
      OBVIOUS
    <3>6. ~listenOnly' /\ Len(done) = last + 1 /\ Len(row) = size /\ DOMAIN row = 1..size
      BY <1>3, <1>4, <1>6, <1>9, <2>4, <3>4, <3>5
    <3>7. /\ row \in Seq(Messages) /\ size <= Capacity
          /\ \A x, y \in DOMAIN row : row[x] = row[y] => x = y
          /\ \A k \in DOMAIN row : row[k] = done[Len(done) - Len(row) + k].msg
      BY <1>4, <1>7, <3>3, <3>4, <3>5, <3>6
    <3> QED BY <3>2, <3>4, <3>5, <3>6, <3>7 DEF SeenIsRecent
  <2>6. NoFreshSecondTurn'
    <3> SUFFICES ASSUME NEW i \in 1..(last + 1), NEW j \in 1..(last + 1), i < j,
                        turns'[i].msg = turns'[j].msg
                 PROVE  Cardinality({turns'[k].msg : k \in (i + 1)..(j - 1)}) >= Capacity
      BY <2>4 DEF NoFreshSecondTurn, Between
    <3>1. i \in 1..last /\ \A k \in (i + 1)..(j - 1) : k \in 1..last
      OBVIOUS
    <3>2. {turns'[k].msg : k \in (i + 1)..(j - 1)} = Between(i, j)
      BY <2>4, <3>1 DEF Between
    <3>3. CASE j = last + 1
      <4>1. turns[i].msg = m
        BY <2>2, <2>4, <3>1, <3>3
      <4>2. FirstTime(turns[i].msg)
        BY <4>1 DEF Receive
      <4>3. Cardinality(Between(i, Len(turns) + 1)) >= Capacity
        BY <1>5, <1>9, <3>1, <4>2, OthersCameSince
      <4> QED BY <1>2, <3>2, <3>3, <4>3
    <3>4. CASE j # last + 1
      <4>1. j \in 1..last /\ turns[i].msg = turns[j].msg
        BY <2>4, <3>1, <3>4
      <4> QED BY <1>5, <3>1, <3>2, <4>1 DEF RepeatInv, NoFreshSecondTurn
    <3> QED BY <3>3, <3>4
  <2> QED BY <1>6, <1>10, <2>5, <2>6 DEF RepeatInv
<1> QED BY <1>8, <1>9 DEF RepeatInv

\* What is remembered follows the turns through every arrival and every turn
\* (ChatChannel: _Seen, PersonalChats.remember).
THEOREM RepeatInvariant == ChatSpec => []RepeatInv
<1>1. ChatInit => RepeatInv
  <2> SUFFICES ASSUME ChatInit PROVE RepeatInv
    OBVIOUS
  <2>1. turns = <<>> /\ seen = <<>> /\ chats = <<>> /\ DOMAIN turns = {} /\ DOMAIN seen = {} /\ DOMAIN chats = {}
    BY DEF ChatInit
  <2>2. Capacity \in Nat
    BY ChatAssumption DEF ChatAssumption
  <2>3. Len(turns) = 0 /\ Len(seen) = 0 /\ turns \in Seq(TurnRecords) /\ seen \in Seq(Messages)
        /\ chats \in Seq(Entries)
    BY <2>1
  <2>4. ForgottenLate
    BY <2>1, FS_EmptySet DEF ChatInit, ForgottenLate
  <2> QED BY <2>1, <2>2, <2>3, <2>4 DEF ChatInit, RepeatInv, ChatsInv, SeenIsRecent, NoFreshSecondTurn
<1>2. LaneInv /\ LaneInv' /\ RepeatInv /\ [ChatNext]_chatVars => RepeatInv'
  <2> SUFFICES ASSUME LaneInv, LaneInv', RepeatInv, [ChatNext]_chatVars PROVE RepeatInv'
    OBVIOUS
  <2>1. turns' \in Seq(TurnRecords) /\ chatClock \in Nat
    BY DEF LaneInv, LaneTypes, RepeatInv, ChatsInv
  <2>2. ASSUME turns' = turns, UNCHANGED <<seen, listenOnly, personVars>> PROVE RepeatInv'
    BY <2>1, <2>2, MessagesStay DEF personVars
  <2>3. CASE StartChat \/ LoseChat \/ CancelChat \/ CloseChat
    BY <2>2, <2>3 DEF StartChat, LoseChat, CancelChat, CloseChat, turnVars, laneVars
  <2>4. CASE ChatTick
    <3>1. chatClock' \in Nat /\ chatClock <= chatClock'
      BY <2>1, <2>4 DEF ChatTick
    <3> QED BY <2>1, <2>4, <3>1, MessagesStay DEF ChatTick, turnVars, laneVars
  <2>5. ASSUME NEW m \in Messages, Receive(m) PROVE RepeatInv'
    BY <2>1, <2>5, LetIn
  <2>6. ASSUME NEW m \in Messages, ReceiveRepeat(m) PROVE RepeatInv'
    BY <2>2, <2>6 DEF ReceiveRepeat, chatVars, turnVars, laneVars
  <2>7. ASSUME NEW i \in DOMAIN turns, TurnSteps(i) \/ RespondEnds(i) \/ RespondCancelled(i)
        PROVE  RepeatInv'
    <3>1. PICK state : GoesTo(i, state)
      BY <2>7 DEF TurnSteps, BeginTurn, TurnTimesOut, SendReply, TurnUnwinds, RespondEnds, RespondCancelled
    <3>2. UNCHANGED <<seen, listenOnly, personVars>>
      BY <2>7 DEF TurnSteps, BeginTurn, TurnTimesOut, SendReply, TurnUnwinds, RespondEnds, RespondCancelled,
         OnlyTurns, laneVars
    <3>3. Len(turns') = Len(turns) /\ \A k \in 1..Len(turns) : turns'[k].msg = turns[k].msg
      BY <3>1 DEF GoesTo, RepeatInv, TurnRecords
    <3> QED BY <2>1, <3>2, <3>3, MessagesStay DEF personVars
  <2>8. ASSUME NEW i \in DOMAIN turns, TurnDone(i) PROVE RepeatInv'
    BY <2>2, <2>8 DEF TurnDone, laneVars
  <2>9. CASE UNCHANGED chatVars
    BY <2>2, <2>9 DEF chatVars, turnVars, laneVars
  <2> QED BY <2>3, <2>4, <2>5, <2>6, <2>7, <2>8, <2>9 DEF ChatNext
<1> QED BY <1>1, <1>2, LaneInvariant, PTL DEF ChatSpec

\* However often StandIn sends a message again, no turn is taken twice while it is
\* remembered, and nobody is written to on the evidence of an old message
\* (chat.py, _Seen and PersonalChats.for_caller).
THEOREM RedeliveriesStayHarmless == ChatSpec => []RedeliveriesAreHarmless
<1>1. RepeatInv => OnlyTheirOwnRecentChat
  <2> SUFFICES ASSUME RepeatInv, NEW p \in People, NEW c \in ForCaller(p)
               PROVE  \E m \in Messages :
                          /\ Author[m] = p /\ Conversation[m] = c
                          /\ evidence[m] >= 0 /\ chatClock - evidence[m] <= Window
    BY DEF OnlyTheirOwnRecentChat
  <2>1. PICK i \in DOMAIN chats : chats[i].who = p /\ chats[i].conv = c /\ chatClock - chats[i].seenAt <= Window
    BY DEF ForCaller
  <2>2. PICK e \in Entries : e = chats[i] /\ Evident(e)
    BY DEF RepeatInv, ChatsInv
  <2>3. PICK m \in Messages : Author[m] = p /\ Conversation[m] = c /\ e.seenAt <= evidence[m]
    BY <2>1, <2>2 DEF Evident
  <2>4. e.seenAt \in Nat /\ evidence[m] \in Int /\ chatClock \in Nat /\ Window \in Nat
    BY ChatAssumption DEF Entries, RepeatInv, ChatsInv, ChatAssumption
  <2> QED BY <2>1, <2>2, <2>3, <2>4
<1>2. RepeatInv => RedeliveriesAreHarmless
  BY <1>1 DEF RepeatInv, RedeliveriesAreHarmless
<1> QED BY <1>2, RepeatInvariant, PTL
=============================================================================
