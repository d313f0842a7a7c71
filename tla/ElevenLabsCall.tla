---------------------------- MODULE ElevenLabsCall ----------------------------
(***************************************************************************)
(* The ElevenLabs plugin's handler with its AgentSocket: the dial that is  *)
(* retried once, the read loop that awaits call.end itself when the agent  *)
(* ends the call or its socket goes, the aclose that cancels the read loop *)
(* and waits for it, and the client tools that run beside it.              *)
(*                                                                         *)
(* A teardown waits for the handler's aclose, which waits for the read     *)
(* loop, which may be waiting for that teardown: cancelling the read loop  *)
(* is what lets all three go on.                                           *)
(***************************************************************************)
EXTENDS ProviderCall, Naturals

VARIABLES
    tool,        \* a tool run off the read loop: "none" or "running"
    lastAudio,   \* _last_audio_event
    lastCut,     \* _last_interrupt_event
    played       \* the newest audio event sent to the caller since the last cut

CONSTANT MaxEvents   \* bound: audio events of the conversation

elevenVars == <<relayVars, tool, lastAudio, lastCut, played>>
Voice == <<tool, lastAudio, lastCut, played>>

ElevenInit ==
    /\ CallInit("dialling", FALSE)
    /\ tool = "none" /\ lastAudio = 0 /\ lastCut = 0 /\ played = 0

-----------------------------------------------------------------------------
\* on_start.
DialFails ==
    /\ starting = "dialling"
    /\ starting' = "redialling"
    /\ UNCHANGED <<sess, handlerClosed, owned, line, reader, releasing, Voice>>

RedialFails ==
    /\ starting = "redialling"
    /\ starting' = "over" /\ EndsTheCall
    /\ UNCHANGED <<handlerClosed, owned, line, reader, releasing, Voice>>

\* Mutant: it is kept all the same.
KeepsItAnyway == starting' = "over" /\ owned' = TRUE
\* A connection that opens over a closed handler is kept by nobody.
KeepsIt ==
    /\ starting' = IF handlerClosed THEN "dropping" ELSE "over"
    /\ owned' = ~handlerClosed

Connects ==
    /\ starting \in {"dialling", "redialling"}
    /\ line' = "open" /\ reader' = "reading"
    /\ KeepsIt
    /\ UNCHANGED <<sess, handlerClosed, releasing, Voice>>

HangsUpLate ==
    /\ starting = "dropping"
    /\ starting' = "over" /\ line' = "shut" /\ reader' = "gone"
    /\ UNCHANGED <<sess, handlerClosed, owned, releasing, Voice>>

Cancelled == StartCancelled /\ UNCHANGED Voice

-----------------------------------------------------------------------------
\* The read loop, one message at a time.
AudioArrives ==
    /\ reader = "reading" /\ owned /\ lastAudio < MaxEvents
    /\ lastAudio' = lastAudio + 1
    /\ played' = IF lastAudio' > lastCut THEN lastAudio' ELSE played
    /\ UNCHANGED <<relayVars, tool, lastCut>>

\* The event an interruption names may be one that is still to arrive.
InterruptionArrives ==
    /\ reader = "reading" /\ owned
    /\ \E e \in 1..MaxEvents : lastCut' = IF e > lastCut THEN e ELSE lastCut
    /\ played' = 0
    /\ UNCHANGED <<relayVars, tool, lastAudio>>

Goodbye ==
    /\ owned /\ line = "open" /\ sess = "up"
    /\ lastCut' = IF lastAudio > lastCut THEN lastAudio ELSE lastCut
    /\ played' = 0
    /\ UNCHANGED <<relayVars, tool, lastAudio>>

ToolCalled ==
    /\ reader = "reading" /\ owned /\ tool = "none"
    /\ tool' = "running"
    /\ UNCHANGED <<relayVars, lastAudio, lastCut, played>>

ToolEnds ==
    /\ tool = "running" /\ tool' = "none"
    /\ UNCHANGED <<relayVars, lastAudio, lastCut, played>>

\* end_call is awaited in the read loop.
AgentEndsCall ==
    /\ reader = "reading" /\ owned
    /\ reader' = "ending" /\ EndsTheCall
    /\ UNCHANGED <<starting, handlerClosed, owned, line, releasing, Voice>>

\* The socket closes, fails or stays silent too long.
ProviderGoes ==
    /\ reader = "reading" /\ starting # "dropping"
    /\ reader' = "disposing" /\ line' = "shut"
    /\ UNCHANGED <<sess, starting, handlerClosed, owned, releasing, Voice>>

\* on_close: the call ends with its agent, unless it is ending already.
Reports ==
    IF handlerClosed THEN reader' = "gone" /\ StaysUp
                     ELSE reader' = "reporting" /\ EndsTheCall

SocketReported ==
    /\ reader = "disposing" /\ Reports
    /\ UNCHANGED <<starting, handlerClosed, owned, line, releasing, Voice>>

-----------------------------------------------------------------------------
\* aclose: the tools are cancelled, the agent taken, its read loop cancelled.
AsksToRelease ==
    /\ sess = "ending" /\ releasing = "no"
    /\ handlerClosed' = TRUE /\ owned' = FALSE /\ tool' = "none"
    /\ releasing' = IF owned THEN "unwinding" ELSE "done"
    /\ sess' = IF owned THEN sess ELSE "over"
    /\ UNCHANGED <<starting, line, reader, lastAudio, lastCut, played>>

\* Mutant: the same wait without the cancel: a read loop in call.end never ends.
WaitsForReader ==
    /\ releasing = "unwinding" /\ reader = "reading"
    /\ reader' = "gone" /\ ShutsLine
    /\ UNCHANGED <<sess, starting, handlerClosed, owned, releasing, Voice>>

\* Wherever the read loop is, CancelledError takes it through its finally.
Unwinds ==
    /\ releasing = "unwinding" /\ reader \in Live
    /\ reader' = "gone" /\ ShutsLine
    /\ UNCHANGED <<sess, starting, handlerClosed, owned, releasing, Voice>>

Released ==
    /\ releasing = "unwinding" /\ reader = "gone"
    /\ ShutsLine
    /\ releasing' = "done" /\ sess' = "over"
    /\ UNCHANGED <<starting, handlerClosed, owned, reader, Voice>>

-----------------------------------------------------------------------------
ElevenSteps == HangsUpLate \/ SocketReported \/ AsksToRelease \/ Unwinds \/ Released

ElevenNext ==
    \/ DialFails \/ RedialFails \/ Connects \/ Cancelled \/ ElevenSteps
    \/ AudioArrives \/ InterruptionArrives \/ Goodbye \/ ToolCalled \/ ToolEnds
    \/ AgentEndsCall \/ ProviderGoes
    \/ CallCloses /\ UNCHANGED Voice

ElevenSpec == ElevenInit /\ [][ElevenNext]_elevenVars
=============================================================================
