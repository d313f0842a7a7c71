----------------------------- MODULE CartesiaCall -----------------------------
(***************************************************************************)
(* The Cartesia plugin's handler with its AgentSocket: the dial that mints *)
(* a token and is retried once, a keepalive beside the read loop, and the  *)
(* agent's "end" event, on which the read loop awaits call.end.            *)
(***************************************************************************)
EXTENDS ProviderCall

VARIABLE keepalive   \* the keepalive task runs

cartesiaVars == <<relayVars, keepalive>>

CartesiaInit == CallInit("dialling", FALSE) /\ keepalive = FALSE

DialFails ==
    /\ starting = "dialling"
    /\ starting' = "redialling"
    /\ UNCHANGED <<sess, handlerClosed, owned, line, reader, releasing, keepalive>>

RedialFails ==
    /\ starting = "redialling"
    /\ starting' = "over" /\ EndsTheCall
    /\ UNCHANGED <<handlerClosed, owned, line, reader, releasing, keepalive>>

KeepsIt ==
    /\ starting' = IF handlerClosed THEN "dropping" ELSE "over"
    /\ owned' = ~handlerClosed

Connects ==
    /\ starting \in {"dialling", "redialling"}
    /\ line' = "open" /\ reader' = "reading" /\ keepalive' = TRUE
    /\ KeepsIt
    /\ UNCHANGED <<sess, handlerClosed, releasing>>

HangsUpLate ==
    /\ starting = "dropping"
    /\ starting' = "over" /\ line' = "shut" /\ reader' = "gone" /\ keepalive' = FALSE
    /\ UNCHANGED <<sess, handlerClosed, owned, releasing>>

Cancelled == StartCancelled /\ UNCHANGED keepalive

\* The agent's own "end", ignored once the handler is closing.
AgentEndsCall ==
    /\ reader = "reading" /\ owned /\ ~handlerClosed
    /\ reader' = "ending" /\ EndsTheCall
    /\ UNCHANGED <<starting, handlerClosed, owned, line, releasing, keepalive>>

\* _dispose cancels the keepalive before it closes what is left of the socket.
ProviderGoes ==
    /\ reader = "reading" /\ starting # "dropping"
    /\ reader' = "disposing" /\ line' = "shut" /\ keepalive' = FALSE
    /\ UNCHANGED <<sess, starting, handlerClosed, owned, releasing>>

Reports ==
    IF handlerClosed THEN reader' = "gone" /\ StaysUp
                     ELSE reader' = "reporting" /\ EndsTheCall

SocketReported ==
    /\ reader = "disposing" /\ Reports
    /\ UNCHANGED <<starting, handlerClosed, owned, line, releasing, keepalive>>

AsksToRelease ==
    /\ sess = "ending" /\ releasing = "no"
    /\ handlerClosed' = TRUE /\ owned' = FALSE
    /\ releasing' = IF owned THEN "unwinding" ELSE "done"
    /\ sess' = IF owned THEN sess ELSE "over"
    /\ UNCHANGED <<starting, line, reader, keepalive>>

Unwinds ==
    /\ releasing = "unwinding" /\ reader \in Live
    /\ reader' = "gone" /\ keepalive' = FALSE /\ ShutsLine
    /\ UNCHANGED <<sess, starting, handlerClosed, owned, releasing>>

Released ==
    /\ releasing = "unwinding" /\ reader = "gone"
    /\ ShutsLine /\ keepalive' = FALSE
    /\ releasing' = "done" /\ sess' = "over"
    /\ UNCHANGED <<starting, handlerClosed, owned, reader>>

CartesiaSteps == HangsUpLate \/ SocketReported \/ AsksToRelease \/ Unwinds \/ Released

CartesiaNext ==
    \/ DialFails \/ RedialFails \/ Connects \/ Cancelled \/ CartesiaSteps
    \/ AgentEndsCall \/ ProviderGoes
    \/ CallCloses /\ UNCHANGED keepalive

CartesiaSpec == CartesiaInit /\ [][CartesiaNext]_cartesiaVars
=============================================================================
