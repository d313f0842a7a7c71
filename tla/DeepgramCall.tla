----------------------------- MODULE DeepgramCall -----------------------------
(***************************************************************************)
(* The Deepgram plugin's handler with its AgentSocket: a dial that is not  *)
(* done before the agent says Welcome, so that an attempt may fail with    *)
(* its socket open, and functions that run off the read loop, one of which *)
(* may end the call.                                                       *)
(***************************************************************************)
EXTENDS ProviderCall

VARIABLES
    keepalive,   \* the keepalive task runs
    function     \* a function run off the read loop: "none", "running", "ending"

Beside == <<keepalive, function>>
deepgramVars == <<relayVars, Beside>>

DeepgramInit == CallInit("dialling", FALSE) /\ keepalive = FALSE /\ function = "none"

\* The socket of an attempt that fails is disposed of before the next one.
Disposes == line' = "none"

AttemptFails ==
    /\ starting \in {"dialling", "greeting"}
    /\ starting' = "redialling" /\ Disposes
    /\ UNCHANGED <<sess, handlerClosed, owned, reader, releasing, Beside>>

RetryFails ==
    /\ starting \in {"redialling", "regreeting"}
    /\ starting' = "over" /\ Disposes /\ EndsTheCall
    /\ UNCHANGED <<handlerClosed, owned, reader, releasing, Beside>>

SocketOpens ==
    /\ starting \in {"dialling", "redialling"}
    /\ starting' = IF starting = "dialling" THEN "greeting" ELSE "regreeting"
    /\ line' = "open"
    /\ UNCHANGED <<sess, handlerClosed, owned, reader, releasing, Beside>>

KeepsIt ==
    /\ starting' = IF handlerClosed THEN "dropping" ELSE "over"
    /\ owned' = ~handlerClosed

Welcomed ==
    /\ starting \in {"greeting", "regreeting"}
    /\ reader' = "reading" /\ keepalive' = TRUE
    /\ KeepsIt
    /\ UNCHANGED <<sess, handlerClosed, line, releasing, function>>

HangsUpLate ==
    /\ starting = "dropping"
    /\ starting' = "over" /\ line' = "shut" /\ reader' = "gone" /\ keepalive' = FALSE
    /\ UNCHANGED <<sess, handlerClosed, owned, releasing, function>>

Cancelled == StartCancelled /\ UNCHANGED Beside

FunctionCalled ==
    /\ reader = "reading" /\ owned /\ function = "none"
    /\ function' = "running"
    /\ UNCHANGED <<relayVars, keepalive>>

FunctionEnds ==
    /\ function = "running" /\ function' = "none"
    /\ UNCHANGED <<relayVars, keepalive>>

\* The built-in end_call: its task waits for the teardown that cancels it.
FunctionEndsCall ==
    /\ function = "running"
    /\ function' = "ending" /\ EndsTheCall
    /\ UNCHANGED <<starting, handlerClosed, owned, line, reader, releasing, keepalive>>

ProviderGoes ==
    /\ reader = "reading" /\ starting # "dropping"
    /\ reader' = "disposing" /\ line' = "shut" /\ keepalive' = FALSE
    /\ UNCHANGED <<sess, starting, handlerClosed, owned, releasing, function>>

Reports ==
    IF handlerClosed THEN reader' = "gone" /\ StaysUp
                     ELSE reader' = "reporting" /\ EndsTheCall

SocketReported ==
    /\ reader = "disposing" /\ Reports
    /\ UNCHANGED <<starting, handlerClosed, owned, line, releasing, Beside>>

AsksToRelease ==
    /\ sess = "ending" /\ releasing = "no"
    /\ handlerClosed' = TRUE /\ owned' = FALSE /\ function' = "none"
    /\ releasing' = IF owned THEN "unwinding" ELSE "done"
    /\ sess' = IF owned THEN sess ELSE "over"
    /\ UNCHANGED <<starting, line, reader, keepalive>>

Unwinds ==
    /\ releasing = "unwinding" /\ reader \in Live
    /\ reader' = "gone" /\ keepalive' = FALSE /\ ShutsLine
    /\ UNCHANGED <<sess, starting, handlerClosed, owned, releasing, function>>

Released ==
    /\ releasing = "unwinding" /\ reader = "gone"
    /\ ShutsLine /\ keepalive' = FALSE
    /\ releasing' = "done" /\ sess' = "over"
    /\ UNCHANGED <<starting, handlerClosed, owned, reader, function>>

DeepgramSteps == HangsUpLate \/ SocketReported \/ AsksToRelease \/ Unwinds \/ Released
DialSteps == AttemptFails \/ RetryFails \/ Welcomed

DeepgramNext ==
    \/ AttemptFails \/ RetryFails \/ SocketOpens \/ Welcomed \/ Cancelled
    \/ DeepgramSteps
    \/ FunctionCalled \/ FunctionEnds \/ FunctionEndsCall \/ ProviderGoes
    \/ CallCloses /\ UNCHANGED Beside

DeepgramSpec == DeepgramInit /\ [][DeepgramNext]_deepgramVars
=============================================================================
