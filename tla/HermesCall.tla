------------------------------ MODULE HermesCall ------------------------------
(***************************************************************************)
(* The Hermes plugin's handler with its RealtimeSession: the session is    *)
(* the handler's before it connects, so that a release over a connection   *)
(* still being made closes its HTTP client under it; the receive loop      *)
(* awaits call.end when the provider goes, and close() cancels it, then    *)
(* the tool batches, and waits for both.                                   *)
(***************************************************************************)
EXTENDS ProviderCall

VARIABLES
    batch,    \* a tool batch: "none" or "running"
    filed     \* LIVE_CALLS knows this handler

hermesVars == <<relayVars, batch, filed>>

HermesInit == CallInit("joining", FALSE) /\ batch = "none" /\ filed = FALSE

\* An inbound caller who is not on the allowlist is refused from on_start.
Refuses ==
    /\ starting = "joining"
    /\ starting' = "over" /\ EndsTheCall
    /\ UNCHANGED <<handlerClosed, owned, line, reader, releasing, batch, filed>>

Admits ==
    /\ starting = "joining"
    /\ starting' = "dialling" /\ owned' = TRUE /\ filed' = TRUE
    /\ UNCHANGED <<sess, handlerClosed, line, reader, releasing, batch>>

\* A connection made after close() had its client closed: it fails.
ConnectFails ==
    /\ starting = "dialling"
    /\ starting' = "over" /\ EndsTheCall
    /\ UNCHANGED <<handlerClosed, owned, line, reader, releasing, batch, filed>>

SocketOpens ==
    /\ starting = "dialling" /\ releasing = "no"
    /\ starting' = "configuring" /\ line' = "open"
    /\ UNCHANGED <<sess, handlerClosed, owned, reader, releasing, batch, filed>>

\* The receive loop starts once the session is configured; it finds no socket
\* when close() has taken it, and ends.
Configured ==
    /\ starting = "configuring"
    /\ starting' = "over"
    /\ reader' = IF line = "open" THEN "reading" ELSE "gone"
    /\ UNCHANGED <<sess, handlerClosed, owned, line, releasing, batch, filed>>

Cancelled == StartCancelled /\ UNCHANGED <<batch, filed>>

ToolsCalled ==
    /\ reader = "reading" /\ batch = "none"
    /\ batch' = "running"
    /\ UNCHANGED <<relayVars, filed>>

ToolsReturn ==
    /\ batch = "running" /\ batch' = "none"
    /\ UNCHANGED <<relayVars, filed>>

\* The loop ends with its socket, and says so unless close() is what ended it.
Reports ==
    IF handlerClosed THEN reader' = "gone" /\ StaysUp
                     ELSE reader' = "reporting" /\ EndsTheCall

ProviderGoes ==
    /\ reader = "reading"
    /\ line' = "shut" /\ Reports
    /\ UNCHANGED <<starting, handlerClosed, owned, releasing, batch, filed>>

-----------------------------------------------------------------------------
\* aclose is dispatched over a connect that outlasts the teardown's grace, but
\* on_start has run to that first await by then.
AsksToRelease ==
    /\ sess = "ending" /\ releasing = "no" /\ starting # "joining"
    /\ handlerClosed' = TRUE /\ owned' = FALSE /\ filed' = FALSE
    /\ releasing' = IF owned THEN "unwinding" ELSE "done"
    /\ UNCHANGED <<sess, starting, line, reader, batch>>

Unwinds ==
    /\ releasing = "unwinding" /\ reader \in Live
    /\ reader' = "gone"
    /\ UNCHANGED <<sess, starting, handlerClosed, owned, line, releasing, batch, filed>>

\* The tool batches are cancelled and awaited before the sockets go.
BatchesUnwind ==
    /\ releasing = "unwinding" /\ reader \notin Live
    /\ releasing' = "closing" /\ batch' = "none"
    /\ UNCHANGED <<sess, starting, handlerClosed, owned, line, reader, filed>>

ClosesSockets ==
    /\ releasing = "closing"
    /\ ShutsLine
    /\ releasing' = "done"
    /\ UNCHANGED <<sess, starting, handlerClosed, owned, reader, batch, filed>>

\* What follows, the recap of the meeting, is a task of its own.
Released ==
    /\ releasing = "done" /\ sess = "ending"
    /\ sess' = "over"
    /\ UNCHANGED <<starting, handlerClosed, owned, line, reader, releasing, batch, filed>>

HermesSteps ==
    \/ Configured \/ AsksToRelease \/ Unwinds \/ BatchesUnwind \/ ClosesSockets \/ Released
    \/ Refuses \/ Admits

HermesNext ==
    \/ ConnectFails \/ SocketOpens \/ Cancelled \/ HermesSteps
    \/ ToolsCalled \/ ToolsReturn \/ ProviderGoes
    \/ CallCloses /\ UNCHANGED <<batch, filed>>

HermesSpec == HermesInit /\ [][HermesNext]_hermesVars
=============================================================================
