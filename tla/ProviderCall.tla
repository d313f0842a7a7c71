----------------------------- MODULE ProviderCall -----------------------------
(***************************************************************************)
(* What the provider plugins have in common: one call's handler, whose     *)
(* on_start dials the provider, whose aclose releases it, and the session  *)
(* around it, whose teardown may dispatch aclose over an on_start that     *)
(* outlasts its two seconds of grace.  Each plugin's module extends this   *)
(* one and gives the steps of its own socket.                              *)
(***************************************************************************)
VARIABLES
    sess,          \* the session: "up", "ending" once its teardown began, "over"
                   \* when the handler is released
    starting,      \* where on_start is; "over" when it has returned
    handlerClosed, \* the handler's _closed
    owned,          \* the handler's _agent (LiveKit: _room) is set
    line,          \* the connection: "none", "open", "shut", or "lost" when the
                   \* code has dropped it unclosed and only the interpreter's
                   \* finaliser closes it
    reader,        \* the task that reads the socket
    releasing      \* where aclose is

relayVars == <<sess, starting, handlerClosed, owned, line, reader, releasing>>

Live == {"reading", "ending", "disposing", "reporting"}

TypeOK ==
    /\ sess \in {"up", "ending", "over"}
    /\ starting \in {"dialling", "redialling", "greeting", "regreeting", "joining",
                     "configuring", "dropping", "over"}
    /\ handlerClosed \in BOOLEAN /\ owned \in BOOLEAN
    /\ line \in {"none", "open", "shut", "lost"}
    /\ reader \in Live \cup {"none", "gone"}
    /\ releasing \in {"no", "unwinding", "closing", "deleting", "done"}

\* Where on_start first waits, and whether the handler holds its connection by then.
CallInit(first, kept) ==
    /\ sess = "up" /\ starting = first
    /\ handlerClosed = FALSE /\ owned = kept
    /\ line = "none" /\ reader = "none" /\ releasing = "no"

\* session.end and every other closer start the one teardown (_begin_close).
EndsTheCall == sess' = IF sess = "up" THEN "ending" ELSE sess
StaysUp == UNCHANGED sess

\* Anything but this handler closes the call: the peer, a watchdog, a shutdown.
CallCloses ==
    /\ sess = "up" /\ EndsTheCall
    /\ UNCHANGED <<starting, handlerClosed, owned, line, reader, releasing>>

\* The bound on on_start cancels it where it is; the connection it had not
\* yet handed to anybody is nobody's to close.
StartCancelled ==
    /\ starting # "over"
    /\ starting' = "over"
    /\ line' = IF line = "open" /\ ~owned THEN "lost" ELSE line
    /\ EndsTheCall
    /\ UNCHANGED <<handlerClosed, owned, reader, releasing>>

ShutsLine == line' = IF line = "open" THEN "shut" ELSE line
=============================================================================
