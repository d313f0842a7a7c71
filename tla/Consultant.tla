------------------------------- MODULE Consultant -------------------------------
(***************************************************************************)
(* The slow agent behind a live call.  ask() allows one consultation at a  *)
(* time and gives up on it after a time; the agent's thread cannot be      *)
(* stopped and runs on.  The agent ("asker") is built on first use and     *)
(* dropped with a consultation that timed out, but not with one that the   *)
(* end of the call cancelled: and the recap of the call asks once more.    *)
(***************************************************************************)
EXTENDS Naturals, FiniteSets

CONSTANTS
    MaxAskers   \* bound: askers built on one call

VARIABLES
    consultBusy,   \* _busy
    asker,         \* _asker: the number of the one kept, or 0
    built,         \* askers built so far
    asked,         \* the thread that ask() waits for, or 0: the asker's number
    threads,       \* askers with a consultation running in a thread
    consultFor,    \* who may ask: "call", then "recap", then "nobody"
    cutShort,      \* history: the asker at work when the call ended, or 0
    shared         \* history: an asker was given a question while it had one,
                   \* which the end of the call had not cut short

consultVars == <<consultBusy, asker, built, asked, threads, consultFor, cutShort, shared>>

ConsultInit ==
    /\ consultBusy = FALSE /\ asker = 0 /\ built = 0 /\ asked = 0
    /\ threads = {} /\ consultFor = "call" /\ cutShort = 0 /\ shared = FALSE

\* _run, up to the thread.
PutTo(a) ==
    /\ asker' = a /\ asked' = a
    /\ shared' = (shared \/ (a \in threads /\ a # cutShort))
    /\ threads' = threads \cup {a}

Ask ==
    /\ ~consultBusy /\ consultBusy' = TRUE
    /\ IF asker # 0
       THEN PutTo(asker) /\ UNCHANGED built
       ELSE built < MaxAskers /\ built' = built + 1 /\ PutTo(built + 1)
    /\ UNCHANGED cutShort

CallAsks == consultFor = "call" /\ Ask /\ UNCHANGED consultFor

\* The recap's summary, of an agent that may still work on what the call asked it.
RecapAsks == consultFor = "recap" /\ Ask /\ consultFor' = "nobody"

\* The thread returns or raises while ask() waits: the asker is kept.
Consulted ==
    /\ asked # 0 /\ asked' = 0
    /\ consultBusy' = FALSE
    /\ threads' = threads \ {asked}
    /\ UNCHANGED <<asker, built, consultFor, cutShort, shared>>

\* Mutant: the asker is kept for the next question.
KeepsAsker == UNCHANGED asker
DropsAsker == asker' = 0

ConsultTimesOut ==
    /\ asked # 0 /\ asked' = 0
    /\ consultBusy' = FALSE
    /\ DropsAsker
    /\ UNCHANGED <<built, threads, consultFor, cutShort, shared>>

\* The call ends: the task that asks is cancelled and unwound, its thread runs on and
\* _asker stays.
ConsultCancelled ==
    /\ consultFor = "call" /\ consultFor' = "recap"
    /\ cutShort' = asked
    /\ asked' = 0 /\ consultBusy' = FALSE
    /\ UNCHANGED <<asker, built, threads, shared>>

\* A thread nobody waits for comes to its end.
AbandonedReturns(a) ==
    /\ a \in threads /\ a # asked
    /\ threads' = threads \ {a}
    /\ UNCHANGED <<consultBusy, asker, built, asked, consultFor, cutShort, shared>>

ConsultNext ==
    \/ CallAsks \/ RecapAsks \/ Consulted \/ ConsultTimesOut \/ ConsultCancelled
    \/ \E a \in 1..MaxAskers : AbandonedReturns(a)

ConsultSpec == ConsultInit /\ [][ConsultNext]_consultVars

\* "the next consultation builds a fresh one rather than sharing state with
\* something nobody is waiting for any more": no agent is given a question while it
\* works on one that timed out, and whoever is busy waits for the agent kept.  The one
\* let off is the agent that the end of the call cut short, which ask() keeps: the
\* recap does share it.
NoAgentServesTwo ==
    /\ ~shared
    /\ consultBusy <=> asked # 0
    /\ asked # 0 => asked = asker /\ asked \in threads
=============================================================================
