---------------------------- MODULE RealtimeTurns ----------------------------
(***************************************************************************)
(* Who may speak on a Hermes call.  The provider runs one response at a    *)
(* time and rejects a second; RealtimeSession guards every ask on a latch  *)
(* of its own, which the provider's events set and clear as they arrive;   *)
(* RealtimeHandler drops the audio of a turn its gate refused on a second  *)
(* latch.  Asks and events cross on the wire, so both latches are read     *)
(* before the events that would have changed them are in.                  *)
(***************************************************************************)
EXTENDS Naturals, Sequences

CONSTANTS
    MaxAsks,     \* bound: asks and turns of the call
    MaxWire      \* bound: messages under way in one direction

VARIABLES
    latch,        \* _response_active
    drop,         \* _drop_response
    autoOn,       \* server VAD answers by itself: a 1:1 call
    batches,      \* _pending_tool_batches
    toProvider,   \* messages to the provider: "create" and "cancel"
    speakingNow,  \* the provider has a response under way
    toPlugin,     \* events to the plugin
    asks          \* asks, turns and responses the provider begins by itself

turnVars == <<latch, drop, autoOn, batches, toProvider, speakingNow, toPlugin, asks>>

TurnsInit ==
    /\ latch = FALSE /\ drop = FALSE /\ autoOn \in BOOLEAN /\ batches = 0
    /\ toProvider = <<>> /\ speakingNow = FALSE /\ toPlugin = <<>> /\ asks = 0

Room == asks < MaxAsks /\ Len(toProvider) + 1 < MaxWire
Counts == asks' = asks + 1

-----------------------------------------------------------------------------
\* Asks.  A response is asked for only when none is thought to be active.
CreateResponse ==
    /\ toProvider' = IF latch THEN toProvider ELSE Append(toProvider, "create")
    /\ latch' = TRUE

CancelResponse ==
    /\ toProvider' = IF latch THEN Append(toProvider, "cancel") ELSE toProvider
    /\ latch' = FALSE

\* A greeting, a key of the caller's pad, a line from outside the call.
SendUserText ==
    /\ Room /\ Counts /\ CreateResponse
    /\ UNCHANGED <<drop, autoOn, batches, speakingNow, toPlugin>>

\* interrupt_and_say: cancel first, or the latch swallows the goodbye.
InterruptAndSay ==
    /\ Room /\ Counts
    /\ drop' = FALSE
    /\ toProvider' = toProvider \o (IF latch THEN <<"cancel">> ELSE <<>>) \o <<"create">>
    /\ latch' = TRUE
    /\ UNCHANGED <<autoOn, batches, speakingNow, toPlugin>>

\* The caller starts to speak: playback is cut, the response cancelled.
BargesIn ==
    /\ Room /\ Counts /\ CancelResponse
    /\ UNCHANGED <<drop, autoOn, batches, speakingNow, toPlugin>>

\* A finished turn that asks for silence, or that the gate refuses.
TurnRefused ==
    /\ Room /\ Counts
    /\ drop' = TRUE /\ CancelResponse
    /\ UNCHANGED <<autoOn, batches, speakingNow, toPlugin>>

\* A turn the gate lets through clears a drop latched by an earlier one.
TurnAnswered ==
    /\ Room /\ Counts
    /\ drop' = FALSE
    /\ IF autoOn THEN UNCHANGED <<toProvider, latch>> ELSE CreateResponse
    /\ UNCHANGED <<autoOn, batches, speakingNow, toPlugin>>

\* The last tool batch to return asks for the one response they all get.
BatchReturns ==
    /\ batches > 0 /\ Room /\ Counts
    /\ batches' = batches - 1
    /\ IF batches' = 0 THEN CreateResponse ELSE UNCHANGED <<toProvider, latch>>
    /\ UNCHANGED <<drop, autoOn, speakingNow, toPlugin>>

-----------------------------------------------------------------------------
\* The provider.
Sends(event) == toPlugin' = Append(toPlugin, event)
Provider == Len(toPlugin) < MaxWire /\ UNCHANGED <<latch, drop, autoOn, batches>>
Reads(message) ==
    /\ toProvider # <<>> /\ Head(toProvider) = message
    /\ toProvider' = Tail(toProvider)
    /\ UNCHANGED asks

TakesAsk ==
    /\ Reads("create") /\ ~speakingNow /\ Provider
    /\ speakingNow' = TRUE /\ Sends("created")

RejectsAsk ==
    /\ Reads("create") /\ Provider
    /\ Sends("error") /\ UNCHANGED speakingNow

TakesCancel ==
    /\ Reads("cancel") /\ Provider
    /\ Sends(IF speakingNow THEN "done" ELSE "error") /\ speakingNow' = FALSE

AnswersByItself ==
    /\ autoOn /\ ~speakingNow /\ asks < MaxAsks /\ Counts /\ Provider
    /\ speakingNow' = TRUE /\ Sends("created") /\ UNCHANGED toProvider

Speaks ==
    /\ speakingNow /\ Provider
    /\ Sends("audio") /\ UNCHANGED <<speakingNow, toProvider, asks>>

Finishes ==
    /\ speakingNow /\ Provider
    /\ \E how \in {"done", "calls"} : Sends(how)
    /\ speakingNow' = FALSE /\ UNCHANGED <<toProvider, asks>>

-----------------------------------------------------------------------------
\* The receive loop, one event at a time.
Hears(events) ==
    /\ toPlugin # <<>> /\ Head(toPlugin) \in events /\ toPlugin' = Tail(toPlugin)
    /\ UNCHANGED <<autoOn, toProvider, speakingNow, asks>>

HearsCreated == Hears({"created"}) /\ latch' = TRUE /\ UNCHANGED <<drop, batches>>

\* Played, or dropped under a refused turn; no latch moves.
ReadsAudio == Hears({"audio"}) /\ UNCHANGED <<latch, drop, batches>>

HearsDone ==
    /\ Hears({"done", "calls"})
    /\ latch' = FALSE /\ drop' = FALSE
    /\ batches' = IF Head(toPlugin) = "calls" THEN batches + 1 ELSE batches

\* Mutant: the latch waits for a response that was never made.
ErrorLeaves == UNCHANGED latch
\* A rejected ask has no response whose end would clear the latch.
ErrorClears == latch' = FALSE

HearsError == Hears({"error"}) /\ ErrorClears /\ UNCHANGED <<drop, batches>>

TurnsNext ==
    \/ SendUserText \/ InterruptAndSay \/ BargesIn \/ TurnRefused \/ TurnAnswered \/ BatchReturns
    \/ TakesAsk \/ RejectsAsk \/ TakesCancel \/ AnswersByItself \/ Speaks \/ Finishes
    \/ HearsCreated \/ ReadsAudio \/ HearsDone \/ HearsError

TurnsSpec == TurnsInit /\ [][TurnsNext]_turnVars

-----------------------------------------------------------------------------
\* The assistant is not muted for good: a latch that is set is going to be
\* cleared, by a response under way or by an answer to an ask still on the wire.
LatchIsBacked ==
    latch => \/ speakingNow
             \/ \E i \in DOMAIN toProvider : toProvider[i] = "create"
             \/ \E i \in DOMAIN toPlugin : toPlugin[i] # "audio"
=============================================================================
