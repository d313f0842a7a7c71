------------------------------- MODULE GroupGate -------------------------------
(***************************************************************************)
(* When the assistant speaks in a room of several people.  The gate judges *)
(* every finished turn: named, it answers and the floor stays open for a   *)
(* while; asked for silence, it gives the floor back; otherwise it stays   *)
(* out.  A gate that is off, because the call has one human or nothing to  *)
(* be named by, answers everything.                                        *)
(*                                                                         *)
(* What a turn says is abstracted to what the two matchers make of it.     *)
(***************************************************************************)
EXTENDS Integers, Sequences

CONSTANTS
    FollowUp,     \* follow_up_window_ms, in ticks
    MaxHeard,     \* bound: finished turns
    MaxGateTime   \* bound: ticks

ASSUME GateAssumption == FollowUp \in Nat

VARIABLES
    meetingThread,  \* the call is attached to a meeting or a channel
    wakePhrases,    \* a wake phrase is configured
    humanCount,     \* _human_count; 2 stands for more
    lastAddressed,  \* _last_addressed_ms, or Never
    gateClock,
    autoReplies,    \* _auto_on: the provider answers every turn by itself
    syncing,        \* on_context waits for the provider to be told
    heard           \* history: the turns, and whether each was answered

gateVars == <<meetingThread, wakePhrases, humanCount, lastAddressed, gateClock, autoReplies,
              syncing, heard>>

Never == 0 - FollowUp - 1

\* An interrupt is the whole of a turn, the wake phrase peeled off: "wait" asks
\* for a pause and "quiet" for silence.
TurnKinds == {"named", "plain", "wait", "quiet"}
Interrupts == {"wait", "quiet"}

GateInit ==
    /\ meetingThread \in BOOLEAN /\ wakePhrases \in BOOLEAN
    /\ humanCount = 0 /\ lastAddressed = Never /\ gateClock = 0
    /\ autoReplies = FALSE /\ syncing = FALSE /\ heard = <<>>

IsGroup == meetingThread \/ humanCount >= 2
GateActive == IsGroup /\ wakePhrases

\* The count of people may add certainty and never removes it.
NoteParticipants(n) ==
    /\ ~syncing
    /\ humanCount' = IF n > humanCount THEN n ELSE humanCount
    /\ syncing' = TRUE
    /\ UNCHANGED <<meetingThread, wakePhrases, lastAddressed, gateClock, autoReplies, heard>>

AutoSynced ==
    /\ syncing /\ syncing' = FALSE
    /\ autoReplies' = ~IsGroup
    /\ UNCHANGED <<meetingThread, wakePhrases, humanCount, lastAddressed, gateClock, heard>>

GateTick ==
    /\ gateClock < MaxGateTime /\ gateClock' = gateClock + 1
    /\ UNCHANGED <<meetingThread, wakePhrases, humanCount, lastAddressed, autoReplies, syncing,
                   heard>>

TurnHeard(kind, answered) ==
    /\ Len(heard) < MaxHeard
    /\ heard' = Append(heard, [kind |-> kind, at |-> gateClock, gated |-> GateActive,
                               answered |-> answered])
    /\ UNCHANGED <<meetingThread, wakePhrases, humanCount, gateClock, autoReplies, syncing>>

\* Mutant: the window outlives its answer.
StaysOpen == UNCHANGED lastAddressed
\* No interrupt is answered; only a dismissal closes the window.
CloseWindow == lastAddressed' = Never

TurnInterrupts(kind) ==
    /\ kind \in Interrupts
    /\ TurnHeard(kind, FALSE)
    /\ IF kind = "quiet" THEN CloseWindow ELSE UNCHANGED lastAddressed

InWindow == gateClock - lastAddressed <= FollowUp

\* Named while the gate is off, nobody has been given the floor.
Decide(kind) ==
    /\ kind \notin Interrupts
    /\ TurnHeard(kind, GateActive => kind = "named" \/ InWindow)
    /\ lastAddressed' = IF GateActive /\ kind = "named" THEN gateClock ELSE lastAddressed

GateNext ==
    \/ \E n \in 1..2 : NoteParticipants(n)
    \/ AutoSynced \/ GateTick
    \/ \E kind \in TurnKinds : TurnInterrupts(kind) \/ Decide(kind)

GateSpec == GateInit /\ [][GateNext]_gateVars

-----------------------------------------------------------------------------
\* In a meeting the assistant speaks to who has the floor and to nobody else: a
\* turn it answers names it, or follows one that did, soon enough and with no
\* request for silence in between.
QuietMeansQuiet ==
    \A i \in DOMAIN heard : heard[i].gated /\ heard[i].answered =>
        \E j \in 1..i :
            /\ heard[j].kind = "named" /\ heard[j].gated
            /\ heard[i].at - heard[j].at <= FollowUp
            /\ \A k \in j..i : heard[k].kind # "quiet"
=============================================================================
