------------------------------- MODULE TileRelay -------------------------------
(***************************************************************************)
(* The avatar tile of a call: a decode loop offers frames as fast as it    *)
(* likes, a pacing task sends the newest one each tick, and a frame that   *)
(* must be encoded is out of the event loop's hands meanwhile.  Video      *)
(* gives way to audio: a socket over its budget drops the frame.           *)
(***************************************************************************)
EXTENDS Naturals, Sequences

CONSTANT MaxFrames   \* bound: frames offered, numbered from 1

VARIABLES
    offered,    \* the newest frame offered
    slot,       \* _latest, the frame waiting; 0 is none
    frameInHand,  \* the frame the pacing task works on; 0 is none
    tileStage,  \* what it does with it: "idle", "taken", "encoding" or "sending"
    tileTask,   \* the pacing task: "none", "running" or "over"
    tileOver,   \* _closed
    dropped,    \* frames given up for the budget, or for want of an encoder
    tiled       \* the frames sent, in order

tileVars == <<offered, slot, frameInHand, tileStage, tileTask, tileOver, dropped, tiled>>

TileInit ==
    /\ offered = 0 /\ slot = 0 /\ frameInHand = 0 /\ tileStage = "idle"
    /\ tileTask = "none" /\ tileOver = FALSE /\ dropped = {} /\ tiled = <<>>

Offer ==
    /\ offered < MaxFrames /\ ~tileOver
    /\ offered' = offered + 1 /\ slot' = offered'
    /\ UNCHANGED <<frameInHand, tileStage, tileTask, tileOver, dropped, tiled>>

StartTile ==
    /\ tileTask = "none" /\ ~tileOver
    /\ tileTask' = "running"
    /\ UNCHANGED <<offered, slot, frameInHand, tileStage, tileOver, dropped, tiled>>

-----------------------------------------------------------------------------
\* One tick.  The frame is taken out of the slot before anything is awaited.
DropsFrame ==
    /\ dropped' = dropped \cup {frameInHand} /\ frameInHand' = 0 /\ tileStage' = "idle"
    /\ UNCHANGED tiled

SendsFrame ==
    /\ tileStage' = "sending" /\ tiled' = Append(tiled, frameInHand)
    /\ UNCHANGED <<frameInHand, dropped>>

Take ==
    /\ tileTask = "running" /\ ~tileOver /\ tileStage = "idle" /\ slot # 0
    /\ frameInHand' = slot /\ slot' = 0 /\ tileStage' = "taken"
    /\ UNCHANGED <<offered, tileTask, tileOver, dropped, tiled>>

\* Over budget, a frame that is JPEG already, or one to encode.
Judge ==
    /\ tileStage = "taken"
    /\ \/ DropsFrame
       \/ SendsFrame
       \/ tileStage' = "encoding" /\ UNCHANGED <<frameInHand, dropped, tiled>>
    /\ UNCHANGED <<offered, slot, tileTask, tileOver>>

\* Mutant: the slot is emptied, and with it the frame offered during the encoding.
ClearsSlot == slot' = 0
LeavesSlot == UNCHANGED slot

\* Encoding fails, or the socket filled meanwhile, or the frame goes out.
Encoded ==
    /\ tileStage = "encoding" /\ LeavesSlot
    /\ DropsFrame \/ SendsFrame
    /\ UNCHANGED <<offered, tileTask, tileOver>>

Sent ==
    /\ tileStage = "sending"
    /\ tileStage' = "idle" /\ frameInHand' = 0
    /\ UNCHANGED <<offered, slot, tileTask, tileOver, dropped, tiled>>

\* aclose cancels the task wherever it is and waits for it.
CloseTile ==
    /\ ~tileOver
    /\ tileOver' = TRUE /\ slot' = 0
    /\ tileTask' = IF tileTask = "running" THEN "over" ELSE tileTask
    /\ tileStage' = "idle" /\ frameInHand' = 0
    /\ UNCHANGED <<offered, dropped, tiled>>

TileNext == Offer \/ StartTile \/ Take \/ Judge \/ Encoded \/ Sent \/ CloseTile

TileSpec == TileInit /\ [][TileNext]_tileVars

-----------------------------------------------------------------------------
\* The caller sees every frame at most once and never an older one after a
\* newer; and until the tile is closed, the newest frame offered is waiting,
\* being worked on, sent, or given up on purpose.
NewestFrameWins ==
    /\ \A i \in 1..Len(tiled) - 1 : tiled[i] < tiled[i + 1]
    /\ ~tileOver /\ offered # 0 =>
         \/ offered \in {slot, frameInHand} \cup dropped
         \/ \E i \in DOMAIN tiled : tiled[i] = offered
=============================================================================
