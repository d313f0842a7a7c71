-------------------------- MODULE HandlerContract --------------------------
(***************************************************************************)
(* What the server promises the plugin about one call, told without the    *)
(* frame loop, the watchdogs and the teardown task that keep the promise.  *)
(* A handler is built once, is asked to release what it holds once, and    *)
(* the call's slot in the server is freed only after it has done so.       *)
(*                                                                         *)
(* The one way out is a handler built when the teardown has already gone   *)
(* past the point where it looks for one: it is "orphaned" and nobody asks *)
(* it to release anything.  CallSession is shown to implement this.        *)
(***************************************************************************)

VARIABLES
    stage,  \* where the call's handler is in its life
    gate,   \* "open" until the teardown has gone past the handler
    slot    \* whether the call still occupies its slot in the server

vars == <<stage, gate, slot>>

Stages == {"unbuilt", "serving", "closing", "closed", "orphaned"}

TypeOK ==
    /\ stage \in Stages
    /\ gate \in {"open", "shut"}
    /\ slot \in BOOLEAN

Init ==
    /\ stage = "unbuilt"
    /\ gate = "open"
    /\ slot = TRUE

\* session.start builds the handler; behind a shut gate it is an orphan.
Build ==
    /\ stage = "unbuilt"
    /\ stage' = IF gate = "open" THEN "serving" ELSE "orphaned"
    /\ UNCHANGED <<gate, slot>>

\* The handler is told to release what it holds, once.
AskToRelease ==
    /\ stage = "serving"
    /\ gate = "open"
    /\ stage' = "closing"
    /\ UNCHANGED <<gate, slot>>

\* The handler has released, or there was none: the gate shuts, and with no
\* socket left to close the slot is freed in the same step.
ShutGate ==
    /\ gate = "open"
    /\ \/ stage = "closing" /\ stage' = "closed"
       \/ stage = "unbuilt" /\ UNCHANGED stage
    /\ gate' = "shut"
    /\ slot' \in {slot, FALSE}

FreeSlot ==
    /\ gate = "shut"
    /\ slot
    /\ slot' = FALSE
    /\ UNCHANGED <<stage, gate>>

Next == Build \/ AskToRelease \/ ShutGate \/ FreeSlot

Spec == Init /\ [][Next]_vars

\* A freed slot means a released handler, an orphan, or no handler at all.
ReleasedBeforeFreed ==
    ~slot => gate = "shut" /\ stage \notin {"serving", "closing"}
=============================================================================
