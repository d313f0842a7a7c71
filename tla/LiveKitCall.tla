----------------------------- MODULE LiveKitCall -----------------------------
(***************************************************************************)
(* The LiveKit plugin's handler: on_start joins the room, dispatches the   *)
(* agent and publishes the caller; the room's events bind the agent and    *)
(* start the pumps that relay its audio tracks; aclose disconnects the     *)
(* room it finds, and deletes it.                                          *)
(*                                                                         *)
(* The teardown gives on_start two seconds and goes on without it: a room  *)
(* that is still being joined has nothing to disconnect yet.               *)
(***************************************************************************)
EXTENDS ProviderCall, Naturals

CONSTANTS
    Tracks,      \* the audio tracks the agent publishes, one after another
    MaxContext   \* bound: context lines of the call

ASSUME LiveKitAssumption == "nobody" \notin Tracks

VARIABLES
    track,     \* each track: "new", "subscribed" or "gone"
    pump,      \* the task relaying it: "none", "relaying" or "over"
    claim,     \* _pump_sid, or "nobody"
    bound,     \* _agent_identity is set: the call is answered
    queued,    \* context lines owned for the agent
    published, \* the newest context line sent into the room
    lateJoin   \* history: aclose disconnected while the room was still being joined

media == <<track, pump, claim>>
context == <<bound, queued, published>>
livekitVars == <<relayVars, media, context, lateJoin>>

LiveKitInit ==
    /\ CallInit("joining", TRUE)
    /\ track = [t \in Tracks |-> "new"] /\ pump = [t \in Tracks |-> "none"]
    /\ claim = "nobody" /\ bound = FALSE /\ queued = 0 /\ published = 0
    /\ lateJoin = FALSE

-----------------------------------------------------------------------------
\* on_start.  Once the room is joined the agent is dispatched into it and the
\* caller published, whether or not the call has ended meanwhile.
Joins ==
    /\ starting = "joining"
    /\ starting' = "configuring" /\ line' = "open"
    /\ UNCHANGED <<sess, handlerClosed, owned, reader, releasing, media, context, lateJoin>>

\* The join, the dispatch or the publishing fails: handler-start-failure.
StartFails ==
    /\ starting # "over"
    /\ starting' = "over" /\ EndsTheCall
    /\ UNCHANGED <<handlerClosed, owned, line, reader, releasing, media, context, lateJoin>>

SetUp ==
    /\ starting = "configuring"
    /\ starting' = "over"
    /\ UNCHANGED <<sess, handlerClosed, owned, line, reader, releasing, media, context, lateJoin>>

\* Room events, while the room is joined; _end_soon asks only once per handler.
InRoom == line = "open"
EndsSoon == IF handlerClosed THEN UNCHANGED sess ELSE EndsTheCall

\* The first audio binds the agent, answers the call and flushes its context.
Binds == bound' = TRUE /\ published' = queued /\ UNCHANGED queued

StartPump(t) ==
    IF claim = "nobody"
      THEN claim' = t /\ pump' = [pump EXCEPT ![t] = "relaying"]
      ELSE UNCHANGED <<claim, pump>>

AudioSubscribed(t) ==
    /\ InRoom /\ track[t] = "new"
    /\ track' = [track EXCEPT ![t] = "subscribed"]
    /\ StartPump(t) /\ Binds
    /\ UNCHANGED <<relayVars, lateJoin>>

Unsubscribed(t) ==
    /\ InRoom /\ track[t] = "subscribed"
    /\ track' = [track EXCEPT ![t] = "gone"]
    /\ claim' = IF claim = t THEN "nobody" ELSE claim
    /\ UNCHANGED <<relayVars, pump, context, lateJoin>>

\* Mutant: a stale pump clears the claim of the one that took over.
UnclaimsAny(t) == claim' = "nobody"
\* A pump gives back its own claim only.
Unclaims(t) == claim' = IF claim = t THEN "nobody" ELSE claim

PumpEnds(t) ==
    /\ pump[t] = "relaying"
    /\ pump' = [pump EXCEPT ![t] = "over"]
    /\ Unclaims(t)
    /\ UNCHANGED <<relayVars, track, context, lateJoin>>

AgentLeaves ==
    /\ InRoom /\ bound /\ EndsSoon
    /\ UNCHANGED <<starting, handlerClosed, owned, line, reader, releasing, media, context, lateJoin>>

Dropped == line' = "shut" /\ EndsSoon

RoomDropped ==
    /\ InRoom /\ Dropped
    /\ UNCHANGED <<starting, handlerClosed, owned, reader, releasing, media, context, lateJoin>>

\* Held until the agent is bound, and then sent in order.
ContextArrives ==
    /\ starting = "over" /\ sess = "up" /\ queued < MaxContext
    /\ queued' = queued + 1
    /\ published' = IF bound THEN queued' ELSE published
    /\ UNCHANGED <<relayVars, media, bound, lateJoin>>

-----------------------------------------------------------------------------
\* aclose: the pumps are cancelled and waited for, the room is disconnected.
AsksToRelease ==
    /\ sess = "ending" /\ releasing = "no"
    /\ handlerClosed' = TRUE /\ releasing' = "unwinding"
    /\ UNCHANGED <<sess, starting, owned, line, reader, media, context, lateJoin>>

Disconnects ==
    /\ releasing = "unwinding"
    /\ pump' = [t \in Tracks |-> IF pump[t] = "relaying" THEN "over" ELSE pump[t]]
    /\ claim' = "nobody"
    /\ owned' = FALSE /\ ShutsLine
    /\ releasing' = "deleting"
    /\ lateJoin' = (starting = "joining")
    /\ UNCHANGED <<sess, starting, handlerClosed, reader, track, context>>

\* Deleting the room drops whoever is in it by then; it may fail, or be off.
DeletesRoom ==
    /\ releasing = "deleting"
    /\ releasing' = "done" /\ sess' = "over"
    /\ line' \in {line, IF line = "open" THEN "shut" ELSE line}
    /\ UNCHANGED <<starting, handlerClosed, owned, reader, media, context, lateJoin>>

LiveKitSteps ==
    \/ AsksToRelease \/ Disconnects \/ DeletesRoom
    \/ Joins \/ StartFails \/ SetUp

LiveKitNext ==
    \/ LiveKitSteps \/ AgentLeaves \/ RoomDropped \/ ContextArrives
    \/ \E t \in Tracks : AudioSubscribed(t) \/ Unsubscribed(t) \/ PumpEnds(t)
    \/ CallCloses /\ UNCHANGED <<media, context, lateJoin>>

LiveKitSpec == LiveKitInit /\ [][LiveKitNext]_livekitVars

-----------------------------------------------------------------------------
\* Of the tracks the room still carries, at most one is relayed to the caller.
Heard(t) == pump[t] = "relaying" /\ track[t] = "subscribed"
OneVoice == \A t, u \in Tracks : Heard(t) /\ Heard(u) => t = u

\* A room is left joined in no other way than that connect() outlasts the release.
OnlyALateJoinStays == sess = "over" /\ line = "open" => lateJoin

\* Once the handler is released and on_start has returned, no room is left
\* joined: aclose "releases the room and every rtc primitive it owns".
NoRoomLeftJoined == sess = "over" /\ starting = "over" => line # "open"
=============================================================================
