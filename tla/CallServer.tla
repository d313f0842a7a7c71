----------------------------- MODULE CallServer -----------------------------
(***************************************************************************)
(* The server that answers StandIn's dials: admission of a connection, the *)
(* registry of live calls, the reaper of unanswered ones, and shutdown.    *)
(* What one call does between its registration and its release is          *)
(* CallSession; here a call is live, then closing, then ended.             *)
(***************************************************************************)
EXTENDS Integers, FiniteSets

CONSTANTS
    Conns,            \* the connections StandIn opens
    CallIds,
    MaxConnections,   \* max_connections
    PrepareSuspends,  \* whether awaiting ws.prepare() lets another task run
    Window, PruneEvery, MaxTime,
    NoConn

ASSUME CallServerAssumption ==
    /\ IsFiniteSet(CallIds)
    /\ MaxConnections \in Nat
    /\ PrepareSuspends \in BOOLEAN
    /\ Window \in Nat /\ PruneEvery \in Nat /\ MaxTime \in Nat
    /\ NoConn \notin Conns

VARIABLES
    now, used, lastPrune, uses,  \* the handshake guard
    calls,     \* _calls: callId -> connection
    stage,     \* where each connection is
    idOf,      \* the callId a connection was dialled for
    overlapped, \* history: the callIds let in twice while ws.prepare() suspended
    answered,  \* the calls an agent has taken
    stale,     \* the calls that have run past the reaper's grace
    draining,
    reaped,    \* the reaper's local set of callIds
    server,    \* "serving", "gathering" in aclose, "cleanup" of the runner
    awaited    \* the calls aclose gathers

guardVars == <<now, used, lastPrune, uses>>
callVars == <<answered, stale>>
hostVars == <<draining, server, awaited>>
serverVars ==
    <<guardVars, calls, stage, idOf, overlapped, callVars, reaped, hostVars>>

Guard == INSTANCE HandshakeGuard

ServerTypeOK ==
    /\ calls \in [CallIds -> Conns \cup {NoConn}]
    /\ stage \in [Conns -> {"new", "preparing", "live", "closing", "ended"}]
    /\ idOf \in [Conns -> CallIds]
    /\ overlapped \subseteq CallIds
    /\ answered \subseteq Conns
    /\ stale \subseteq Conns
    /\ draining \in BOOLEAN
    /\ reaped \subseteq CallIds
    /\ server \in {"serving", "gathering", "cleanup"}
    /\ awaited \subseteq Conns

Registered == {id \in CallIds : calls[id] # NoConn}
Sessions == {c \in Conns : stage[c] \in {"live", "closing"}}

ServerInit ==
    /\ Guard!Init
    /\ calls = [id \in CallIds |-> NoConn]
    /\ stage = [c \in Conns |-> "new"]
    /\ idOf \in [Conns -> CallIds]
    /\ overlapped = {}
    /\ answered = {} /\ stale = {}
    /\ draining = FALSE
    /\ reaped = {}
    /\ server = "serving" /\ awaited = {}

Goes(c, from, to) == stage[c] = from /\ stage' = [stage EXCEPT ![c] = to]

\* Closing is idempotent: what is closing or has ended stays as it is.
Close(cs) ==
    stage' = [c \in Conns |->
                 IF c \in cs /\ stage[c] = "live" THEN "closing" ELSE stage[c]]

-----------------------------------------------------------------------------
(* _upgrade *)

\* Checked before any signature is.
AtCapacity == Cardinality(Registered) >= MaxConnections

\* Draining and full servers refuse before they look at the handshake, and a
\* refused handshake leaves no trace.
PassesGuard(c, fp) ==
    /\ stage[c] = "new"
    /\ fp.id = idOf[c]
    /\ server # "cleanup"
    /\ ~draining
    /\ ~AtCapacity
    /\ Guard!Use(fp)

InUse(id) == calls[id] # NoConn

\* 409: the handshake is spent although no session opens.
RefuseLiveId(c, fp) ==
    /\ PassesGuard(c, fp)
    /\ InUse(fp.id)
    /\ UNCHANGED <<calls, stage, idOf, overlapped, callVars, reaped, hostVars>>

Enter(c) == calls' = [calls EXCEPT ![idOf[c]] = c]

\* Another upgrade for the callId stands between its lookup and its entry.
BeingPrepared(id) == \E d \in Conns : stage[d] = "preparing" /\ idOf[d] = id

Admit(c, fp) ==
    /\ PassesGuard(c, fp)
    /\ ~InUse(fp.id)
    /\ \/ Goes(c, "new", "live") /\ Enter(c)
       \/ PrepareSuspends /\ Goes(c, "new", "preparing") /\ UNCHANGED calls
    /\ overlapped' = IF BeingPrepared(fp.id) THEN overlapped \cup {fp.id} ELSE overlapped
    /\ UNCHANGED <<idOf, callVars, reaped, hostVars>>

\* The upgrade response is out, or the peer was gone before it.
Prepared(c) ==
    /\ \/ Goes(c, "preparing", "live") /\ Enter(c)
       \/ Goes(c, "preparing", "ended") /\ UNCHANGED calls
    /\ UNCHANGED <<guardVars, idOf, overlapped, callVars, reaped, hostVars>>

-----------------------------------------------------------------------------
(* One call, as the server sees it. *)

Answer(c) ==
    /\ stage[c] = "live" /\ c \notin answered
    /\ answered' = answered \cup {c}
    /\ UNCHANGED <<guardVars, calls, stage, idOf, overlapped, stale, reaped, hostVars>>

GoesStale(c) ==
    /\ stage[c] = "live" /\ c \notin stale
    /\ stale' = stale \cup {c}
    /\ UNCHANGED <<guardVars, calls, stage, idOf, overlapped, answered, reaped, hostVars>>

\* A watchdog, the handler, the peer or a failure closes the call.
CallCloses(c) ==
    /\ Goes(c, "live", "closing")
    /\ UNCHANGED <<guardVars, calls, idOf, overlapped, callVars, reaped, hostVars>>

\* Mutant: the slot of an ended call is kept.
SlotKept(c) == UNCHANGED calls

\* _release pops the callId, whichever call holds it by now.
Release(c) == calls' = [calls EXCEPT ![idOf[c]] = NoConn]

CallEnds(c) ==
    /\ Goes(c, "closing", "ended")
    /\ Release(c)
    /\ UNCHANGED <<guardVars, idOf, overlapped, callVars, reaped, hostVars>>

-----------------------------------------------------------------------------
(* The reaper, draining and shutdown. *)

\* Mutant: an id is remembered from the first look.
RememberAll(overdue) == Registered

\* The ids already reaped, bounded by what is running.
Remember(overdue) == (reaped \cap Registered) \cup overdue

\* One look of _reap_unanswered at a snapshot of the registry.
ReaperLooks ==
    /\ server = "serving"
    /\ LET overdue == {id \in Registered \ reaped :
                          calls[id] \in stale \ answered}
       IN  /\ reaped' = Remember(overdue)
           /\ Close({calls[id] : id \in overdue})
    /\ UNCHANGED <<guardVars, calls, idOf, overlapped, callVars, hostVars>>

\* The host winds down: live calls continue, new ones are refused.
Drain ==
    /\ ~draining /\ draining' = TRUE
    /\ UNCHANGED <<guardVars, calls, stage, idOf, overlapped, callVars, reaped, server,
                   awaited>>

\* aclose takes every registered call, those already closing included.
ToAwait == {calls[id] : id \in Registered}

AcloseGathers ==
    /\ server = "serving"
    /\ Registered # {}
    /\ server' = "gathering"
    /\ awaited' = ToAwait
    /\ Close(ToAwait)
    /\ UNCHANGED <<guardVars, calls, idOf, overlapped, callVars, reaped, draining>>

\* Mutant: aclose waits for an empty registry.
ClearsWhenEmpty ==
    /\ server \in {"serving", "gathering"} /\ Registered = {}
    /\ server' = "cleanup"
    /\ UNCHANGED <<guardVars, calls, stage, idOf, overlapped, callVars, reaped, draining,
                   awaited>>

\* With all of them torn down, or none found, the registry is cleared and the
\* runner stops listening.
AcloseClears ==
    /\ \/ server = "serving" /\ Registered = {}
       \/ server = "gathering" /\ \A c \in awaited : stage[c] = "ended"
    /\ server' = "cleanup"
    /\ calls' = [id \in CallIds |-> NoConn]
    /\ UNCHANGED <<guardVars, stage, idOf, overlapped, callVars, reaped, draining, awaited>>

\* Mutant: only the calls aclose had found are cancelled.
CancelsTheAwaited(c) ==
    /\ server = "cleanup" /\ c \in awaited
    /\ Goes(c, "live", "closing") \/ Goes(c, "preparing", "ended")
    /\ UNCHANGED <<guardVars, calls, idOf, overlapped, callVars, reaped, hostVars>>

\* The runner's cleanup cancels the requests that are left.
CleanupCancels(c) ==
    /\ server = "cleanup"
    /\ Goes(c, "live", "closing") \/ Goes(c, "preparing", "ended")
    /\ UNCHANGED <<guardVars, calls, idOf, overlapped, callVars, reaped, hostVars>>

ClockTicks ==
    /\ Guard!Tick
    /\ UNCHANGED <<calls, stage, idOf, overlapped, callVars, reaped, hostVars>>

-----------------------------------------------------------------------------
ConnSteps(c) ==
    \/ \E fp \in Guard!Fingerprints : RefuseLiveId(c, fp) \/ Admit(c, fp)
    \/ Prepared(c) \/ Answer(c) \/ GoesStale(c) \/ CallCloses(c) \/ CallEnds(c)
    \/ CleanupCancels(c)

ServerNext ==
    \/ \E c \in Conns : ConnSteps(c)
    \/ ReaperLooks \/ Drain \/ AcloseGathers \/ AcloseClears \/ ClockTicks

ServerSpec == ServerInit /\ [][ServerNext]_serverVars

\* The reaper's timer keeps firing, a call that is closing frees its slot, which
\* is what CallSession shows, and the runner cancels every request it has left.
ServerFairness ==
    /\ WF_serverVars(ReaperLooks)
    /\ WF_serverVars(AcloseClears)
    /\ \A c \in Conns : WF_serverVars(CallEnds(c)) /\ WF_serverVars(CleanupCancels(c))

ServerFairSpec == ServerSpec /\ ServerFairness

-----------------------------------------------------------------------------
\* No two sessions for one callId: the second dial is refused with a 409, unless
\* it was let in while the first one's ws.prepare() was suspended.
OneSessionPerCallId ==
    \A c, d \in Sessions :
        idOf[c] = idOf[d] /\ idOf[c] \notin overlapped => c = d

\* Never more sessions than max_connections, those being torn down included.
CapacityHeld == Cardinality(Sessions) <= MaxConnections

\* Until aclose clears it the registry is exactly the set of sessions, so that
\* the reaper, the shutdown and /healthz overlook none.  Only an id that was let
\* in twice while ws.prepare() suspended may be filed under the wrong one
\* (_upgrade, _release).
RegistryIsExact ==
    server # "cleanup" =>
        /\ \A c \in Sessions : idOf[c] \notin overlapped => calls[idOf[c]] = c
        /\ \A id \in Registered \ overlapped :
               calls[id] \in Sessions /\ idOf[calls[id]] = id

\* aclose waits for every session there is, also for one that something else
\* was already closing.
FoundByAclose ==
    [][server = "serving" /\ server' = "gathering" =>
          {c \in Sessions : idOf[c] \notin overlapped} \subseteq awaited']_serverVars

\* A handshake opens at most one session, refused dials included.
HandshakeSingleUse == Guard!SingleUse

\* A call past its grace that nothing answers is ended.
Overdue(c) == stage[c] = "live" /\ c \in stale \ answered
NotOverdue(c) == stage[c] # "live" \/ c \in answered \/ server # "serving"

UnansweredIsReaped == \A c \in Conns : Overdue(c) ~> NotOverdue(c)

\* The same for the first session of a callId: only the ids of earlier calls
\* can make the reaper overlook one.
FirstOfItsId(c) ==
    \A d \in Conns \ {c} : idOf[d] = idOf[c] => stage[d] = "new"

FirstUnansweredIsReaped ==
    \A c \in Conns : (Overdue(c) /\ FirstOfItsId(c)) ~> NotOverdue(c)

\* A shutdown that waits for its calls gets past them.
AcloseGetsThrough == server = "gathering" ~> server = "cleanup"

\* No call outlives the listener: what is admitted while aclose waits for the
\* calls it found is in nobody's list and is ended by the runner's cleanup
\* (aclose, run).
Underway(c) == stage[c] \in {"preparing", "live", "closing"}

ShutdownEndsEveryCall ==
    \A c \in Conns : (server = "cleanup" /\ Underway(c)) ~> stage[c] = "ended"
=============================================================================
