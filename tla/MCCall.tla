-------------------------------- MODULE MCCall --------------------------------
(***************************************************************************)
(* One call and the server it runs in, side by side in one model-checking  *)
(* run: each behaviour is a behaviour of one of the two, chosen at the     *)
(* start, with the other at rest.  CallSession's runs of one property take *)
(* the call alone.                                                         *)
(***************************************************************************)
EXTENDS CallSession, CallServer

CONSTANT Parts

MCEndReasons == {"hangup"}
AnyDirection == {"inbound", "outbound"}
Inbound == {"inbound"}
Outbound == {"outbound"}
AnySnapshot == {"absent", "active"}
NoSnapshot == {"absent"}
AnyStatus == {"active", "inactive"}
ActiveOnly == {"active"}

VARIABLE part

\* The call has nothing left to run, and nothing to wait for either.
SessionAtRest ==
    /\ pump = "gone" /\ inHand = "none" /\ readStart = TRUE
    /\ startSeen = TRUE
    /\ direction = CHOOSE d \in Directions : TRUE
    /\ recording = FALSE /\ reported = FALSE
    /\ silence = 0 /\ rang = FALSE
    /\ hasHandler = FALSE /\ onStart = "no" /\ orphaned = FALSE
    /\ acloses = 0
    /\ teardown = "none" /\ reason = "call-ended"
    /\ idle = "off" /\ duration = "off" /\ prestart = "off"
    /\ socket = "open"
    /\ slotHeld = TRUE

\* The listener is gone and so are its connections.
ServerAtRest ==
    /\ Guard!Init
    /\ calls = [id \in CallIds |-> NoConn]
    /\ stage = [c \in Conns |-> "ended"]
    /\ idOf = [c \in Conns |-> CHOOSE id \in CallIds : TRUE]
    /\ overlapped = {}
    /\ answered = {} /\ stale = {}
    /\ draining = FALSE
    /\ reaped = {}
    /\ server = "cleanup" /\ awaited = {}

CallInit ==
    /\ part \in Parts
    /\ IF part = "session" THEN Init ELSE SessionAtRest
    /\ IF part = "server" THEN ServerInit ELSE ServerAtRest

CallNext ==
    /\ UNCHANGED part
    /\ \/ part = "session" /\ Next /\ UNCHANGED serverVars
       \/ part = "server" /\ ServerNext /\ UNCHANGED vars

\* At rest neither of the two has a step that fairness speaks of.
CallSpec ==
    /\ CallInit /\ [][CallNext]_<<part, vars, serverVars>>
    /\ LoopFairness /\ ReleaseFairness /\ ServerFairness
=============================================================================
