-------------------------- MODULE CallServerProofs --------------------------
(***************************************************************************)
(* The server's registry and its limits, for every number of connections,  *)
(* callIds and slots.  A callId is looked up before ws.prepare() and       *)
(* entered after it: while that suspends, the registry is exact but for    *)
(* the ids let in twice meanwhile, and the limit may be passed.            *)
(***************************************************************************)
EXTENDS CallServer, FiniteSetTheorems, TLAPS

GuardProofs == INSTANCE HandshakeGuardProofs

\* Connections, the registry and the sets the reaper and aclose work on keep to
\* their types, suspended or not.
THEOREM TypeCorrect == ServerSpec => []ServerTypeOK
<1> USE CallServerAssumption DEF CallServerAssumption
<1>1. ServerInit => ServerTypeOK
  <2> SUFFICES ASSUME ServerInit PROVE ServerTypeOK
    OBVIOUS
  <2>1. draining \in BOOLEAN
    BY Zenon DEF ServerInit
  <2> QED
    BY <2>1 DEF ServerInit, ServerTypeOK
<1>2. ServerTypeOK /\ [ServerNext]_serverVars => ServerTypeOK'
  <2> SUFFICES ASSUME ServerTypeOK, [ServerNext]_serverVars PROVE ServerTypeOK'
    OBVIOUS
  <2> USE DEF ServerTypeOK, callVars, hostVars, Registered
  <2>1. ASSUME NEW c \in Conns, ConnSteps(c) PROVE ServerTypeOK'
    <3>1. ASSUME NEW fp \in Guard!Fingerprints, RefuseLiveId(c, fp)
          PROVE  ServerTypeOK'
      BY <3>1 DEF RefuseLiveId
    <3>2. ASSUME NEW fp \in Guard!Fingerprints, Admit(c, fp) PROVE ServerTypeOK'
      <4>1. overlapped' \subseteq CallIds
        BY <3>2 DEF Admit, PassesGuard
      <4>2. CASE Goes(c, "new", "live") /\ Enter(c)
        BY <3>2, <4>1, <4>2 DEF Admit, Goes, Enter
      <4>3. CASE Goes(c, "new", "preparing") /\ UNCHANGED calls
        BY <3>2, <4>1, <4>3 DEF Admit, Goes
      <4> QED
        BY <3>2, <4>2, <4>3 DEF Admit
    <3>3. CASE Prepared(c)  BY <3>3 DEF Prepared, Goes, Enter
    <3>4. CASE Answer(c)  BY <3>4 DEF Answer
    <3>5. CASE GoesStale(c)  BY <3>5 DEF GoesStale
    <3>6. CASE CallCloses(c)  BY <3>6 DEF CallCloses, Goes
    <3>7. CASE CallEnds(c)  BY <3>7 DEF CallEnds, Goes, Release
    <3>8. CASE CleanupCancels(c)  BY <3>8 DEF CleanupCancels, Goes
    <3> QED
      BY <2>1, <3>1, <3>2, <3>3, <3>4, <3>5, <3>6, <3>7, <3>8 DEF ConnSteps
  <2>2. CASE ReaperLooks  BY <2>2 DEF ReaperLooks, Remember, Close
  <2>3. CASE Drain
    <3>1. draining' \in BOOLEAN
      BY <2>3, Zenon DEF Drain
    <3> QED
      BY <2>3, <3>1 DEF Drain
  <2>4. CASE AcloseGathers  BY <2>4 DEF AcloseGathers, Close, ToAwait
  <2>5. CASE AcloseClears  BY <2>5 DEF AcloseClears
  <2>6. CASE ClockTicks  BY <2>6 DEF ClockTicks
  <2>7. CASE UNCHANGED serverVars  BY <2>7 DEF serverVars
  <2> QED
    BY <2>1, <2>2, <2>3, <2>4, <2>5, <2>6, <2>7 DEF ServerNext
<1>3. QED
  BY <1>1, <1>2, PTL DEF ServerSpec

-----------------------------------------------------------------------------
(* The registry. *)

\* Of the connections for a callId one at most is under way, between its lookup
\* and its release.
OneUnderway ==
    \A c, d \in Conns :
        Underway(c) /\ Underway(d) /\ idOf[c] = idOf[d] /\ idOf[c] \notin overlapped
            => c = d

RegistryInv == OneUnderway /\ RegistryIsExact

\* Whoever is admitted with nobody in the registry nor in ws.prepare() for the
\* callId is the only one there (_upgrade).
LEMMA AdmittedAlone ==
    ASSUME ServerTypeOK, RegistryInv, NEW c \in Conns, NEW fp \in Guard!Fingerprints,
           Admit(c, fp)
    PROVE  RegistryInv'
<1> USE CallServerAssumption
    DEF CallServerAssumption, ServerTypeOK, RegistryInv, OneUnderway, RegistryIsExact,
        Underway, Sessions, Registered
<1> DEFINE id == idOf[c]
<1>1. /\ server # "cleanup" /\ fp.id = id /\ calls[id] = NoConn /\ stage[c] = "new"
      /\ UNCHANGED <<idOf, hostVars>>
  BY DEF Admit, PassesGuard, InUse
<1>2. CASE ~BeingPrepared(id)
  <2>1. \A d \in Conns : idOf[d] = id /\ id \notin overlapped => ~Underway(d)
    BY <1>1, <1>2 DEF BeingPrepared
  <2>2. overlapped' = overlapped
    BY <1>1, <1>2 DEF Admit
  <2>3. CASE Goes(c, "new", "live") /\ Enter(c)
    BY <1>1, <2>1, <2>2, <2>3 DEF Goes, Enter, hostVars
  <2>4. CASE Goes(c, "new", "preparing") /\ UNCHANGED calls
    BY <1>1, <2>1, <2>2, <2>4 DEF Goes, hostVars
  <2> QED
    BY <2>3, <2>4 DEF Admit
<1>3. CASE BeingPrepared(id)
  <2>1. overlapped' = overlapped \cup {id}
    BY <1>1, <1>3 DEF Admit
  <2>2. CASE Goes(c, "new", "live") /\ Enter(c)
    BY <1>1, <2>1, <2>2 DEF Goes, Enter, hostVars
  <2>3. CASE Goes(c, "new", "preparing") /\ UNCHANGED calls
    BY <1>1, <2>1, <2>3 DEF Goes, hostVars
  <2> QED
    BY <2>2, <2>3 DEF Admit
<1> QED
  BY <1>2, <1>3

\* The inductive invariant: but for the ids let in twice, one connection of a
\* callId is under way, and the registry is the set of sessions until it is
\* cleared; clearing it leaves sessions but lets none in (_upgrade, _release).
THEOREM RegistryInvariant == ServerSpec => []RegistryInv
<1> USE CallServerAssumption DEF CallServerAssumption
<1>1. ServerInit => RegistryInv
  BY DEF ServerInit, RegistryInv, OneUnderway, RegistryIsExact, Underway, Sessions,
         Registered
<1>2. ServerTypeOK /\ RegistryInv /\ [ServerNext]_serverVars => RegistryInv'
  <2> SUFFICES ASSUME ServerTypeOK, RegistryInv, [ServerNext]_serverVars
               PROVE  RegistryInv'
    OBVIOUS
  <2> USE DEF ServerTypeOK, RegistryInv, OneUnderway, RegistryIsExact, Underway,
              Sessions, Registered, callVars, hostVars
  <2>1. ASSUME UNCHANGED <<calls, idOf, overlapped, server>>, Sessions' = Sessions,
               \A c \in Conns : Underway(c)' => Underway(c)
        PROVE  RegistryInv'
    BY <2>1
  <2>2. ASSUME NEW c \in Conns, ConnSteps(c) PROVE RegistryInv'
    <3>1. ASSUME NEW fp \in Guard!Fingerprints, RefuseLiveId(c, fp)
          PROVE  RegistryInv'
      BY <3>1 DEF RefuseLiveId
    <3>2. ASSUME NEW fp \in Guard!Fingerprints, Admit(c, fp)
          PROVE  RegistryInv'
      BY <3>2, AdmittedAlone
    <3>3. CASE Prepared(c)
      <4>1. CASE Goes(c, "preparing", "live") /\ Enter(c)
        BY <3>3, <4>1 DEF Prepared, Goes, Enter
      <4>2. CASE Goes(c, "preparing", "ended") /\ UNCHANGED calls
        BY <3>3, <4>2 DEF Prepared, Goes
      <4> QED
        BY <3>3, <4>1, <4>2 DEF Prepared
    <3>4. CASE Answer(c)  BY <3>4 DEF Answer
    <3>5. CASE GoesStale(c)  BY <3>5 DEF GoesStale
    <3>6. CASE CallCloses(c)  BY <3>6 DEF CallCloses, Goes
    <3>7. CASE CallEnds(c)  BY <3>7 DEF CallEnds, Goes, Release
    <3>8. CASE CleanupCancels(c)  BY <3>8 DEF CleanupCancels, Goes
    <3> QED
      BY <2>2, <3>1, <3>2, <3>3, <3>4, <3>5, <3>6, <3>7, <3>8 DEF ConnSteps
  <2>3. CASE ReaperLooks  BY <2>1, <2>3 DEF ReaperLooks, Close
  <2>4. CASE Drain  BY <2>4 DEF Drain
  <2>5. CASE AcloseGathers  BY <2>1, <2>5 DEF AcloseGathers, Close
  <2>6. CASE AcloseClears  BY <2>6 DEF AcloseClears
  <2>7. CASE ClockTicks \/ UNCHANGED serverVars  BY <2>7 DEF ClockTicks, serverVars
  <2> QED
    BY <2>2, <2>3, <2>4, <2>5, <2>6, <2>7 DEF ServerNext
<1>3. QED
  BY <1>1, <1>2, TypeCorrect, PTL DEF ServerSpec

\* A callId never has two sessions (the 409 of _upgrade), unless the second was
\* let in while the first one's ws.prepare() was suspended.
THEOREM OneSession == ServerSpec => []OneSessionPerCallId
<1>1. RegistryInv => OneSessionPerCallId
  BY DEF RegistryInv, OneUnderway, OneSessionPerCallId, Sessions, Underway
<1> QED
  BY <1>1, RegistryInvariant, PTL

\* The registry the reaper, aclose and /healthz read is the set of sessions, but
\* for the ids that were let in twice.
THEOREM RegistryExact == ServerSpec => []RegistryIsExact
<1>1. RegistryInv => RegistryIsExact
  BY DEF RegistryInv
<1> QED
  BY <1>1, RegistryInvariant, PTL

\* aclose overlooks no session, also not one that is closing already, but for
\* those whose id was let in twice.
THEOREM AcloseFindsAll == ServerSpec => FoundByAclose
<1>1. ServerTypeOK /\ RegistryInv /\ [ServerNext]_serverVars =>
        [server = "serving" /\ server' = "gathering"
            => {c \in Sessions : idOf[c] \notin overlapped} \subseteq awaited']_serverVars
  <2> SUFFICES ASSUME ServerTypeOK, RegistryInv, [ServerNext]_serverVars,
                      server = "serving", server' = "gathering"
               PROVE  {c \in Sessions : idOf[c] \notin overlapped} \subseteq awaited'
    OBVIOUS
  <2>1. AcloseGathers
    BY DEF ServerNext, ConnSteps, RefuseLiveId, Admit, Prepared, Answer, GoesStale,
           CallCloses, CallEnds, CleanupCancels, ReaperLooks, Drain,
           AcloseClears, ClockTicks, hostVars, serverVars
  <2> QED
    BY <2>1, CallServerAssumption
       DEF CallServerAssumption, AcloseGathers, ToAwait, RegistryInv,
           RegistryIsExact, Sessions, Registered, ServerTypeOK
<1> QED
  BY <1>1, RegistryInvariant, TypeCorrect, PTL DEF ServerSpec, FoundByAclose

-----------------------------------------------------------------------------
(* The limit, while ws.prepare() does not suspend. *)

NoneSuspended == overlapped = {} /\ \A c \in Conns : stage[c] # "preparing"

\* Without the suspension nobody is ever between lookup and entry.
LEMMA NeverSuspended ==
    ASSUME ~PrepareSuspends
    PROVE  ServerSpec => []NoneSuspended
<1>1. ServerInit => NoneSuspended
  BY DEF ServerInit, NoneSuspended
<1>2. ServerTypeOK /\ NoneSuspended /\ [ServerNext]_serverVars => NoneSuspended'
  <2> SUFFICES ASSUME ServerTypeOK, NoneSuspended, [ServerNext]_serverVars
               PROVE  NoneSuspended'
    OBVIOUS
  <2> USE DEF ServerTypeOK, NoneSuspended, callVars, hostVars
  <2>1. ASSUME NEW c \in Conns, ConnSteps(c) PROVE NoneSuspended'
    BY <2>1 DEF ConnSteps, RefuseLiveId, Admit, BeingPrepared, Prepared, Answer,
                GoesStale, CallCloses, CallEnds, CleanupCancels, Goes
  <2>2. CASE ReaperLooks \/ Drain \/ AcloseGathers \/ AcloseClears \/ ClockTicks
               \/ UNCHANGED serverVars
    BY <2>2 DEF ReaperLooks, Drain, AcloseGathers, AcloseClears, ClockTicks, Close,
                serverVars
  <2> QED
    BY <2>1, <2>2 DEF ServerNext
<1> QED
  BY <1>1, <1>2, TypeCorrect, PTL DEF ServerSpec

\* While the registry is exact the sessions number no more than its entries.
LEMMA SessionsAreCounted ==
    ASSUME ServerTypeOK, RegistryInv, NoneSuspended, server # "cleanup"
    PROVE  /\ IsFiniteSet(Sessions)
           /\ Cardinality(Sessions) \in Nat
           /\ Cardinality(Registered) \in Nat
           /\ Cardinality(Sessions) <= Cardinality(Registered)
<1> DEFINE index == [c \in Sessions |-> idOf[c]]
<1>1. IsFiniteSet(Registered)
  BY CallServerAssumption, FS_Subset DEF CallServerAssumption, Registered
<1>2. index \in Injection(Sessions, Registered)
  <2>1. \A c \in Sessions : c \in Conns /\ calls[idOf[c]] = c /\ idOf[c] \in CallIds
    BY DEF RegistryInv, RegistryIsExact, NoneSuspended, Sessions, ServerTypeOK
  <2>2. index \in [Sessions -> Registered]
    BY <2>1, CallServerAssumption DEF CallServerAssumption, Registered
  <2>3. \A c, d \in Sessions : index[c] = index[d] => c = d
    BY <2>1
  <2> QED
    BY <2>2, <2>3 DEF Injection, IsInjective
<1> QED
  BY <1>1, <1>2, FS_Injection, FS_CardinalityType

\* No more sessions than max_connections (_upgrade): whoever is admitted found a free slot,
\* and neither closing a call nor clearing the registry adds a session.
THEOREM LimitHeld ==
    ASSUME ~PrepareSuspends
    PROVE  ServerSpec => []CapacityHeld
<1> DEFINE Inv == CapacityHeld /\ IsFiniteSet(Sessions)
<1> USE CallServerAssumption DEF CallServerAssumption
<1>1. ServerInit => Inv
  <2> SUFFICES ASSUME ServerInit PROVE Inv
    OBVIOUS
  <2>1. Sessions = {}
    BY DEF ServerInit, Sessions
  <2> QED
    BY <2>1, FS_EmptySet DEF CapacityHeld
<1>2. ServerTypeOK /\ RegistryInv /\ NoneSuspended /\ Inv /\ [ServerNext]_serverVars
        => Inv'
  <2> SUFFICES ASSUME ServerTypeOK, RegistryInv, NoneSuspended, Inv,
                      [ServerNext]_serverVars
               PROVE  Inv'
    OBVIOUS
  <2> USE DEF ServerTypeOK, callVars, hostVars
  <2>1. ASSUME Sessions' \subseteq Sessions PROVE Inv'
    <3>1. /\ IsFiniteSet(Sessions')
          /\ Cardinality(Sessions') <= Cardinality(Sessions)
      BY <2>1, FS_Subset
    <3>2. Cardinality(Sessions) \in Nat /\ Cardinality(Sessions') \in Nat
      BY <3>1, FS_CardinalityType
    <3> QED
      BY <3>1, <3>2 DEF CapacityHeld
  <2>2. ASSUME NEW c \in Conns, NEW fp \in Guard!Fingerprints, Admit(c, fp)
        PROVE  Inv'
    <3>1. server # "cleanup" /\ ~(Cardinality(Registered) >= MaxConnections)
      BY <2>2 DEF Admit, PassesGuard, AtCapacity
    <3>2. Sessions' = Sessions \cup {c}
      BY <2>2 DEF Admit, Goes, Sessions
    <3>3. /\ Cardinality(Sessions) \in Nat /\ Cardinality(Registered) \in Nat
          /\ Cardinality(Sessions) <= Cardinality(Registered)
      BY <3>1, SessionsAreCounted
    <3>4. /\ IsFiniteSet(Sessions \cup {c})
          /\ Cardinality(Sessions \cup {c})
                \in {Cardinality(Sessions), Cardinality(Sessions) + 1}
      BY FS_AddElement
    <3> QED
      BY <3>1, <3>2, <3>3, <3>4 DEF CapacityHeld
  <2>3. ASSUME NEW c \in Conns, ConnSteps(c),
               \A fp \in Guard!Fingerprints : ~Admit(c, fp)
        PROVE  Sessions' \subseteq Sessions
    <3>1. CASE stage' = stage
      BY <3>1 DEF Sessions
    <3>2. CASE stage' # stage
      BY <2>3, <3>2
         DEF ConnSteps, RefuseLiveId, Prepared, Answer, GoesStale, CallCloses,
             CallEnds, CleanupCancels, Goes, Sessions, NoneSuspended
    <3> QED
      BY <3>1, <3>2
  <2>4. ASSUME ReaperLooks \/ Drain \/ AcloseGathers \/ AcloseClears
                 \/ ClockTicks \/ UNCHANGED serverVars
        PROVE  Sessions' \subseteq Sessions
    BY <2>4 DEF ReaperLooks, Drain, AcloseGathers, AcloseClears, ClockTicks,
                serverVars, Close, Sessions
  <2> QED
    BY <2>1, <2>2, <2>3, <2>4 DEF ServerNext
<1>3. QED
  BY <1>1, <1>2, RegistryInvariant, NeverSuspended, TypeCorrect, PTL DEF ServerSpec

-----------------------------------------------------------------------------
(* The handshake guard inside the server. *)

\* The server uses the guard's cache as the guard does and touches it nowhere
\* else, so that what is proved of the guard holds of the server: no handshake
\* opens a second session, refused dials included.
THEOREM HandshakesUsedOnce == ServerSpec => []HandshakeSingleUse
<1>1. ServerInit => GuardProofs!Init
  BY DEF ServerInit, Guard!Init, GuardProofs!Init, Guard!Fingerprints,
         GuardProofs!Fingerprints, Guard!Stamps, GuardProofs!Stamps
<1>2. ASSUME NEW fp \in Guard!Fingerprints, Guard!Use(fp)
      PROVE  GuardProofs!Next
  <2>1. fp \in GuardProofs!Fingerprints
    BY DEF Guard!Fingerprints, GuardProofs!Fingerprints, Guard!Stamps,
           GuardProofs!Stamps
  <2>2. GuardProofs!Use(fp)
    BY <1>2 DEF Guard!Use, Guard!Fresh, Guard!Known, Guard!Sweep, Guard!Stamp,
                GuardProofs!Use, GuardProofs!Fresh, GuardProofs!Known,
                GuardProofs!Sweep, GuardProofs!Stamp
  <2> QED
    BY <2>1, <2>2 DEF GuardProofs!Next
<1>3. [ServerNext]_serverVars => [GuardProofs!Next]_(GuardProofs!vars)
  <2> SUFFICES ASSUME [ServerNext]_serverVars
               PROVE  GuardProofs!Next \/ UNCHANGED guardVars
    BY DEF GuardProofs!vars, guardVars
  <2>1. ASSUME NEW c \in Conns, ConnSteps(c)
        PROVE  GuardProofs!Next \/ UNCHANGED guardVars
    <3>1. ASSUME NEW fp \in Guard!Fingerprints,
                 RefuseLiveId(c, fp) \/ Admit(c, fp)
          PROVE  GuardProofs!Next
      BY <1>2, <3>1 DEF RefuseLiveId, Admit, PassesGuard
    <3>2. CASE \/ Prepared(c) \/ Answer(c) \/ GoesStale(c) \/ CallCloses(c)
               \/ CallEnds(c) \/ CleanupCancels(c)
      BY <3>2 DEF Prepared, Answer, GoesStale, CallCloses, CallEnds,
                  CleanupCancels
    <3> QED
      BY <2>1, <3>1, <3>2 DEF ConnSteps
  <2>2. CASE ClockTicks
    BY <2>2 DEF ClockTicks, Guard!Tick, GuardProofs!Tick, GuardProofs!Next
  <2>3. CASE \/ ReaperLooks \/ Drain \/ AcloseGathers \/ AcloseClears
             \/ UNCHANGED serverVars
    BY <2>3 DEF ReaperLooks, Drain, AcloseGathers, AcloseClears, serverVars, guardVars
  <2> QED
    BY <2>1, <2>2, <2>3 DEF ServerNext
<1>4. GuardProofs!Spec => []GuardProofs!SingleUse
  <2>1. GuardProofs!HandshakeGuardAssumption
    BY CallServerAssumption
       DEF CallServerAssumption, GuardProofs!HandshakeGuardAssumption
  <2> QED
    BY <2>1, GuardProofs!UsedOnce DEF GuardProofs!UsedOnce
<1>5. GuardProofs!SingleUse => HandshakeSingleUse
  BY DEF HandshakeSingleUse, GuardProofs!SingleUse, Guard!SingleUse,
         Guard!Fingerprints, GuardProofs!Fingerprints, Guard!Stamps,
         GuardProofs!Stamps
<1> QED
  BY <1>1, <1>3, <1>4, <1>5, PTL DEF ServerSpec, GuardProofs!Spec
=============================================================================
