------------------------- MODULE OutboundLaneProofs -------------------------
(***************************************************************************)
(* What holds of an outbound call's message for any number of workers,     *)
(* legs, delivery attempts, stops and crashes.                             *)
(***************************************************************************)
EXTENDS OutboundLane, TLAPS

\* A record that is not gone has a delivery left.
AttemptsLeft == record # "gone" => attempts < MaxAttempts

\* Before park() has run there is no record.
ParkedOnce ==
    /\ call = "unplaced" => record = "none" /\ placer = Nobody
    /\ placer # Nobody => record = "none"

TypeInv == TypeOK /\ AttemptsLeft /\ ParkedOnce

\* A leg of a worker that has gone down does not come back with it.
LegsDieWithWorkers ==
    \A l \in Legs : host[l] \notin up => leg[l] \in {"unborn", "blank"}

\* A leg with the message in its mouth or, as long as it is open, in its hands.
Has(l) == leg[l] = "speaking" \/ (leg[l] = "ready" /\ l \notin closed)

\* The reservation stands for exactly one such leg, and is not old enough to be
\* given back while that leg, or one still looking, is there.
ReservedForOne ==
    \A l \in Legs :
        /\ leg[l] = "looking" => ~old
        /\ Has(l) => /\ ~old
                     /\ record = "reserved"
                     /\ \A k \in Legs : Has(k) => k = l

\* Whoever has the call in _finalized has taken the record, or it is gone.
FinalizedTookIt ==
    /\ record \notin {"taken", "gone"} => finalized = {}
    /\ record = "taken" => finalized \subseteq {carrier.worker}

LaneInv ==
    /\ LegsDieWithWorkers
    /\ faltered = {} => ReservedForOne /\ FinalizedTookIt

\* While the record is somewhere nothing has been said or posted.
ToldInv ==
    faltered = {} /\ attempts = 0 =>
        /\ record # "gone" => spoken = 0 /\ ~posted
        /\ spoken + (IF posted THEN 1 ELSE 0) <= 1

-----------------------------------------------------------------------------
\* Every variable keeps to its range, and the delivery attempts to their limit.
THEOREM TypeCorrect == Spec => []TypeInv
<1> USE OutboundLaneAssumption DEF OutboundLaneAssumption
<1>1. Init => TypeInv
  <2> SUFFICES ASSUME Init PROVE TypeInv
    OBVIOUS
  <2>1. /\ reported \in BOOLEAN /\ thread \in BOOLEAN /\ old \in BOOLEAN
        /\ posted \in BOOLEAN /\ givenUp \in BOOLEAN /\ dropped \in BOOLEAN
    BY Zenon DEF Init
  <2> QED
    BY <2>1 DEF Init, TypeInv, TypeOK, AttemptsLeft, ParkedOnce
<1>2. TypeInv /\ [Next]_vars => TypeInv'
  <2> SUFFICES ASSUME TypeInv, [Next]_vars PROVE TypeInv'
    OBVIOUS
  <2> USE DEF TypeInv, TypeOK, AttemptsLeft, ParkedOnce, callVars, recVars, timeVars,
              legVars, workVars, histVars, Becomes, Reserve, Release, Take, CancelsCall
  <2>1. CASE Park
    BY <2>1 DEF Park
  <2>2. CASE PickUp
    BY <2>2 DEF PickUp
  <2>3. CASE Miss
    BY <2>3 DEF Miss
  <2>4. ASSUME NEW l \in Legs, LegSteps(l) PROVE TypeInv'
    <3>1. ASSUME NEW w \in Workers, Attach(l, w) PROVE TypeInv'
      BY <3>1 DEF Attach
    <3>2. CASE Look(l)
      BY <3>2 DEF Look
    <3>3. CASE LookEnds(l)
      BY <3>3 DEF LookEnds
    <3>4. CASE Speak(l)
      BY <3>4 DEF Speak
    <3>5. CASE SpeakReturns(l)
      BY <3>5 DEF SpeakReturns, Alive
    <3>6. CASE SpeakFails(l)
      BY <3>6 DEF SpeakFails
    <3>7. CASE WatchFires(l)
      BY <3>7 DEF WatchFires
    <3>8. CASE LegCloses(l)
      BY <3>8 DEF LegCloses
    <3> QED
      BY <2>4, <3>1, <3>2, <3>3, <3>4, <3>5, <3>6, <3>7, <3>8 DEF LegSteps
  <2>5. ASSUME NEW w \in Workers, WorkerSteps(w) PROVE TypeInv'
    <3>1. CASE PlaceCall(w)
      BY <3>1 DEF PlaceCall
    <3>2. CASE OutcomeArrives(w)
      BY <3>2 DEF OutcomeArrives
    <3>3. CASE PollFinds(w)
      BY <3>3 DEF PollFinds
    <3>4. CASE PollEnds(w)
      BY <3>4 DEF PollEnds
    <3>5. CASE Sweep(w)
      BY <3>5 DEF Sweep, Recovers
    <3>6. CASE Stops(w)
      BY <3>6 DEF Stops, GoesDown
    <3>7. CASE Crashes(w)
      BY <3>7 DEF Crashes, GoesDown
    <3>8. CASE Restarts(w)
      BY <3>8 DEF Restarts
    <3> QED
      BY <2>5, <3>1, <3>2, <3>3, <3>4, <3>5, <3>6, <3>7, <3>8 DEF WorkerSteps
  <2>6. CASE DeliverySucceeds
    BY <2>6 DEF DeliverySucceeds
  <2>7. CASE DeliveryImpossible
    BY <2>7 DEF DeliveryImpossible
  <2>8. CASE DeliveryFails
    <3>1. posted' \in BOOLEAN /\ givenUp' \in BOOLEAN /\ old' \in BOOLEAN
      BY <2>8, Zenon DEF DeliveryFails, Requeue
    <3>2. record # "gone" /\ attempts' = attempts + 1
      BY <2>8 DEF DeliveryFails
    <3>3. attempts' \in 0..MaxAttempts /\ AttemptsLeft'
      BY <2>8, <3>2 DEF DeliveryFails, Requeue
    <3> QED
      BY <2>8, <3>1, <3>3 DEF DeliveryFails, Requeue
  <2>9. CASE GetsStale
    BY <2>9 DEF GetsStale
  <2>10. CASE GetsOld
    <3>1. old' \in BOOLEAN
      BY <2>10, Zenon DEF GetsOld
    <3> QED
      BY <2>10, <3>1 DEF GetsOld
  <2>11. CASE Expires
    BY <2>11 DEF Expires
  <2>12. CASE UNCHANGED vars
    BY <2>12 DEF vars
  <2> QED
    BY <2>1, <2>2, <2>3, <2>4, <2>5, <2>6, <2>7, <2>8, <2>9, <2>10,
       <2>11, <2>12 DEF Next
<1> QED
  BY <1>1, <1>2, PTL DEF Spec

\* The reservation stands for one leg, through every hand-over, release, sweep,
\* stop and crash, as long as no speech has failed.
THEOREM LaneInvariant == Spec => []LaneInv
<1> USE OutboundLaneAssumption DEF OutboundLaneAssumption
<1>1. Init => LaneInv
  BY DEF Init, LaneInv, LegsDieWithWorkers, ReservedForOne, FinalizedTookIt, Has
<1>2. TypeInv /\ LaneInv /\ [Next]_vars => LaneInv'
  <2> SUFFICES ASSUME TypeInv, LaneInv, [Next]_vars PROVE LaneInv'
    OBVIOUS
  <2> USE DEF TypeInv, TypeOK, ParkedOnce, LaneInv, LegsDieWithWorkers,
              ReservedForOne, FinalizedTookIt, Has, callVars, recVars, timeVars,
              legVars, workVars, histVars, Becomes, Reserve, Take
  <2>1. CASE Park
    BY <2>1 DEF Park
  <2>2. CASE PickUp
    BY <2>2 DEF PickUp
  <2>3. CASE Miss
    BY <2>3 DEF Miss
  <2>4. ASSUME NEW l \in Legs, LegSteps(l) PROVE LaneInv'
    <3>1. ASSUME NEW w \in Workers, Attach(l, w) PROVE LaneInv'
      BY <3>1 DEF Attach
    <3>2. CASE Look(l)
      BY <3>2 DEF Look, Alive
    <3>3. CASE LookEnds(l)
      BY <3>3 DEF LookEnds
    <3>4. CASE Speak(l)
      BY <3>4 DEF Speak, Open, Alive
    <3>5. CASE SpeakReturns(l)
      BY <3>5 DEF SpeakReturns, Alive
    <3>6. CASE SpeakFails(l)
      BY <3>6 DEF SpeakFails, Alive
    <3>7. CASE WatchFires(l)
      BY <3>7 DEF WatchFires
    <3>8. CASE LegCloses(l)
      BY <3>8 DEF LegCloses, Release, Open, Alive
    <3> QED
      BY <2>4, <3>1, <3>2, <3>3, <3>4, <3>5, <3>6, <3>7, <3>8 DEF LegSteps
  <2>5. ASSUME NEW w \in Workers, WorkerSteps(w) PROVE LaneInv'
    <3>1. CASE PlaceCall(w)
      BY <3>1 DEF PlaceCall
    <3>2. CASE OutcomeArrives(w)
      BY <3>2 DEF OutcomeArrives
    <3>3. CASE PollFinds(w)
      BY <3>3 DEF PollFinds
    <3>4. CASE PollEnds(w)
      BY <3>4 DEF PollEnds
    <3>5. CASE Sweep(w)
      BY <3>5 DEF Sweep, Recovers
    <3>6. CASE Stops(w)
      BY <3>6 DEF Stops, GoesDown
    <3>7. CASE Crashes(w)
      BY <3>7 DEF Crashes, GoesDown
    <3>8. CASE Restarts(w)
      BY <3>8 DEF Restarts
    <3> QED
      BY <2>5, <3>1, <3>2, <3>3, <3>4, <3>5, <3>6, <3>7, <3>8 DEF WorkerSteps
  <2>6. CASE DeliverySucceeds
    BY <2>6 DEF DeliverySucceeds
  <2>7. CASE DeliveryImpossible
    BY <2>7 DEF DeliveryImpossible
  <2>8. CASE DeliveryFails
    BY <2>8 DEF DeliveryFails, Requeue
  <2>9. CASE GetsStale
    BY <2>9 DEF GetsStale
  <2>10. CASE GetsOld
    BY <2>10 DEF GetsOld, Holding, Open, Alive
  <2>11. CASE Expires
    BY <2>11 DEF Expires
  <2>12. CASE UNCHANGED vars
    BY <2>12 DEF vars
  <2> QED
    BY <2>1, <2>2, <2>3, <2>4, <2>5, <2>6, <2>7, <2>8, <2>9, <2>10,
       <2>11, <2>12 DEF Next
<1> QED
  BY <1>1, <1>2, TypeCorrect, PTL DEF Spec

-----------------------------------------------------------------------------
\* One leg at a time has the message, whatever races for it (the renames of
\* PendingMessages).
THEOREM OneLegHolds == Spec => []HeldByOneLeg
<1>1. TypeInv /\ LaneInv => HeldByOneLeg
  BY DEF LaneInv, ReservedForOne, Has, Holding, Open, HeldByOneLeg
<1> QED
  BY <1>1, TypeCorrect, LaneInvariant, PTL

\* What on_outcome finds in _finalized is no longer on disk.
THEOREM FinalizedSettled == Spec => []FinalizedIsSettled
<1>1. TypeInv /\ LaneInv => FinalizedIsSettled
  BY DEF LaneInv, FinalizedTookIt, FinalizedIsSettled
<1> QED
  BY <1>1, TypeCorrect, LaneInvariant, PTL

\* A message is never said twice, posted after it was said, or said after it was
\* posted, unless a speech or a post failed on the way.
THEOREM NobodyToldTwice == Spec => []ToldOnce
<1> USE OutboundLaneAssumption DEF OutboundLaneAssumption
<1>1. Init => ToldInv
  BY DEF Init, ToldInv
<1>2. TypeInv /\ LaneInv /\ ToldInv /\ [Next]_vars => ToldInv'
  <2> SUFFICES ASSUME TypeInv, LaneInv, ToldInv, [Next]_vars,
                      faltered' = {}, attempts' = 0
               PROVE  /\ record' # "gone" => spoken' = 0 /\ ~posted'
                      /\ spoken' + (IF posted' THEN 1 ELSE 0) <= 1
    BY DEF ToldInv
  <2> USE DEF callVars, recVars, timeVars, legVars, workVars, histVars
  <2>1. CASE \E l \in Legs : SpeakReturns(l)
    <3> PICK l \in Legs : SpeakReturns(l)
      BY <2>1
    <3>1. faltered = {} /\ attempts = 0 /\ Has(l)
      BY DEF SpeakReturns, Becomes, Has
    <3>2. record = "reserved"
      BY <3>1 DEF LaneInv, ReservedForOne
    <3>3. record' = "gone" /\ spoken = 0 /\ ~posted
      BY <3>1, <3>2 DEF SpeakReturns, ToldInv
    <3> QED
      BY <3>3 DEF SpeakReturns
  <2>2. CASE DeliverySucceeds
    BY <2>2 DEF DeliverySucceeds, ToldInv
  <2>3. CASE DeliveryFails
    BY <2>3 DEF DeliveryFails, TypeInv, TypeOK
  <2>4. ASSUME UNCHANGED <<spoken, posted, attempts>>,
               faltered \subseteq faltered', record = "gone" => record' = "gone"
        PROVE  /\ record' # "gone" => spoken' = 0 /\ ~posted'
               /\ spoken' + (IF posted' THEN 1 ELSE 0) <= 1
    BY <2>4 DEF ToldInv
  <2>5. ASSUME NEW l \in Legs, LegSteps(l)
        PROVE  \/ SpeakReturns(l)
               \/ /\ UNCHANGED <<spoken, posted, attempts>>
                  /\ faltered \subseteq faltered'
                  /\ record = "gone" => record' = "gone"
    BY <2>5 DEF LegSteps, Attach, Look, LookEnds, Speak, SpeakFails, WatchFires,
                LegCloses, Release, Reserve
  <2>6. ASSUME NEW w \in Workers, WorkerSteps(w)
        PROVE  /\ UNCHANGED <<spoken, posted, attempts>>
               /\ faltered \subseteq faltered'
               /\ record = "gone" => record' = "gone"
    BY <2>6 DEF WorkerSteps, PlaceCall, OutcomeArrives, PollFinds, PollEnds, Sweep,
                Recovers, Stops, Crashes, GoesDown, Restarts, Take
  <2>7. ASSUME \/ Park \/ PickUp \/ Miss \/ DeliveryImpossible
               \/ GetsStale \/ GetsOld \/ Expires \/ UNCHANGED vars
        PROVE  /\ UNCHANGED <<spoken, posted, attempts>>
               /\ faltered \subseteq faltered'
               /\ record = "gone" => record' = "gone"
    BY <2>7 DEF Park, PickUp, Miss, DeliveryImpossible, GetsStale, GetsOld, Expires,
                vars, TypeInv, ParkedOnce
  <2> QED
    BY <2>1, <2>2, <2>3, <2>4, <2>5, <2>6, <2>7 DEF Next
<1>3. ToldInv => ToldOnce
  BY DEF ToldInv, ToldOnce
<1> QED
  BY <1>1, <1>2, <1>3, TypeCorrect, LaneInvariant, PTL DEF Spec

\* The message leaves the disk for good only said, posted, given up, or in the
\* hands of a worker that goes down: no hand-over between leg, sweep and outcome
\* loses it.
THEOREM NothingVanishes == Spec => []AccountedFor
<1>1. Init => AccountedFor
  BY DEF Init, AccountedFor
<1>2. TypeInv /\ AccountedFor /\ [Next]_vars => AccountedFor'
  <2> SUFFICES ASSUME TypeInv, AccountedFor, [Next]_vars PROVE AccountedFor'
    OBVIOUS
  <2> USE DEF AccountedFor, callVars, recVars, timeVars, legVars, workVars, histVars
  <2>1. ASSUME NEW l \in Legs, LegSteps(l) PROVE AccountedFor'
    <3>1. CASE SpeakReturns(l)
      BY <3>1 DEF SpeakReturns, TypeInv, TypeOK
    <3> QED
      BY <2>1, <3>1 DEF LegSteps, Attach, Look, LookEnds, Speak, SpeakFails,
                        WatchFires, LegCloses, Release, Reserve
  <2>2. ASSUME NEW w \in Workers, WorkerSteps(w) PROVE AccountedFor'
    BY <2>2 DEF WorkerSteps, PlaceCall, OutcomeArrives, PollFinds, PollEnds, Sweep,
                Stops, Crashes, GoesDown, Restarts, Take
  <2>3. CASE DeliverySucceeds \/ DeliveryImpossible \/ DeliveryFails
    BY <2>3 DEF DeliverySucceeds, DeliveryImpossible, DeliveryFails, Requeue
  <2>4. CASE \/ Park \/ PickUp \/ Miss \/ GetsStale \/ GetsOld \/ Expires
             \/ UNCHANGED vars
    BY <2>4 DEF Park, PickUp, Miss, GetsStale, GetsOld, Expires, vars
  <2> QED
    BY <2>1, <2>2, <2>3, <2>4 DEF Next
<1> QED
  BY <1>1, <1>2, TypeCorrect, PTL DEF Spec

=============================================================================
