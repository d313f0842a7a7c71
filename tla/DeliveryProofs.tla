----------------------------- MODULE DeliveryProofs -----------------------------
(***************************************************************************)
(* Theorems about what reaches a person after all: a line by voice         *)
(* (delivery.py, outbound.py), the minutes of a meeting (recap.py), and    *)
(* what a consultation or a background task finds out (consult.py), and    *)
(* what the write-up of a meeting says (minutes.py).                       *)
(***************************************************************************)
EXTENDS VoiceDelivery, RecapSpool, Consultant, BackgroundTasks, Minutes,
        FiniteSetTheorems, SequenceTheorems, WellFoundedInduction, TLAPS

LegStates == {"before", "up", "ended"}

\* NewestCallIsFound keeps itself, given which calls there are.
FoundInv ==
    /\ callUp \in [LiveLegs -> LegStates]
    /\ newest \in LiveLegs \cup {NoCall}
    /\ NewestCallIsFound

\* A call that ends takes only its own entry along, so that the newest one stays
\* findable for as long as it is up, whatever calls begin and end beside it and
\* in whatever order (LiveCalls.unregister).
THEOREM ThePersonOnTheLineIsFound == DeliverySpec => []NewestCallIsFound
<1>1. DeliveryInit => FoundInv
  BY DEF DeliveryInit, FoundInv, NewestCallIsFound, LegStates
<1>2. FoundInv /\ [DeliveryNext]_deliveryVars => FoundInv'
  <2> SUFFICES ASSUME FoundInv, [DeliveryNext]_deliveryVars PROVE FoundInv'
    OBVIOUS
  <2> USE DEF FoundInv, NewestCallIsFound, LegStates
  <2>1. CASE UNCHANGED <<callUp, byThread, newest>>
    BY <2>1
  <2>2. ASSUME NEW c \in LiveLegs, Registers(c) PROVE FoundInv'
    BY <2>2 DEF Registers
  <2>3. ASSUME NEW c \in LiveLegs, Unregisters(c) PROVE FoundInv'
    BY <2>3 DEF Unregisters, DeletesItsOwn
  <2>4. ASSUME NEW l \in Lines, Deliver(l) \/ Place(l) \/ SayFails(l)
        PROVE  UNCHANGED <<callUp, byThread, newest>>
    BY <2>4 DEF Deliver, Place, SayFails
  <2>5. ASSUME NEW l \in Lines, SaidIt(l) \/ Rings(l) \/ PlaceFails(l) \/ RingsAllTheSame(l) \/ Answered(l)
        PROVE  UNCHANGED <<callUp, byThread, newest>>
    BY <2>5 DEF SaidIt, Rings, PlaceFails, RingsAllTheSame, Answered
  <2>6. CASE HoursPass
    BY <2>1, <2>6 DEF HoursPass
  <2>7. CASE UNCHANGED deliveryVars
    BY <2>1, <2>7 DEF deliveryVars
  <2> QED BY <2>1, <2>2, <2>3, <2>4, <2>5, <2>6, <2>7 DEF DeliveryNext
<1>3. FoundInv => NewestCallIsFound
  BY DEF FoundInv
<1> QED BY <1>1, <1>2, <1>3, PTL DEF DeliverySpec

-----------------------------------------------------------------------------
Ends == {"new", "speaking", "placing", "said", "parked", "unsaved", "refused", "failed"}

\* The counted calls that rang in the hour before t, the requests under way, and what
\* the lane has to do with the person.
RungBefore(t) == {j \in DOMAIN rung \ uncounted : rung[j] <= t /\ rung[j] + Hour > t}
Placing == {l \in Lines : errand[l] = "placing"}
Ceiling == MaxPerHour + RequestsAtOnce - 1
Held == {l \in Lines \cap LaneLines : l \in parked \/ errand[l] = "placing"}
HoursKeepToCap == \A i \in DOMAIN rung : Cardinality(RungBefore(rung[i])) <= Ceiling

\* The property speaks of calls that have rung; a request under way is one that
\* is going to.  Every call of the last hour is still counted, whatever was
\* forgotten when the cap was judged; so calls and requests together keep to the
\* ceiling, because the last request to be let in saw fewer than the cap.  A phone
\* that rang for a request that ended in an error is no part of the sum.
CapInv ==
    /\ hours \in Nat /\ errand \in [Lines -> Ends]
    /\ rung \in Seq(Nat)
    /\ \A j \in DOMAIN rung : rung[j] <= hours
    /\ uncounted \subseteq DOMAIN rung /\ placed \subseteq DOMAIN rung \ uncounted
    /\ RungBefore(hours) \subseteq placed
    /\ Cardinality(RungBefore(hours)) + Cardinality(Placing) <= Ceiling
    /\ HoursKeepToCap

\* The cap and the overlap together are a number, and the lines can be counted.
LEMMA CeilingType == Ceiling \in Nat /\ Hour \in Nat /\ IsFiniteSet(Lines)
BY DeliveryAssumption DEF DeliveryAssumption, Ceiling

\* Whatever the call, the calls of its hour can be counted.
LEMMA RungFinite ==
    ASSUME CapInv, NEW t
    PROVE  IsFiniteSet(RungBefore(t)) /\ Cardinality(RungBefore(t)) \in Nat
<1>1. DOMAIN rung = 1..Len(rung) /\ Len(rung) \in Nat
  BY DEF CapInv
<1>2. IsFiniteSet(1..Len(rung))
  BY <1>1, FS_Interval
<1>3. RungBefore(t) \subseteq 1..Len(rung)
  BY <1>1 DEF RungBefore
<1> QED BY <1>2, <1>3, FS_Subset, FS_CardinalityType

\* The requests under way can be counted.
LEMMA PlacingFinite == IsFiniteSet(Placing) /\ Cardinality(Placing) \in Nat
<1>1. Placing \subseteq Lines
  BY DEF Placing
<1> QED BY <1>1, CeilingType, FS_Subset, FS_CardinalityType

\* Only what is younger than an hour is left after the pruning.
LEMMA RecentIsThisHour == CapInv => Recent = RungBefore(hours)
BY CeilingType DEF CapInv, Recent, RungBefore

\* A line that goes elsewhere is a request no more; one that is judged and let
\* through is one more.
LEMMA PlacingChanges ==
    ASSUME CapInv, NEW l \in Lines, NEW where \in Ends, ErrandGoes(l, where)
    PROVE  /\ errand' \in [Lines -> Ends]
           /\ where = "placing" => Cardinality(Placing') <= Cardinality(Placing) + 1
           /\ where # "placing" => Cardinality(Placing') <= Cardinality(Placing)
           /\ errand[l] = "placing" /\ where # "placing" =>
                Cardinality(Placing') = Cardinality(Placing) - 1
<1>1. errand' \in [Lines -> Ends] /\ errand' = [errand EXCEPT ![l] = where]
  BY DEF CapInv, ErrandGoes
<1>2. CASE where = "placing"
  <2>1. Placing' = Placing \cup {l}
    BY <1>1, <1>2 DEF Placing, CapInv
  <2>2. Cardinality(Placing \cup {l}) \in {Cardinality(Placing), Cardinality(Placing) + 1}
    BY PlacingFinite, FS_AddElement
  <2> QED BY <1>1, <1>2, <2>1, <2>2, PlacingFinite
<1>3. CASE where # "placing"
  <2>1. Placing' = Placing \ {l} /\ (l \in Placing <=> errand[l] = "placing")
    BY <1>1, <1>3 DEF Placing, CapInv
  <2>2. Cardinality(Placing \ {l}) =
           IF l \in Placing THEN Cardinality(Placing) - 1 ELSE Cardinality(Placing)
    BY PlacingFinite, FS_RemoveElement
  <2> QED BY <1>1, <1>3, <2>1, <2>2, PlacingFinite
<1> QED BY <1>2, <1>3

\* A step in which nobody's phone rings.
LEMMA NobodyRings ==
    ASSUME CapInv, UNCHANGED <<rung, uncounted, hours>>, errand' \in [Lines -> Ends],
           placed' \in {placed, Recent},
           \/ Cardinality(Placing') <= Cardinality(Placing)
           \/ Cardinality(RungBefore(hours)) + Cardinality(Placing') <= Ceiling
    PROVE  CapInv'
<1>1. RungBefore(hours)' = RungBefore(hours)
  BY DEF RungBefore
<1>2. placed' \subseteq DOMAIN rung \ uncounted /\ RungBefore(hours) \subseteq placed'
  BY RecentIsThisHour DEF CapInv, RungBefore
<1>3. Cardinality(RungBefore(hours)) + Cardinality(Placing') <= Ceiling
  <2>1. Cardinality(Placing') \in Nat
    BY PlacingFinite, CeilingType, FS_Subset, FS_CardinalityType,
       Placing' \subseteq Lines DEF Placing
  <2> QED BY <2>1, RungFinite, PlacingFinite, CeilingType DEF CapInv
<1>4. HoursKeepToCap' /\ (uncounted \subseteq DOMAIN rung)'
  BY DEF CapInv, HoursKeepToCap, RungBefore, Ceiling
<1>5. (hours \in Nat /\ rung \in Seq(Nat) /\ \A j \in DOMAIN rung : rung[j] <= hours)'
  BY DEF CapInv
<1> QED BY <1>1, <1>2, <1>3, <1>4, <1>5 DEF CapInv, Ceiling

\* The cap is judged before the request is made.
LEMMA JudgedKeeps ==
    ASSUME CapInv, NEW l \in Lines, Judged(l), Cardinality(Placing) < RequestsAtOnce,
           UNCHANGED <<rung, uncounted, hours>>
    PROVE  CapInv'
<1>1. placed' = Recent /\ Recent = RungBefore(hours)
  BY RecentIsThisHour DEF Judged
<1>2. CASE Cardinality(Recent) >= MaxPerHour /\ ErrandGoes(l, "refused")
  BY <1>1, <1>2, PlacingChanges, NobodyRings DEF Ends
<1>3. CASE ~(Cardinality(Recent) >= MaxPerHour) /\ ErrandGoes(l, "placing")
  <2>1. Cardinality(Placing') <= Cardinality(Placing) + 1 /\ errand' \in [Lines -> Ends]
    BY <1>3, PlacingChanges DEF Ends
  <2>2. Cardinality(Placing') \in Nat
    BY CeilingType, FS_Subset, FS_CardinalityType, Placing' \subseteq Lines DEF Placing
  <2>3. Cardinality(RungBefore(hours)) + Cardinality(Placing') <= Ceiling
    BY <1>1, <1>3, <2>1, <2>2, RungFinite, PlacingFinite, DeliveryAssumption
       DEF DeliveryAssumption, Ceiling
  <2> QED BY <1>1, <2>1, <2>3, NobodyRings
<1> QED BY <1>2, <1>3 DEF Judged

\* The phone rings: the request has become a call of this hour.
LEMMA RingsKeeps ==
    ASSUME CapInv, NEW l \in Lines, Rings(l)
    PROVE  CapInv'
<1> DEFINE n == Len(rung) + 1
<1>1. /\ rung' \in Seq(Nat) /\ Len(rung') = n /\ hours' = hours /\ hours \in Nat
      /\ DOMAIN rung' = 1..n /\ DOMAIN rung = 1..Len(rung) /\ Len(rung) \in Nat
      /\ rung'[n] = hours /\ \A j \in DOMAIN rung : rung'[j] = rung[j]
      /\ placed' = placed \cup {n} /\ uncounted' = uncounted /\ uncounted \subseteq DOMAIN rung
  BY DEF Rings, CapInv
<1>2. errand' \in [Lines -> Ends] /\ Cardinality(Placing') = Cardinality(Placing) - 1
  <2>1. \E where \in {"parked", "unsaved"} : ErrandGoes(l, where)
    BY DEF Rings
  <2> QED BY <2>1, PlacingChanges DEF Rings, Ends
<1>3. \A j \in DOMAIN rung' : rung'[j] <= hours
  BY SMTT(20), <1>1 DEF CapInv
<1>4. RungBefore(hours)' \subseteq RungBefore(hours) \cup {n}
  BY <1>1 DEF RungBefore
<1>5. /\ IsFiniteSet(RungBefore(hours)')
      /\ Cardinality(RungBefore(hours)') <= Cardinality(RungBefore(hours)) + 1
      /\ Cardinality(RungBefore(hours)') \in Nat
  <2>1. IsFiniteSet(RungBefore(hours) \cup {n})
        /\ Cardinality(RungBefore(hours) \cup {n}) <= Cardinality(RungBefore(hours)) + 1
    BY RungFinite, FS_AddElement
  <2>2. IsFiniteSet(RungBefore(hours)')
        /\ Cardinality(RungBefore(hours)') <= Cardinality(RungBefore(hours) \cup {n})
    BY <1>4, <2>1, FS_Subset
  <2> QED BY <2>1, <2>2, RungFinite, FS_CardinalityType
<1>6. Cardinality(RungBefore(hours)') + Cardinality(Placing') <= Ceiling
      /\ Cardinality(Placing') >= 0
  <2>1. Cardinality(Placing') \in Nat
    BY CeilingType, FS_Subset, FS_CardinalityType, Placing' \subseteq Lines DEF Placing
  <2> QED BY <1>2, <1>5, <2>1, RungFinite, PlacingFinite, CeilingType, SMTT(30) DEF CapInv
<1>7. placed' \subseteq DOMAIN rung' \ uncounted' /\ RungBefore(hours)' \subseteq placed'
  BY <1>1, <1>4 DEF CapInv
<1>8. HoursKeepToCap'
  <2> SUFFICES ASSUME NEW i \in DOMAIN rung'
               PROVE  Cardinality(RungBefore(rung[i])') <= Ceiling
    BY DEF HoursKeepToCap, Ceiling
  <2>1. CASE rung'[i] = hours
    <3>1. RungBefore(rung[i])' = RungBefore(hours)'
      BY <1>1, <2>1 DEF RungBefore
    <3> QED BY <1>5, <1>6, <3>1, CeilingType, PlacingFinite, <1>2
  <2>2. CASE rung'[i] # hours
    <3>1. i \in DOMAIN rung /\ rung'[i] = rung[i] /\ rung[i] < hours /\ rung[i] \in Nat
      BY <1>1, <1>3, <2>2
    <3>2. RungBefore(rung[i])' = RungBefore(rung[i])
      BY <1>1, <3>1 DEF RungBefore
    <3>3. Cardinality(RungBefore(rung[i])) <= Ceiling
      BY <3>1 DEF CapInv, HoursKeepToCap, Ceiling
    <3> QED BY <3>2, <3>3
  <2> QED BY <2>1, <2>2
<1> QED BY <1>1, <1>2, <1>3, <1>6, <1>7, <1>8 DEF CapInv, Ceiling

\* The phone rings though the request ends in an error: no call of the count.
LEMMA RingsAllTheSameKeeps ==
    ASSUME CapInv, NEW l \in Lines, RingsAllTheSame(l)
    PROVE  CapInv'
<1> DEFINE n == Len(rung) + 1
<1>1. /\ rung' \in Seq(Nat) /\ Len(rung') = n /\ hours' = hours /\ hours \in Nat
      /\ DOMAIN rung' = 1..n /\ DOMAIN rung = 1..Len(rung) /\ Len(rung) \in Nat
      /\ rung'[n] = hours /\ \A j \in DOMAIN rung : rung'[j] = rung[j]
      /\ placed' = placed /\ uncounted' = uncounted \cup {n}
  BY DEF RingsAllTheSame, CapInv
<1>2. errand' \in [Lines -> Ends] /\ Cardinality(Placing') <= Cardinality(Placing)
  BY PlacingChanges DEF RingsAllTheSame, Ends
<1>3. \A j \in DOMAIN rung' : rung'[j] <= hours
  BY SMTT(20), <1>1 DEF CapInv
<1>4. \A t \in Nat : RungBefore(t)' = RungBefore(t)
  <2> SUFFICES ASSUME NEW t \in Nat, NEW j PROVE j \in RungBefore(t)' <=> j \in RungBefore(t)
    OBVIOUS
  <2>1. j \in DOMAIN rung' \ uncounted' <=> j \in DOMAIN rung \ uncounted
    BY <1>1
  <2> QED BY <1>1, <2>1 DEF RungBefore
<1>5. Cardinality(RungBefore(hours)') + Cardinality(Placing') <= Ceiling
  <2>1. Cardinality(Placing') \in Nat
    BY CeilingType, FS_Subset, FS_CardinalityType, Placing' \subseteq Lines DEF Placing
  <2>2. RungBefore(hours)' = RungBefore(hours)
    BY <1>1, <1>4
  <2>3. Cardinality(RungBefore(hours)) + Cardinality(Placing) <= Ceiling
    BY DEF CapInv
  <2> QED BY <1>2, <2>1, <2>2, <2>3, RungFinite, PlacingFinite, CeilingType
<1>6. HoursKeepToCap'
  <2> SUFFICES ASSUME NEW i \in DOMAIN rung'
               PROVE  Cardinality(RungBefore(rung[i])') <= Ceiling
    BY DEF HoursKeepToCap, Ceiling
  <2>1. CASE i = n
    <3>1. RungBefore(rung[i])' = RungBefore(hours)
      BY <1>1, <1>4, <2>1
    <3>2. Cardinality(RungBefore(hours)) + Cardinality(Placing) <= Ceiling
      BY DEF CapInv
    <3> QED BY <3>1, <3>2, RungFinite, PlacingFinite, CeilingType
  <2>2. CASE i # n
    <3>1. i \in DOMAIN rung /\ rung'[i] = rung[i] /\ rung[i] \in Nat
      BY <1>1, <2>2 DEF CapInv
    <3>2. RungBefore(rung[i])' = RungBefore(rung[i])
      BY <1>4, <3>1
    <3>3. Cardinality(RungBefore(rung[i])) <= Ceiling
      BY <3>1 DEF CapInv, HoursKeepToCap
    <3> QED BY <3>2, <3>3
  <2> QED BY <2>1, <2>2
<1>7. /\ placed' \subseteq DOMAIN rung' \ uncounted' /\ uncounted' \subseteq DOMAIN rung'
      /\ RungBefore(hours)' \subseteq placed'
  BY <1>1, <1>4 DEF CapInv
<1> QED BY <1>1, <1>2, <1>3, <1>5, <1>6, <1>7 DEF CapInv, Ceiling

\* An hour goes by a tick at a time.
LEMMA HoursKeep ==
    ASSUME CapInv, HoursPass
    PROVE  CapInv'
<1>1. hours' = hours + 1 /\ UNCHANGED <<errand, placed, rung, uncounted>> /\ hours \in Nat
  BY DEF HoursPass, CapInv
<1>2. RungBefore(hours)' \subseteq RungBefore(hours)
  BY <1>1, CeilingType DEF RungBefore, CapInv
<1>3. Cardinality(RungBefore(hours)') <= Cardinality(RungBefore(hours))
      /\ Cardinality(RungBefore(hours)') \in Nat
  BY <1>2, RungFinite, FS_Subset, FS_CardinalityType
<1>4. Placing' = Placing
  BY <1>1 DEF Placing
<1>5. Cardinality(RungBefore(hours)') + Cardinality(Placing') <= Ceiling
  BY <1>3, <1>4, RungFinite, PlacingFinite, CeilingType DEF CapInv
<1>6. HoursKeepToCap'
  BY <1>1 DEF CapInv, HoursKeepToCap, RungBefore, Ceiling
<1>7. \A j \in DOMAIN rung' : rung'[j] <= hours'
  BY <1>1 DEF CapInv
<1> QED BY <1>1, <1>2, <1>5, <1>6, <1>7 DEF CapInv, Ceiling

\* Calls of the last hour and requests under way together keep to the cap and the
\* overlap, whatever is judged, answered, refused or fails in between
\* (OutboundPolicy.check, OutboundPolicy.record).
THEOREM CapInvariant == DeliverySpec => []CapInv
<1>1. DeliveryInit => CapInv
  <2> SUFFICES ASSUME DeliveryInit PROVE CapInv
    OBVIOUS
  <2>1. RungBefore(hours) = {} /\ Placing = {} /\ DOMAIN rung = {} /\ uncounted = {}
    BY DEF DeliveryInit, RungBefore, Placing
  <2>2. Cardinality(RungBefore(hours)) = 0 /\ Cardinality(Placing) = 0
    BY <2>1, FS_EmptySet
  <2> QED BY <2>1, <2>2, CeilingType
          DEF CapInv, DeliveryInit, HoursKeepToCap, Ceiling, Ends
<1>2. CapInv /\ [DeliveryNext]_deliveryVars => CapInv'
  <2> SUFFICES ASSUME CapInv, [DeliveryNext]_deliveryVars PROVE CapInv'
    OBVIOUS
  <2>1. CASE UNCHANGED <<errand, placed, rung, uncounted, hours>>
    <3>1. Placing' = Placing /\ errand' \in [Lines -> Ends] /\ placed' = placed
      BY <2>1 DEF Placing, CapInv
    <3>2. Cardinality(Placing') <= Cardinality(Placing)
      BY <3>1, PlacingFinite
    <3> QED BY <2>1, <3>1, <3>2, NobodyRings
  <2>2. ASSUME NEW c \in LiveLegs, Registers(c) \/ Unregisters(c) PROVE CapInv'
    BY <2>1, <2>2 DEF Registers, Unregisters
  <2>3. ASSUME NEW l \in Lines, UnderWay < RequestsAtOnce,
               Deliver(l) \/ Place(l) \/ SayFails(l)
        PROVE  CapInv'
    <3>1. Cardinality(Placing) < RequestsAtOnce /\ UNCHANGED <<rung, uncounted, hours>>
      BY <2>3 DEF UnderWay, Placing, Deliver, Place, SayFails
    <3>2. CASE Judged(l)
      BY <3>1, <3>2, JudgedKeeps
    <3>3. CASE \E where \in {"speaking", "refused"} :
                  ErrandGoes(l, where) /\ placed' \in {placed, Recent}
      BY <3>1, <3>3, PlacingChanges, NobodyRings DEF Ends
    <3> QED BY <2>3, <3>2, <3>3 DEF Deliver, Place, SayFails
  <2>4. ASSUME NEW l \in Lines, SaidIt(l) \/ PlaceFails(l) PROVE CapInv'
    <3>1. \E where \in {"said", "failed"} : ErrandGoes(l, where)
      BY <2>4 DEF SaidIt, PlaceFails
    <3>2. UNCHANGED <<placed, rung, uncounted, hours>>
      BY <2>4 DEF SaidIt, PlaceFails
    <3> QED BY <3>1, <3>2, PlacingChanges, NobodyRings DEF Ends
  <2>5. ASSUME NEW l \in Lines, Rings(l) PROVE CapInv'
    BY <2>5, RingsKeeps
  <2>9. ASSUME NEW l \in Lines, RingsAllTheSame(l) PROVE CapInv'
    BY <2>9, RingsAllTheSameKeeps
  <2>6. ASSUME NEW l \in Lines, Answered(l) PROVE CapInv'
    BY <2>1, <2>6 DEF Answered
  <2>7. CASE HoursPass
    BY <2>7, HoursKeep
  <2>8. CASE UNCHANGED deliveryVars
    BY <2>1, <2>8 DEF deliveryVars
  <2> QED BY <2>2, <2>3, <2>4, <2>5, <2>6, <2>7, <2>8, <2>9 DEF DeliveryNext
<1> QED BY <1>1, <1>2, PTL DEF DeliverySpec

\* A request of the lane is made when the lane waits for nobody, beside fewer than
\* RequestsAtOnce others; and it alone can come to be waited for.
HeldInv ==
    /\ errand \in [Lines -> Ends]
    /\ \A l \in Lines \cap LaneLines : errand[l] # "speaking"
    /\ Cardinality(Held) <= RequestsAtOnce

\* What the lane has to do with one person keeps to the overlap, whatever is asked
\* for, refused, answered or fails in between (OutboundLane.place).
THEOREM HeldInvariant == DeliverySpec => []HeldInv
<1>1. DeliveryInit => HeldInv
  <2> SUFFICES ASSUME DeliveryInit PROVE HeldInv
    OBVIOUS
  <2>1. Held = {}
    BY DEF DeliveryInit, Held
  <2> QED BY <2>1, FS_EmptySet, DeliveryAssumption DEF DeliveryAssumption, DeliveryInit, HeldInv, Ends
<1>2. HeldInv /\ [DeliveryNext]_deliveryVars => HeldInv'
  <2> SUFFICES ASSUME HeldInv, [DeliveryNext]_deliveryVars PROVE HeldInv'
    OBVIOUS
  <2>1. IsFiniteSet(Held) /\ Cardinality(Held) \in Nat /\ RequestsAtOnce \in Nat
    BY CeilingType, FS_Subset, FS_CardinalityType, Held \subseteq Lines, DeliveryAssumption
       DEF Held, DeliveryAssumption
  <2>2. ASSUME Held' \subseteq Held PROVE Cardinality(Held') <= RequestsAtOnce
    <3>1. IsFiniteSet(Held') /\ Cardinality(Held') <= Cardinality(Held)
      BY <2>1, <2>2, FS_Subset
    <3> QED BY <2>1, <3>1, FS_CardinalityType DEF HeldInv
  <2>3. ASSUME NEW l \in Lines, NEW where \in Ends, ErrandGoes(l, where)
        PROVE  errand' \in [Lines -> Ends] /\ errand' = [errand EXCEPT ![l] = where]
    BY <2>3 DEF ErrandGoes, HeldInv
  <2>4. CASE UNCHANGED <<errand, parked>>
    BY <2>2, <2>4 DEF HeldInv, Held
  <2>5. ASSUME NEW l \in Lines, UnderWay < RequestsAtOnce, Place(l) PROVE HeldInv'
    <3>1. PICK where \in {"refused", "placing"} :
              ErrandGoes(l, where) /\ (where = "placing" => parked = {})
      BY <2>5 DEF Place, Judged
    <3>2. errand' \in [Lines -> Ends] /\ errand' = [errand EXCEPT ![l] = where] /\ parked' = parked
      BY <2>3, <2>5, <3>1 DEF Place, Ends
    <3>3. \A k \in Lines \cap LaneLines : errand'[k] # "speaking"
      BY <3>2 DEF HeldInv
    <3>4. CASE where = "refused"
      <4>1. Held' \subseteq Held
        BY <3>2, <3>4 DEF Held, HeldInv
      <4> QED BY <2>2, <3>2, <3>3, <4>1 DEF HeldInv
    <3>5. CASE where = "placing"
      <4>1. Held \subseteq Placing /\ Cardinality(Placing) < RequestsAtOnce
        BY <2>5, <3>1, <3>5 DEF Held, Placing, UnderWay
      <4>2. Cardinality(Held) <= Cardinality(Placing)
        BY <4>1, PlacingFinite, FS_Subset
      <4>3. Held' \subseteq Held \cup {l}
        BY <3>2 DEF Held, HeldInv
      <4>4. /\ IsFiniteSet(Held \cup {l})
            /\ Cardinality(Held \cup {l}) \in {Cardinality(Held), Cardinality(Held) + 1}
        BY <2>1, FS_AddElement
      <4>5. IsFiniteSet(Held') /\ Cardinality(Held') <= Cardinality(Held \cup {l})
        BY <4>3, <4>4, FS_Subset
      <4>6. Cardinality(Held') \in Nat
        BY <4>5, FS_CardinalityType
      <4>7. Cardinality(Held') <= RequestsAtOnce
        BY <2>1, <4>1, <4>2, <4>4, <4>5, <4>6, PlacingFinite
      <4> QED BY <3>2, <3>3, <4>7 DEF HeldInv
    <3> QED BY <3>4, <3>5
  <2>6. ASSUME NEW l \in Lines, Deliver(l) \/ SayFails(l) PROVE HeldInv'
    <3>1. l \notin LaneLines /\ parked' = parked
      BY <2>6 DEF Deliver, SayFails, HeldInv
    <3>2. PICK where \in {"speaking", "refused", "placing"} : ErrandGoes(l, where)
      BY <2>6 DEF Deliver, SayFails, Judged
    <3>3. errand' \in [Lines -> Ends] /\ errand' = [errand EXCEPT ![l] = where]
      BY <2>3, <3>2 DEF Ends
    <3>4. Held' \subseteq Held
      BY <3>1, <3>3 DEF Held, HeldInv
    <3> QED BY <2>2, <3>1, <3>3, <3>4 DEF HeldInv
  <2>7. ASSUME NEW l \in Lines, SaidIt(l) \/ Rings(l) \/ PlaceFails(l) \/ RingsAllTheSame(l)
        PROVE  HeldInv'
    <3>1. /\ parked' \in {parked, parked \cup {l}}
          /\ parked' # parked => errand[l] = "placing"
      BY <2>7 DEF SaidIt, Rings, PlaceFails, RingsAllTheSame
    <3>2. PICK where \in {"said", "parked", "unsaved", "failed"} : ErrandGoes(l, where)
      BY <2>7 DEF SaidIt, Rings, PlaceFails, RingsAllTheSame
    <3>3. errand' \in [Lines -> Ends] /\ errand' = [errand EXCEPT ![l] = where]
      BY <2>3, <3>2 DEF Ends
    <3>4. Held' \subseteq Held
      BY <3>1, <3>2, <3>3 DEF Held, HeldInv
    <3> QED BY <2>2, <3>2, <3>3, <3>4 DEF HeldInv
  <2>8. ASSUME NEW l \in Lines, Answered(l) PROVE HeldInv'
    <3>1. Held' \subseteq Held /\ errand' = errand
      BY <2>8 DEF Answered, Held
    <3> QED BY <2>2, <3>1 DEF HeldInv
  <2>9. CASE (\E c \in LiveLegs : Registers(c) \/ Unregisters(c)) \/ HoursPass
    BY <2>4, <2>9 DEF Registers, Unregisters, HoursPass
  <2>10. CASE UNCHANGED deliveryVars
    BY <2>4, <2>10 DEF deliveryVars
  <2> QED BY <2>5, <2>6, <2>7, <2>8, <2>9, <2>10 DEF DeliveryNext
<1> QED BY <1>1, <1>2, PTL DEF DeliverySpec

\* No hour rings more phones than the cap allows and the requests that were under way
\* when it was reached, but for those whose request ended in an error, and the lane
\* waits for one call to a person and those asked for beside it, for any cap, any
\* number of lines and any overlap ("Calls placed in any rolling hour", outbound.py).
THEOREM CapHolds == DeliverySpec => []CapHoldsButForOverlap
<1>1. CapInv /\ HeldInv => CapHoldsButForOverlap
  <2> SUFFICES ASSUME CapInv, HeldInv PROVE CapHoldsButForOverlap
    OBVIOUS
  <2>1. \A i \in DOMAIN rung : Cardinality(RungBefore(rung[i])) <= Ceiling
    BY DEF CapInv, HoursKeepToCap
  <2>2. {l \in Lines \cap LaneLines : l \in parked} \subseteq Held
    BY DEF Held
  <2>3. IsFiniteSet(Held) /\ Cardinality(Held) <= RequestsAtOnce /\ Held \subseteq Lines
    BY CeilingType, FS_Subset, Held \subseteq Lines DEF Held, HeldInv
  <2>4. PICK waiting : waiting = {l \in Lines \cap LaneLines : l \in parked}
    OBVIOUS
  <2>5. IsFiniteSet(waiting) /\ Cardinality(waiting) <= Cardinality(Held)
    BY <2>2, <2>3, <2>4, FS_Subset
  <2>6. Cardinality(waiting) <= RequestsAtOnce
    BY <2>3, <2>5, FS_CardinalityType, DeliveryAssumption DEF DeliveryAssumption
  <2> QED BY <2>1, <2>4, <2>6 DEF CapHoldsButForOverlap, RungBefore, Ceiling
<1> QED BY <1>1, CapInvariant, HeldInvariant, PTL

-----------------------------------------------------------------------------
\* A recap that was written down is on disk until it is posted or given up for
\* a reason, whatever fails, dies or is reloaded on the way: whoever removes a
\* file says why in the same stretch (RecapJobs).
THEOREM NoRecapVanishes == RecapSpec => []RecapsAreKept
<1> DEFINE Kept2 == spool \in [Recaps -> {"none", "waiting", "claimed", "gone"}]
                    /\ settled \in [Recaps -> {"no", "posted", "nowhere", "attempts",
                                               "expired", "trimmed"}]
                    /\ stored \in [Recaps -> BOOLEAN]
                    /\ RecapsAreKept
<1>1. RecapInit => Kept2
  BY DEF RecapInit, RecapsAreKept
<1>2. Kept2 /\ [RecapNext]_recapVars => Kept2'
  <2> SUFFICES ASSUME Kept2, [RecapNext]_recapVars PROVE Kept2'
    OBVIOUS
  <2> USE DEF RecapsAreKept
  <2>1. CASE UNCHANGED files
    BY <2>1 DEF files
  <2>2. ASSUME NEW j \in Recaps, Schedule(j) PROVE Kept2'
    BY <2>2 DEF Schedule
  <2>3. ASSUME NEW j \in Recaps, BeginRecap(j) PROVE Kept2'
    BY <2>3 DEF BeginRecap
  <2>4. ASSUME NEW d \in Drains, DrainClaims(d) PROVE Kept2'
    BY <2>4 DEF DrainClaims, Taken
  <2>5. ASSUME NEW d \in Drains, DrainSkipped(d) PROVE Kept2'
    BY <2>1, <2>5 DEF DrainSkipped
  <2>6. ASSUME NEW w \in Recaps \cup Drains, Asked(w) \/ Arrives(w) PROVE Kept2'
    BY <2>1, <2>6 DEF Asked, Arrives
  <2>7. ASSUME NEW w \in Recaps \cup Drains, RecapFails(w) PROVE Kept2'
    BY <2>7 DEF RecapFails, PutsBack
  <2>8. ASSUME NEW w \in Recaps \cup Drains, RecapFinishes(w) PROVE Kept2'
    BY <2>8 DEF RecapFinishes
  <2>9. CASE Connect \/ LaneOpens \/ LaneFails \/ Disconnect \/ Disconnected \/ Crash
    BY <2>1, <2>9 DEF Connect, LaneOpens, LaneFails, Disconnect, Disconnected, Crash
  <2>10. CASE UNCHANGED recapVars
    BY <2>1, <2>10 DEF recapVars, files
  <2> QED BY <2>2, <2>3, <2>4, <2>5, <2>6, <2>7, <2>8, <2>9, <2>10 DEF RecapNext
<1> QED BY <1>1, <1>2, PTL DEF RecapSpec

-----------------------------------------------------------------------------
Workers == Recaps \cup Drains
Places == {"none", "scheduled", "asking", "posting", "posted", "over"}

RecapTypeOK ==
    /\ spool \in [Recaps -> {"none", "waiting", "claimed", "gone"}]
    /\ stored \in [Recaps -> BOOLEAN]
    /\ work \in [Workers -> [at : Places, todo : SUBSET Recaps]]
    /\ posts \in [Recaps -> Nat] /\ excused \in [Recaps -> Nat]
    /\ chatOpen \in BOOLEAN /\ plugged \in BOOLEAN /\ opening \in BOOLEAN
    /\ unplugging \in BOOLEAN /\ tracked \subseteq Drains /\ early \in BOOLEAN

\* Nobody ever took this recap from somebody at work.
Fair(j) == j \notin aged \cup robbed

\* A task is about its own recap, and whoever is at work has a job.
WorkIsSound ==
    /\ \A j \in Recaps : work[j].todo \subseteq {j}
    /\ \A w \in Workers : work[w].at \in {"asking", "posting", "posted"} => work[w].todo # {}
    /\ \A j \in Recaps : work[j].at = "scheduled" =>
            work[j].todo = {j} /\ (stored[j] \/ spool[j] = "none")
    /\ \A j \in Recaps : work[j].at = "none" =>
            work[j] = Idle /\ spool[j] = "none" /\ posts[j] = 0

\* Whatever is held or was taken over has a task that began.
HasBegun ==
    /\ \A w \in Workers, j \in Recaps : Holds(w, j) => work[j].at # "none"
    /\ \A j \in Recaps : ~Fair(j) => stored[j] /\ work[j].at # "none"

\* One drain at a time, as long as no disconnect cut into a connect: it belongs to
\* the platform that is connected.  So no recap is taken for a dead owner's.
OneDrain ==
    ~early => /\ \A d, e \in Drains : Busy(d) /\ Busy(e) => d = e
              /\ \A d \in Drains : Busy(d) => d \in tracked /\ plugged /\ ~opening
              /\ opening => plugged /\ ~unplugging
              /\ unplugging => plugged
              /\ robbed = {}

\* One holder to a recap: of a recap on disk it is the one with the claim, of
\* one that could not be written down it is its task.
OneHolder ==
    /\ \A j \in Recaps : spool[j] \in {"waiting", "claimed"} => stored[j]
    /\ \A w \in Workers, j \in Recaps : Holds(w, j) /\ ~stored[j] => w = j /\ spool[j] = "none"
    /\ \A w \in Workers, j \in Recaps :
         Holds(w, j) /\ Fair(j) /\ stored[j] => spool[j] = "claimed"
    /\ \A v, w \in Workers, j \in Recaps : Holds(v, j) /\ Holds(w, j) /\ Fair(j) => v = w

\* Posted for good: its file is gone, or about to go.
Posted(j) ==
    \/ spool[j] = "gone"
    \/ \E w \in Workers : work[w].at = "posted" /\ Job(w) = j

\* A recap that may still be posted has not been, interruptions apart.
PostedBefore ==
    \A j \in Recaps : Fair(j) => \/ posts[j] <= excused[j]
                                 \/ posts[j] <= 1 + excused[j] /\ Posted(j)

RecapInv == RecapTypeOK /\ WorkIsSound /\ HasBegun /\ OneDrain /\ OneHolder /\ PostedBefore

\* The job a drain works on comes off the front of its work list.
LEMMA FirstJob ==
    ASSUME RecapTypeOK, WorkIsSound, NEW w \in Workers,
           work[w].at \in {"asking", "posting", "posted"}
    PROVE  Job(w) \in work[w].todo /\ Job(w) \in Recaps /\ Holds(w, Job(w))
<1> DEFINE T == work[w].todo
<1>1. T \subseteq Recaps /\ T # {} /\ T \subseteq Nat
  BY RecapAssumption DEF RecapTypeOK, WorkIsSound, RecapAssumption
<1>2. \E x \in T : \A y \in T : ~(<<y, x>> \in OpToRel(<, Nat))
  BY <1>1, NatLessThanWellFounded, WFMin, Zenon
<1>3. \E x \in T : \A y \in T : x <= y
  <2>1. \E x \in T : \A y \in T : ~(y < x)
    BY <1>1, <1>2, Zenon DEF OpToRel
  <2> QED BY <1>1, <2>1
<1>4. Job(w) \in T
  BY <1>3 DEF Job
<1> QED BY <1>1, <1>4 DEF Holds

\* One worker moves, and keeps its jobs.
LEMMA Moved ==
    ASSUME RecapTypeOK, NEW w \in Workers, NEW where \in Places, GoesOn(w, where)
    PROVE  /\ work' \in [Workers -> [at : Places, todo : SUBSET Recaps]]
           /\ work'[w].at = where /\ work'[w].todo = work[w].todo
           /\ \A v \in Workers : v # w => work'[v] = work[v]
BY DEF RecapTypeOK, GoesOn

\* What was posted stays posted, as long as nobody who has posted is stirred.
LEMMA StaysPosted ==
    ASSUME PostedBefore, UNCHANGED <<posts, excused>>,
           aged \cup robbed \subseteq aged' \cup robbed',
           \A v \in Workers : work[v].at = "posted" =>
               \/ work'[v] = work[v]
               \/ spool'[Job(v)] = "gone",
           \A j \in Recaps : Fair(j)' /\ spool[j] = "gone" => spool'[j] = "gone"
    PROVE  PostedBefore'
<1> SUFFICES ASSUME NEW j \in Recaps, Posted(j), Fair(j)' PROVE Posted(j)'
  BY DEF PostedBefore, Fair
<1>1. CASE spool[j] = "gone"
  BY <1>1 DEF Posted
<1>2. ASSUME NEW v \in Workers, work[v].at = "posted", Job(v) = j PROVE Posted(j)'
  <2>1. CASE work'[v] = work[v]
    BY <1>2, <2>1 DEF Posted, Job
  <2> QED BY <1>2, <2>1 DEF Posted
<1> QED BY <1>1, <1>2 DEF Posted

\* A task or a drain is on its way to its first job, or has skipped it.
LEMMA StepsKeep ==
    ASSUME RecapInv, NEW w \in Workers, NEW where \in Places \ {"none", "scheduled"},
           GoesOn(w, where), Busy(w), work[w].at # "posted", where # "posted",
           where \in {"asking", "posting"} => Holds(w, Job(w)),
           UNCHANGED <<spool, stored, history, chatOpen, plugged, opening,
                       unplugging, tracked>>
    PROVE  RecapInv'
<1>0. UNCHANGED <<posts, excused, aged, robbed, early>>
  BY DEF history
<1>1. /\ work' \in [Workers -> [at : Places, todo : SUBSET Recaps]]
      /\ work'[w].at = where /\ work'[w].todo = work[w].todo
      /\ \A v \in Workers : v # w => work'[v] = work[v]
  BY Moved DEF RecapInv
<1>2. RecapTypeOK'
  BY <1>0, <1>1 DEF RecapInv, RecapTypeOK
<1>3. WorkIsSound'
  <2>1. work[w].at # "none" /\ (where \in {"asking", "posting"} => work[w].todo # {})
    BY DEF Busy, Holds
  <2>2. \A j \in Recaps : work'[j].todo = work[j].todo /\ j \in Workers
    BY <1>1 DEF Workers
  <2>3. \A j \in Recaps : work'[j].at \in {"scheduled", "none"} => work'[j] = work[j]
    BY <1>1, <2>2
  <2> QED BY <1>0, <1>1, <2>1, <2>2, <2>3 DEF RecapInv, WorkIsSound
<1>4. OneDrain'
  BY <1>0, <1>1 DEF RecapInv, OneDrain, Busy, Workers
<1>5. OneHolder'
  <2>1. \A v \in Workers, j \in Recaps : Holds(v, j)' => Holds(v, j)
    BY <1>1 DEF Holds
  <2> QED BY <1>0, <2>1 DEF RecapInv, OneHolder, Fair
<1>6. PostedBefore'
  BY <1>0, <1>1, StaysPosted DEF RecapInv
<1>7. HasBegun'
  <2>1. \A v \in Workers, j \in Recaps : Holds(v, j)' => Holds(v, j)
    BY <1>1 DEF Holds
  <2>2. \A j \in Recaps : work[j].at # "none" => work'[j].at # "none"
    BY <1>1 DEF Workers
  <2> QED BY <1>0, <2>1, <2>2 DEF RecapInv, HasBegun, Fair
<1> QED BY <1>2, <1>3, <1>4, <1>5, <1>6, <1>7 DEF RecapInv

\* A recap that is held is neither waiting nor gone, and its task has begun.
LEMMA HeldIsOpen ==
    ASSUME RecapInv, NEW w \in Workers, NEW j \in Recaps, Holds(w, j)
    PROVE  /\ work[j].at # "none"
           /\ ~stored[j] => w = j /\ spool[j] = "none" /\ Fair(j)
           /\ Fair(j) => /\ stored[j] => spool[j] = "claimed"
                         /\ \A v \in Workers : Holds(v, j) => v = w
BY DEF RecapInv, OneHolder, HasBegun

\* A recap that is written down is new to everybody (RecapJobs.schedule).
LEMMA ScheduleKeeps ==
    ASSUME RecapInv, NEW j \in Recaps, Schedule(j)
    PROVE  RecapInv'
<1>1. /\ work[j] = Idle /\ work' \in [Workers -> [at : Places, todo : SUBSET Recaps]]
      /\ work'[j] = [at |-> "scheduled", todo |-> {j}]
      /\ \A v \in Workers : v # j => work'[v] = work[v]
  BY DEF Schedule, RecapInv, RecapTypeOK, Workers, Places
<1>2. PICK ok \in BOOLEAN :
          /\ stored' = [stored EXCEPT ![j] = ok]
          /\ spool' = [i \in Recaps |-> IF i = j THEN (IF ok THEN "waiting" ELSE "none")
                                        ELSE IF i \in Trimmed THEN "gone" ELSE spool[i]]
  BY DEF Schedule
<1>3. \A i \in Trimmed : spool[i] = "waiting"
  BY DEF Trimmed
<1>4. UNCHANGED <<chatOpen, plugged, opening, unplugging, tracked, posts, excused,
                  aged, robbed, early>>
  BY DEF Schedule, platform, history
<1>5. spool[j] = "none" /\ posts[j] = 0 /\ j \in Workers
  BY <1>1 DEF RecapInv, WorkIsSound, Idle, Workers
<1>6. RecapTypeOK'
  BY <1>1, <1>2, <1>4 DEF RecapInv, RecapTypeOK
<1>7. WorkIsSound'
  <2>1. \A i \in Recaps \ {j} :
            /\ work'[i] = work[i] /\ stored'[i] = stored[i] /\ posts'[i] = posts[i]
            /\ spool'[i] = spool[i] \/ spool[i] = "waiting"
    BY <1>1, <1>2, <1>3, <1>4 DEF RecapInv, RecapTypeOK, Workers
  <2>2. spool'[j] = IF stored'[j] THEN "waiting" ELSE "none"
    BY <1>2 DEF RecapInv, RecapTypeOK
  <2>3. \A w \in Workers : work'[w].at \in {"asking", "posting", "posted"} =>
            work'[w].todo # {}
    BY <1>1 DEF RecapInv, WorkIsSound
  <2>4. \A i \in Recaps : spool[i] = "waiting" => stored[i]
    BY DEF RecapInv, OneHolder
  <2> QED BY <1>1, <2>1, <2>2, <2>3, <2>4 DEF RecapInv, WorkIsSound
<1>8. OneDrain'
  BY <1>1, <1>4, RecapAssumption DEF RecapInv, OneDrain, Busy, Workers, RecapAssumption
<1>9. OneHolder'
  <2>1. \A v \in Workers, i \in Recaps : Holds(v, i)' => Holds(v, i) /\ i # j
    BY <1>1, HeldIsOpen DEF Holds, Idle
  <2>2. \A i \in Recaps : spool'[i] \in {"waiting", "claimed"} => stored'[i]
    BY <1>2 DEF RecapInv, OneHolder, RecapTypeOK
  <2>3. \A v \in Workers, i \in Recaps : Holds(v, i)' =>
            /\ stored'[i] = stored[i]
            /\ Fair(i) \/ ~stored[i] => spool'[i] = spool[i]
    BY <1>2, <1>3, <2>1, HeldIsOpen DEF RecapInv, RecapTypeOK
  <2>4. \A i \in Recaps : Fair(i)' => Fair(i)
    BY <1>4 DEF Fair
  <2> QED BY <2>1, <2>2, <2>3, <2>4 DEF RecapInv, OneHolder
<1>11. HasBegun'
  <2>1. \A v \in Workers, i \in Recaps : Holds(v, i)' => Holds(v, i)
    BY <1>1 DEF Holds, Idle
  <2>2. \A i \in Recaps : work[i].at # "none" =>
            i # j /\ work'[i] = work[i] /\ stored'[i] = stored[i]
    BY <1>1, <1>2 DEF Workers, Idle, RecapInv, RecapTypeOK
  <2> QED BY <1>4, <2>1, <2>2 DEF RecapInv, HasBegun, Fair
<1>10. PostedBefore'
  <2>1. \A v \in Workers : work[v].at = "posted" => work'[v] = work[v]
    BY <1>1 DEF Idle
  <2>2. \A i \in Recaps : spool[i] = "gone" => spool'[i] = "gone"
    BY <1>2, <1>3, <1>5
  <2> QED BY <1>4, <2>1, <2>2, StaysPosted DEF RecapInv
<1> QED BY <1>6, <1>7, <1>8, <1>9, <1>10, <1>11 DEF RecapInv

\* A live job claims its own file and nobody else's (RecapJobs.begin).
LEMMA BeginKeeps ==
    ASSUME RecapInv, NEW j \in Recaps, BeginRecap(j)
    PROVE  RecapInv'
<1>1. /\ work[j].at = "scheduled" /\ work[j].todo = {j} /\ j \in Workers
      /\ UNCHANGED <<stored, chatOpen, plugged, opening, unplugging, tracked, posts, excused,
                     aged, robbed, early>>
  BY DEF BeginRecap, platform, history, RecapInv, WorkIsSound, Workers
<1>2. ASSUME NEW where \in {"over", "asking"}, GoesOn(j, where)
      PROVE  /\ work' \in [Workers -> [at : Places, todo : SUBSET Recaps]]
             /\ work'[j].at = where /\ work'[j].todo = {j}
             /\ \A v \in Workers : v # j => work'[v] = work[v]
  BY <1>1, <1>2, Moved DEF RecapInv, Places
<1>3. PICK where \in {"over", "asking"} :
          /\ GoesOn(j, where)
          /\ where = "over" => UNCHANGED spool
          /\ where = "asking" => /\ spool' = [spool EXCEPT ![j] = IF stored[j] THEN "claimed" ELSE @]
                                 /\ ~stored[j] \/ spool[j] = "waiting"
  BY DEF BeginRecap
<1>4. /\ work' \in [Workers -> [at : Places, todo : SUBSET Recaps]]
      /\ work'[j].at = where /\ work'[j].todo = {j}
      /\ \A v \in Workers : v # j => work'[v] = work[v]
  BY <1>2, <1>3
<1>5. \A v \in Workers : where = "asking" /\ Fair(j) => ~Holds(v, j)
  <2>1. ~Holds(j, j)
    BY <1>1 DEF Holds
  <2> QED BY <1>3, <2>1 DEF RecapInv, OneHolder, RecapTypeOK
<1>6. RecapTypeOK'
  BY <1>1, <1>3, <1>4 DEF RecapInv, RecapTypeOK
<1>7. WorkIsSound'
  <2>1. \A i \in Recaps : i # j => spool'[i] = spool[i] /\ work'[i] = work[i]
    BY <1>3, <1>4 DEF RecapInv, RecapTypeOK, Workers
  <2> QED BY <1>1, <1>4, <2>1 DEF RecapInv, WorkIsSound, Workers
<1>8. OneDrain'
  BY <1>1, <1>4, RecapAssumption DEF RecapInv, OneDrain, Busy, Workers, RecapAssumption
<1>9. OneHolder'
  <2>1. \A v \in Workers, i \in Recaps :
            Holds(v, i)' => Holds(v, i) \/ (v = j /\ i = j /\ where = "asking")
    BY <1>4 DEF Holds
  <2>2. \A i \in Recaps : /\ i # j => spool'[i] = spool[i]
                          /\ where = "over" => spool'[i] = spool[i]
    BY <1>3 DEF RecapInv, RecapTypeOK
  <2>3. \A i \in Recaps : spool'[i] \in {"waiting", "claimed"} => stored'[i]
    BY <1>1, <1>3 DEF RecapInv, OneHolder, RecapTypeOK
  <2>4. where = "asking" => spool'[j] = IF stored[j] THEN "claimed" ELSE "none"
    BY <1>1, <1>3 DEF RecapInv, WorkIsSound, RecapTypeOK
  <2>7. \A i \in Recaps : Fair(i)' => Fair(i)
    BY <1>1 DEF Fair
  <2>5. \A v \in Workers, i \in Recaps :
            /\ Holds(v, i)' /\ ~stored'[i] => v = i /\ spool'[i] = "none"
            /\ Holds(v, i)' /\ Fair(i)' /\ stored'[i] => spool'[i] = "claimed"
    BY <1>1, <1>3, <1>5, <2>1, <2>2, <2>4, <2>7 DEF RecapInv, OneHolder
  <2>6. \A u, v \in Workers, i \in Recaps :
            Holds(u, i)' /\ Holds(v, i)' /\ Fair(i)' => u = v
    BY <1>5, <2>1, <1>3, <2>7 DEF RecapInv, OneHolder
  <2> QED BY <2>3, <2>5, <2>6 DEF OneHolder
<1>11. HasBegun'
  <2>1. \A v \in Workers, i \in Recaps :
            Holds(v, i)' => Holds(v, i) \/ (v = j /\ i = j /\ where = "asking")
    BY <1>4 DEF Holds
  <2>2. \A i \in Recaps : work[i].at # "none" => work'[i].at # "none"
    BY <1>4 DEF Workers
  <2> QED BY <1>1, <2>1, <2>2 DEF RecapInv, HasBegun, Fair
<1>10. PostedBefore'
  <2>1. \A v \in Workers : work[v].at = "posted" => work'[v] = work[v]
    BY <1>1, <1>4
  <2>2. \A i \in Recaps : spool[i] = "gone" => spool'[i] = "gone"
    BY <1>3 DEF RecapInv, OneHolder, RecapTypeOK
  <2> QED BY <1>1, <2>1, <2>2, StaysPosted DEF RecapInv
<1> QED BY <1>6, <1>7, <1>8, <1>9, <1>10, <1>11 DEF RecapInv

\* A drain claims what it finds: whoever held one of these jobs is over, or it is
\* not what the drain may take.
LEMMA DrainClaimsKeeps ==
    ASSUME RecapInv, NEW d \in Drains, DrainClaims(d)
    PROVE  RecapInv'
<1>16. PICK old \in SUBSET Recaps : \E expired \in SUBSET Taken(old) :
         LET doomed == expired \cup {j \in Taken(old) : tries[j] >= MaxAttempts}
             mine == Taken(old) \ doomed
             wrested == {j \in Taken(old) : \E w \in DOMAIN work : Holds(w, j)}
         IN  /\ spool' = [j \in Recaps |-> IF j \in doomed THEN "gone"
                                           ELSE IF j \in mine THEN "claimed" ELSE spool[j]]
             /\ work' = [work EXCEPT ![d] =
                           [at |-> IF mine = {} THEN "over" ELSE "asking", todo |-> mine]]
             /\ aged' = IF StealsClaims THEN aged ELSE aged \cup wrested
             /\ robbed' = IF StealsClaims THEN robbed \cup wrested ELSE robbed
  BY DEF DrainClaims
<1>1. PICK doomed \in SUBSET Taken(old) :
         LET mine == Taken(old) \ doomed
             wrested == {j \in Taken(old) : \E w \in DOMAIN work : Holds(w, j)}
         IN  /\ spool' = [j \in Recaps |-> IF j \in doomed THEN "gone"
                                           ELSE IF j \in mine THEN "claimed" ELSE spool[j]]
             /\ work' = [work EXCEPT ![d] =
                           [at |-> IF mine = {} THEN "over" ELSE "asking", todo |-> mine]]
             /\ aged' = IF StealsClaims THEN aged ELSE aged \cup wrested
             /\ robbed' = IF StealsClaims THEN robbed \cup wrested ELSE robbed
  <2>1. \A expired \in SUBSET Taken(old) :
            expired \cup {j \in Taken(old) : tries[j] >= MaxAttempts} \in SUBSET Taken(old)
    OBVIOUS
  <2> QED BY <1>16, <2>1
<1> DEFINE T == Taken(old)
           mine == T \ doomed
           wrested == {j \in T : \E w \in Workers : Holds(w, j)}
<1>0. DOMAIN work = Workers
  BY DEF RecapInv, RecapTypeOK
<1>2. /\ work[d].at = "scheduled" /\ d \in Workers /\ d \notin Recaps
      /\ UNCHANGED <<stored, chatOpen, plugged, opening, unplugging, tracked, posts, excused, early>>
  BY RecapAssumption DEF DrainClaims, platform, Workers, RecapAssumption
<1>3. /\ T \subseteq Recaps
      /\ \A j \in T : spool[j] \in {"waiting", "claimed"} /\ stored[j] /\ work[j].at # "none"
  BY DEF Taken, RecapInv, OneHolder, WorkIsSound
<1>4. /\ work' \in [Workers -> [at : Places, todo : SUBSET Recaps]]
      /\ work'[d] = [at |-> IF mine = {} THEN "over" ELSE "asking", todo |-> mine]
      /\ \A v \in Workers : v # d => work'[v] = work[v]
  <2>1. mine \subseteq Recaps
    BY <1>3
  <2> HIDE DEF mine
  <2> QED BY <1>1, <1>2, <2>1 DEF RecapInv, RecapTypeOK, Places, mine
<1>5. \A j \in Recaps : /\ spool'[j] = IF j \in doomed THEN "gone"
                                        ELSE IF j \in mine THEN "claimed" ELSE spool[j]
  BY <1>1
<1>6. /\ aged' = IF StealsClaims THEN aged ELSE aged \cup wrested
      /\ robbed' = IF StealsClaims THEN robbed \cup wrested ELSE robbed
  BY <1>0, <1>1
<1>12. /\ \A j \in Recaps : ~Fair(j)' <=> ~Fair(j) \/ j \in wrested
       /\ aged \cup robbed \subseteq aged' \cup robbed'
  <2> HIDE DEF wrested, T
  <2>1. aged' \cup robbed' = aged \cup robbed \cup wrested
    BY <1>6
  <2> QED BY <2>1 DEF Fair
<1>13. \A v \in Workers, j \in T : Fair(j)' => ~Holds(v, j)
  <2> HIDE DEF T
  <2>1. \A v \in Workers, j \in T : Holds(v, j) => j \in wrested
    OBVIOUS
  <2>2. \A j \in T : j \in Recaps
    BY <1>3
  <2> HIDE DEF wrested
  <2> QED BY <1>12, <2>1, <2>2
<1>14. doomed \subseteq T /\ mine \subseteq T /\ wrested \subseteq T
  BY <1>1
<1> HIDE DEF mine, wrested, T
<1>7. RecapTypeOK'
  BY <1>2, <1>3, <1>4, <1>5, <1>1 DEF RecapInv, RecapTypeOK
<1>8. WorkIsSound'
  <2>1. \A j \in Recaps : work'[j] = work[j] /\ stored'[j] = stored[j] /\ posts'[j] = posts[j]
    BY <1>2, <1>4 DEF Workers
  <2>2. \A j \in Recaps : spool[j] = "none" => spool'[j] = "none"
    BY <1>3, <1>5, <1>14
  <2>3. \A w \in Workers : work'[w].at \in {"asking", "posting", "posted"} =>
            work'[w].todo # {}
    BY <1>4 DEF RecapInv, WorkIsSound
  <2> QED BY <2>1, <2>2, <2>3 DEF RecapInv, WorkIsSound
<1>15. HasBegun'
  <2>1. \A v \in Workers, j \in Recaps : Holds(v, j)' => Holds(v, j) \/ j \in mine
    BY <1>4 DEF Holds
  <2>2. \A j \in Recaps : work'[j] = work[j] /\ stored'[j] = stored[j]
    BY <1>2, <1>4 DEF Workers
  <2> QED BY <1>3, <1>12, <1>14, <2>1, <2>2 DEF RecapInv, HasBegun
<1>9. OneDrain'
  <2>1. \A v \in Workers : Busy(v)' => Busy(v)
    BY <1>2, <1>4 DEF Busy
  <2>2. ~early /\ StealsClaims => wrested = {}
    <3> SUFFICES ASSUME ~early, StealsClaims, NEW j \in T, NEW v \in Workers, Holds(v, j)
                 PROVE FALSE
      BY DEF wrested
    <3>1. Busy(v) /\ v \notin Recaps
      BY DEF Holds, Busy, StealsClaims
    <3>2. v = d
      BY <1>2, <3>1 DEF RecapInv, OneDrain, Busy, Workers
    <3> QED BY <1>2, <3>2 DEF Holds
  <2>3. ~early => robbed' = robbed
    BY <1>6, <2>2
  <2> QED BY <1>2, <2>1, <2>3 DEF RecapInv, OneDrain, Workers
<1>10. OneHolder'
  <2>1. \A v \in Workers, j \in Recaps :
            Holds(v, j)' => Holds(v, j) \/ (v = d /\ j \in mine)
    BY <1>4 DEF Holds
  <2>2. \A j \in Recaps : j \notin T => spool'[j] = spool[j]
    BY <1>5, <1>14
  <2>3. \A j \in mine : j \in T /\ spool'[j] = "claimed" /\ stored'[j]
    BY <1>2, <1>3, <1>5, <1>14 DEF mine
  <2>4. \A j \in Recaps : spool'[j] \in {"waiting", "claimed"} => stored'[j]
    BY <1>2, <1>3, <1>5, <1>14 DEF RecapInv, OneHolder
  <2>5. \A j \in Recaps : Fair(j)' => Fair(j)
    BY <1>12
  <2>6. \A v \in Workers, j \in Recaps : Holds(v, j)' /\ ~stored'[j] =>
            v = j /\ spool'[j] = "none"
    BY <1>2, <1>3, <2>1, <2>2, <2>3 DEF RecapInv, OneHolder
  <2>7. \A v \in Workers, j \in Recaps :
            Holds(v, j)' /\ Fair(j)' => (Holds(v, j) /\ j \notin T) \/ (v = d /\ j \in mine)
    BY <1>13, <2>1
  <2>8. \A v \in Workers, j \in Recaps :
            Holds(v, j)' /\ Fair(j)' /\ stored'[j] => spool'[j] = "claimed"
    BY <1>2, <2>2, <2>3, <2>5, <2>7 DEF RecapInv, OneHolder
  <2>9. \A u, v \in Workers, j \in Recaps : Holds(u, j)' /\ Holds(v, j)' /\ Fair(j)' => u = v
    BY <2>3, <2>5, <2>7 DEF RecapInv, OneHolder
  <2> QED BY <2>4, <2>6, <2>8, <2>9 DEF OneHolder
<1>11. PostedBefore'
  <2>1. \A v \in Workers : work[v].at = "posted" => work'[v] = work[v]
    BY <1>2, <1>4
  <2>2. \A i \in Recaps : spool[i] = "gone" => spool'[i] = "gone"
    BY <1>3, <1>5, <1>14
  <2> QED BY <1>2, <1>12, <2>1, <2>2, StaysPosted DEF RecapInv
<1> QED BY <1>7, <1>8, <1>9, <1>10, <1>11, <1>15 DEF RecapInv

\* The chat takes a recap: whoever posts it is the first to.
LEMMA ArrivesKeeps ==
    ASSUME RecapInv, NEW w \in Workers, Arrives(w)
    PROVE  RecapInv'
<1>0. PICK j \in Recaps : j = Job(w)
  BY FirstJob DEF RecapInv, Arrives
<1>1. work[w].at = "posting" /\ GoesOn(w, "posted")
      /\ posts' = [posts EXCEPT ![j] = @ + 1]
      /\ UNCHANGED <<spool, stored, chatOpen, plugged, opening, unplugging, tracked, excused,
                     aged, robbed, early>>
  BY <1>0 DEF Arrives, files, platform
<1>2. j \in work[w].todo /\ Holds(w, j)
  BY <1>0, <1>1, FirstJob DEF RecapInv
<1>3. /\ work' \in [Workers -> [at : Places, todo : SUBSET Recaps]]
      /\ work'[w].at = "posted" /\ work'[w].todo = work[w].todo
      /\ \A v \in Workers : v # w => work'[v] = work[v]
  BY <1>1, Moved DEF RecapInv, Places
<1>4. /\ work[j].at # "none"
      /\ Fair(j) => spool[j] # "gone" /\ \A v \in Workers : Holds(v, j) => v = w
  BY <1>2, HeldIsOpen
<1>5. Job(w)' = j
  BY <1>0, <1>3 DEF Job
<1>6. Fair(j) => ~Posted(j)
  <2> SUFFICES ASSUME Fair(j), NEW v \in Workers, work[v].at = "posted", Job(v) = j PROVE FALSE
    BY <1>4 DEF Posted
  <2>1. Holds(v, j)
    BY FirstJob DEF RecapInv
  <2> QED BY <1>1, <1>4, <2>1
<1>7. /\ posts' \in [Recaps -> Nat] /\ posts'[j] = posts[j] + 1
      /\ \A i \in Recaps : i # j => posts'[i] = posts[i]
  BY <1>1, <1>2 DEF RecapInv, RecapTypeOK
<1>8. RecapTypeOK'
  BY <1>1, <1>3, <1>7 DEF RecapInv, RecapTypeOK
<1>9. WorkIsSound'
  <2>1. work[w].todo # {} /\ w \in Workers
    BY <1>2
  <2>2. \A i \in Recaps : work'[i].todo = work[i].todo /\ i \in Workers
    BY <1>3 DEF Workers
  <2>3. \A i \in Recaps : work'[i].at \in {"scheduled", "none"} => work'[i] = work[i] /\ i # w
    BY <1>3, <2>2
  <2>4. \A i \in Recaps : work'[i].at = "none" => posts'[i] = posts[i]
    BY <1>4, <1>7, <2>3
  <2> QED BY <1>1, <1>3, <2>1, <2>2, <2>3, <2>4 DEF RecapInv, WorkIsSound
<1>10. OneDrain'
  BY <1>1, <1>3 DEF RecapInv, OneDrain, Busy, Workers
<1>11. OneHolder'
  <2>1. \A v \in Workers, i \in Recaps : Holds(v, i)' => Holds(v, i)
    BY <1>1, <1>3 DEF Holds
  <2> QED BY <1>1, <2>1 DEF RecapInv, OneHolder, Fair
<1>13. HasBegun'
  <2>1. \A v \in Workers, i \in Recaps : Holds(v, i)' => Holds(v, i)
    BY <1>1, <1>3 DEF Holds
  <2>2. \A i \in Recaps : work[i].at # "none" => work'[i].at # "none"
    BY <1>3 DEF Workers
  <2> QED BY <1>1, <2>1, <2>2 DEF RecapInv, HasBegun, Fair
<1>12. PostedBefore'
  <2> SUFFICES ASSUME NEW i \in Recaps, Fair(i)
               PROVE  \/ posts'[i] <= excused'[i]
                      \/ posts'[i] <= 1 + excused'[i] /\ Posted(i)'
    BY <1>1 DEF PostedBefore, Fair
  <2>1. CASE i = j
    <3>1. posts[j] <= excused[j]
      BY <1>2, <1>6, <2>1 DEF RecapInv, PostedBefore
    <3>2. Posted(j)'
      BY <1>3, <1>5 DEF Posted
    <3>3. posts[j] \in Nat /\ excused[j] \in Nat
      BY <1>2 DEF RecapInv, RecapTypeOK
    <3> QED BY <1>1, <1>7, <2>1, <3>1, <3>2, <3>3
  <2>2. CASE i # j
    <3>1. Posted(i) => Posted(i)'
      <4>1. \A v \in Workers : work[v].at = "posted" => work'[v] = work[v]
        BY <1>1, <1>3
      <4> QED BY <1>1, <4>1 DEF Posted, Job
    <3> QED BY <1>1, <1>7, <2>2, <3>1 DEF RecapInv, PostedBefore
  <2> QED BY <2>1, <2>2
<1> QED BY <1>8, <1>9, <1>10, <1>11, <1>12, <1>13 DEF RecapInv

\* A job is done with: its file is gone, or waits for the next drain, or never was.
LEMMA JobDoneKeeps ==
    ASSUME RecapInv, NEW w \in Workers, work[w].at \in {"asking", "posting", "posted"},
           NextJob(w),
           NEW end \in {"none", "waiting", "gone"},
           spool' = [spool EXCEPT ![Job(w)] = end],
           end = "waiting" <=> (stored[Job(w)] /\ end # "gone"),
           excused' = [excused EXCEPT ![Job(w)] =
                         IF work[w].at = "posted" /\ end # "gone" THEN @ + 1 ELSE @],
           UNCHANGED <<stored, posts, aged, robbed, early, chatOpen, plugged, opening,
                       unplugging, tracked>>
    PROVE  RecapInv'
<1>0. PICK j \in Recaps : j = Job(w) /\ Holds(w, j)
  BY FirstJob DEF RecapInv
<1>1. /\ work' \in [Workers -> [at : Places, todo : SUBSET Recaps]]
      /\ work'[w].todo = work[w].todo \ {j}
      /\ work'[w].at = IF work'[w].todo = {} THEN "over" ELSE "asking"
      /\ \A v \in Workers : v # w => work'[v] = work[v]
  BY <1>0 DEF NextJob, RecapInv, RecapTypeOK, Places
<1>2. /\ spool' \in [Recaps -> {"none", "waiting", "claimed", "gone"}] /\ spool'[j] = end
      /\ \A i \in Recaps : i # j => spool'[i] = spool[i]
  BY <1>0 DEF RecapInv, RecapTypeOK
<1>3. /\ work[j].at # "none" /\ (~stored[j] => w = j /\ spool[j] = "none")
      /\ Fair(j) => spool[j] # "gone" /\ \A v \in Workers : Holds(v, j) => v = w
  BY <1>0, HeldIsOpen
<1>9. /\ excused' \in [Recaps -> Nat] /\ \A i \in Recaps : i # j => excused'[i] = excused[i]
      /\ excused'[j] = IF work[w].at = "posted" /\ end # "gone" THEN excused[j] + 1
                       ELSE excused[j]
  BY <1>0 DEF RecapInv, RecapTypeOK
<1>4. RecapTypeOK'
  BY <1>1, <1>2, <1>9 DEF RecapInv, RecapTypeOK
<1>5. WorkIsSound'
  <2>1. \A i \in Recaps : /\ i \in Workers /\ work'[i].todo \subseteq work[i].todo
                          /\ work'[i].at \in {"scheduled", "none"} => work'[i] = work[i]
    BY <1>1 DEF Workers
  <2>2. \A i \in Recaps : work'[i].at = "none" => i # j
    BY <1>3, <2>1
  <2>3. \A i \in Recaps : work'[i].at = "scheduled" /\ i = j => stored[i] \/ spool'[i] = "none"
    BY <1>0, <1>1, <1>3, <2>1 DEF RecapInv, OneHolder, Workers
  <2>4. \A v \in Workers : work'[v].at \in {"asking", "posting", "posted"} =>
            work'[v].todo # {}
    BY <1>1 DEF RecapInv, WorkIsSound
  <2>5. \A i \in Recaps : work'[i].at = "none" =>
            work'[i] = Idle /\ spool'[i] = "none" /\ posts'[i] = 0
    BY <1>2, <2>1, <2>2 DEF RecapInv, WorkIsSound
  <2>6. \A i \in Recaps : work'[i].at = "scheduled" =>
            work'[i].todo = {i} /\ (stored'[i] \/ spool'[i] = "none")
    BY <1>2, <2>1, <2>3 DEF RecapInv, WorkIsSound
  <2> QED BY <2>1, <2>4, <2>5, <2>6 DEF RecapInv, WorkIsSound
<1>6. OneDrain'
  BY <1>0, <1>1 DEF RecapInv, OneDrain, Busy, Holds, Workers
<1>7. OneHolder'
  <2>1. /\ \A v \in Workers, i \in Recaps : Holds(v, i)' => Holds(v, i)
        /\ \A v \in Workers : Holds(v, j)' => v # w /\ ~Fair(j) /\ stored[j]
    BY <1>0, <1>1, <1>3, HeldIsOpen DEF Holds
  <2>2. end \in {"waiting", "claimed"} => stored[j]
    BY <1>0
  <2> QED BY <1>2, <2>1, <2>2 DEF RecapInv, OneHolder, Fair
<1>10. HasBegun'
  <2>1. \A v \in Workers, i \in Recaps : Holds(v, i)' => Holds(v, i)
    BY <1>1 DEF Holds
  <2>2. \A i \in Recaps : work[i].at # "none" => work'[i].at # "none"
    BY <1>1 DEF Workers
  <2> QED BY <2>1, <2>2 DEF RecapInv, HasBegun, Fair
<1>8. PostedBefore'
  <2> SUFFICES ASSUME NEW i \in Recaps, Fair(i)
               PROVE  \/ posts[i] <= excused'[i]
                      \/ posts[i] <= 1 + excused'[i] /\ Posted(i)'
    BY DEF PostedBefore, Fair
  <2>1. \A v \in Workers : work[v].at = "posted" =>
            work'[v] = work[v] \/ (v = w /\ Job(v) = j)
    BY <1>0, <1>1, <1>2
  <2>3. posts[i] \in Nat /\ excused[i] \in Nat
    BY DEF RecapInv, RecapTypeOK
  <2>4. CASE i # j
    <3>1. Posted(i) => Posted(i)'
      <4>1. ASSUME NEW v \in Workers, work[v].at = "posted", Job(v) = i
            PROVE  work'[v].at = "posted" /\ Job(v)' = i
        <5>1. work'[v] = work[v]
          BY <2>1, <2>4, <4>1
        <5> QED BY <4>1, <5>1 DEF Job
      <4> QED BY <1>2, <2>4, <4>1 DEF Posted
    <3> QED BY <1>9, <2>4, <3>1 DEF RecapInv, PostedBefore
  <2>5. CASE i = j /\ end = "gone"
    BY <1>2, <1>9, <2>3, <2>5 DEF RecapInv, PostedBefore, Posted
  <2>6. CASE i = j /\ end # "gone" /\ work[w].at = "posted"
    BY <1>9, <2>3, <2>6 DEF RecapInv, PostedBefore
  <2>7. CASE i = j /\ end # "gone" /\ work[w].at # "posted"
    <3>1. ~Posted(j)
      <4> SUFFICES ASSUME NEW v \in Workers, work[v].at = "posted", Job(v) = j PROVE FALSE
        BY <1>3, <2>7 DEF Posted
      <4>1. Holds(v, j)
        BY FirstJob DEF RecapInv
      <4> QED BY <1>3, <2>7, <4>1
    <3> QED BY <1>9, <2>3, <2>7, <3>1 DEF RecapInv, PostedBefore
  <2> QED BY <2>4, <2>5, <2>6, <2>7
<1> QED BY <1>4, <1>5, <1>6, <1>7, <1>8, <1>10 DEF RecapInv

\* Somebody is stopped.  Who was between the post and the removal is excused.
LEMMA StopsKeep ==
    ASSUME RecapInv, NEW ws \in SUBSET Workers, Stops(ws),
           UNCHANGED <<spool, stored, posts, aged, robbed, early>>,
           chatOpen' \in BOOLEAN, plugged' = FALSE, unplugging' = FALSE,
           opening' \in BOOLEAN, ~early => ~opening',
           tracked' = {}, tracked \subseteq ws
    PROVE  RecapInv'
<1> DEFINE Cut(j) == {w \in ws : work[w].at = "posted" /\ Job(w) = j}
<1>1. /\ work' \in [Workers -> [at : Places, todo : SUBSET Recaps]]
      /\ \A v \in Workers : /\ work'[v].todo = work[v].todo
                            /\ work'[v].at = work[v].at \/ (work'[v].at = "over" /\ Busy(v))
                            /\ v \notin ws \/ ~Busy(v) => work'[v] = work[v]
                            /\ v \in ws => ~Busy(v)'
  <2>1. DOMAIN work = Workers
    BY DEF RecapInv, RecapTypeOK
  <2>2. \A v \in Workers : work'[v] = IF v \in ws /\ Busy(v)
                                        THEN [work[v] EXCEPT !.at = "over"] ELSE work[v]
    BY <2>1 DEF Stops
  <2>3. work' = [v \in Workers |-> work'[v]]
    BY <2>1 DEF Stops
  <2>4. \A v \in Workers : work[v] \in [at : Places, todo : SUBSET Recaps]
    BY DEF RecapInv, RecapTypeOK
  <2>5. \A v \in Workers : work'[v] \in [at : Places, todo : SUBSET Recaps]
    BY <2>2, <2>4 DEF Places
  <2>6. work' \in [Workers -> [at : Places, todo : SUBSET Recaps]]
    BY <2>3, <2>5
  <2> QED BY <2>2, <2>4, <2>6 DEF Busy
<1>2. IsFiniteSet(ws)
  <2>1. IsFiniteSet(Workers)
    BY RecapAssumption, FS_Union DEF RecapAssumption, Workers
  <2> QED BY <2>1, FS_Subset
<1>3. \A j \in Recaps : IsFiniteSet(Cut(j)) /\ Cardinality(Cut(j)) \in Nat
  BY <1>2, FS_Subset, FS_CardinalityType
<1>4. \A j \in Recaps : excused'[j] = excused[j] + Cardinality(Cut(j))
  BY DEF Stops
<1>5. excused' \in [Recaps -> Nat]
  <2>1. excused' = [j \in Recaps |-> excused'[j]]
    BY DEF Stops
  <2> HIDE DEF Cut
  <2>2. \A j \in Recaps : excused'[j] \in Nat
    BY <1>3, <1>4 DEF RecapInv, RecapTypeOK
  <2> QED BY <2>1, <2>2
<1>6. RecapTypeOK'
  BY <1>1, <1>5 DEF RecapInv, RecapTypeOK
<1>7. WorkIsSound'
  <2>1. \A i \in Recaps : i \in Workers /\ work'[i].todo = work[i].todo
    BY <1>1 DEF Workers
  <2>2. \A i \in Recaps : work'[i].at \in {"scheduled", "none"} => work'[i].at = work[i].at
    BY <1>1, <2>1
  <2>3. \A i \in Recaps : work'[i].at = "none" => work'[i] = work[i]
    BY <1>1, <2>1, <2>2 DEF Busy
  <2>4. \A v \in Workers : work'[v].at \in {"asking", "posting", "posted"} =>
            work'[v].todo # {}
    BY <1>1 DEF RecapInv, WorkIsSound
  <2> QED BY <2>1, <2>2, <2>3, <2>4 DEF RecapInv, WorkIsSound
<1>8. OneDrain'
  <2> SUFFICES ASSUME ~early PROVE OneDrain'
    BY DEF OneDrain
  <2>1. \A d \in Drains : ~Busy(d)'
    <3> TAKE d \in Drains
    <3>1. d \in Workers
      BY DEF Workers
    <3>2. CASE d \in ws
      BY <1>1, <3>1, <3>2
    <3>3. CASE d \notin ws
      <4>1. ~Busy(d)
        BY <3>3 DEF RecapInv, OneDrain
      <4> QED BY <1>1, <3>1, <3>3, <4>1 DEF Busy
    <3> QED BY <3>2, <3>3
  <2> QED BY <2>1 DEF RecapInv, OneDrain
<1>9. OneHolder'
  <2>1. \A v \in Workers, i \in Recaps : Holds(v, i)' => Holds(v, i)
    BY <1>1 DEF Holds
  <2> QED BY <2>1 DEF RecapInv, OneHolder, Fair
<1>11. HasBegun'
  <2>1. \A v \in Workers, i \in Recaps : Holds(v, i)' => Holds(v, i)
    BY <1>1 DEF Holds
  <2>2. \A i \in Recaps : work[i].at # "none" => work'[i].at # "none"
    BY <1>1 DEF Workers
  <2> QED BY <2>1, <2>2 DEF RecapInv, HasBegun, Fair
<1>10. PostedBefore'
  <2> SUFFICES ASSUME NEW j \in Recaps, Fair(j)
               PROVE  \/ posts[j] <= excused'[j]
                      \/ posts[j] <= 1 + excused'[j] /\ Posted(j)'
    BY DEF PostedBefore, Fair
  <2> HIDE DEF Cut
  <2>1. posts[j] \in Nat /\ excused[j] \in Nat /\ excused'[j] >= excused[j]
        /\ excused'[j] \in Nat
    BY <1>3, <1>4 DEF RecapInv, RecapTypeOK
  <2>2. CASE Cut(j) # {}
    <3>1. Cardinality(Cut(j)) # 0
      BY <1>3, <2>2, FS_EmptySet
    <3>2. excused'[j] >= excused[j] + 1
      BY <1>3, <1>4, <2>1, <3>1
    <3> QED BY <2>1, <3>2 DEF RecapInv, PostedBefore
  <2>3. CASE Cut(j) = {}
    <3>1. Posted(j) => Posted(j)'
      <4>1. \A v \in Workers : work[v].at = "posted" /\ Job(v) = j => work'[v] = work[v]
        BY <1>1, <2>3 DEF Cut
      <4> QED BY <4>1 DEF Posted, Job
    <3> QED BY <2>1, <3>1, <1>5 DEF RecapInv, PostedBefore, RecapTypeOK
  <2> QED BY <2>2, <2>3
<1> QED BY <1>6, <1>7, <1>8, <1>9, <1>10, <1>11 DEF RecapInv

\* The lane comes up, with a new drain; the one before it, if any, is stopped.
LEMMA LaneOpensKeeps ==
    ASSUME RecapInv, LaneOpens
    PROVE  RecapInv'
<1>1. PICK d \in Drains : /\ work[d] = Idle /\ GoesOn(d, "scheduled")
                          /\ tracked' = tracked \cup {d}
  BY DEF LaneOpens
<1>2. /\ opening /\ opening' = FALSE /\ (~early => plugged /\ ~unplugging) /\ chatOpen' = TRUE
      /\ d \in Workers /\ d \notin Recaps
      /\ UNCHANGED <<spool, stored, posts, excused, plugged, unplugging, aged, robbed, early>>
  BY RecapAssumption
     DEF LaneOpens, files, history, RecapInv, OneDrain, RecapTypeOK, Workers, RecapAssumption
<1>3. /\ work' \in [Workers -> [at : Places, todo : SUBSET Recaps]]
      /\ work'[d].at = "scheduled"
      /\ \A v \in Workers : v # d => work'[v] = work[v]
  BY <1>1, <1>2, Moved DEF RecapInv, Places
<1>4. RecapTypeOK'
  BY <1>1, <1>2, <1>3 DEF RecapInv, RecapTypeOK
<1>5. WorkIsSound'
  <2>1. \A i \in Recaps : work'[i] = work[i]
    BY <1>2, <1>3 DEF Workers
  <2> QED BY <1>2, <1>3, <2>1 DEF RecapInv, WorkIsSound
<1>6. OneDrain'
  <2>1. \A e \in Drains : e # d /\ ~early => ~Busy(e)'
    BY <1>2, <1>3 DEF RecapInv, OneDrain, Busy, Workers
  <2> QED BY <1>1, <1>2, <2>1 DEF RecapInv, OneDrain
<1>7. OneHolder'
  <2>1. \A v \in Workers, i \in Recaps : Holds(v, i)' => Holds(v, i)
    BY <1>3 DEF Holds
  <2> QED BY <1>2, <2>1 DEF RecapInv, OneHolder, Fair
<1>9. HasBegun'
  <2>1. \A v \in Workers, i \in Recaps : Holds(v, i)' => Holds(v, i)
    BY <1>3 DEF Holds
  <2>2. \A i \in Recaps : work[i].at # "none" => work'[i].at # "none"
    BY <1>2, <1>3 DEF Workers
  <2> QED BY <1>2, <2>1, <2>2 DEF RecapInv, HasBegun, Fair
<1>8. PostedBefore'
  <2>1. \A v \in Workers : work[v].at = "posted" => work'[v] = work[v]
    BY <1>1, <1>3 DEF Idle
  <2> QED BY <1>2, <2>1, StaysPosted DEF RecapInv
<1> QED BY <1>4, <1>5, <1>6, <1>7, <1>8, <1>9 DEF RecapInv

\* The platform connects, fails to, or begins to go: nobody's work changes.
LEMMA PlatformKeeps ==
    ASSUME RecapInv, Connect \/ LaneFails \/ Disconnect
    PROVE  RecapInv'
<1>0. early' = early \/ (Disconnect /\ early' = (early \/ opening))
  BY Zenon DEF Connect, LaneFails, Disconnect, history
<1>1. /\ UNCHANGED <<spool, stored, work, posts, excused, tracked, aged, robbed>>
      /\ ~early' => ~early
      /\ early' \in BOOLEAN
  <2>1. UNCHANGED <<spool, stored, work, posts, excused, tracked, aged, robbed>>
    BY DEF Connect, LaneFails, Disconnect, files, history
  <2>2. ~early' => ~early
    BY <1>0, Zenon
  <2>3. early' \in BOOLEAN
    BY <1>0 DEF RecapInv, RecapTypeOK
  <2> QED BY <2>1, <2>2, <2>3
<1>2. RecapTypeOK'
  BY <1>1 DEF RecapInv, RecapTypeOK, Connect, LaneFails, Disconnect
<1>3. WorkIsSound' /\ OneHolder' /\ HasBegun'
  BY <1>1 DEF RecapInv, WorkIsSound, OneHolder, HasBegun, Holds, Fair
<1>4. OneDrain'
  BY <1>1 DEF RecapInv, RecapTypeOK, OneDrain, Busy, Connect, LaneFails, Disconnect
<1>5. PostedBefore'
  BY <1>1, StaysPosted DEF RecapInv
<1> QED BY <1>2, <1>3, <1>4, <1>5 DEF RecapInv

\* The same minutes are not posted twice, for any number of recaps, failures, reloads
\* and deaths, but for the three ways the property names: a post that arrived though
\* its sender never learnt it, a claim taken for its age from an owner still at work,
\* and, only once a disconnect has cut into a connect, a claim a second drain took
\* from the first (RecapJobs.begin, claim_pending, finish).
THEOREM NoMinutesTwice == RecapSpec => []MinutesPostedOnce
<1>1. RecapInit => RecapInv
  <2> SUFFICES ASSUME RecapInit PROVE RecapInv
    OBVIOUS
  <2>1. /\ work = [w \in Workers |-> Idle] /\ Idle \in [at : Places, todo : SUBSET Recaps]
        /\ \A w \in Workers : work[w] = Idle /\ Idle.at = "none" /\ Idle.todo = {}
    BY DEF RecapInit, Workers, Idle, Places
  <2>2. RecapTypeOK
    BY <2>1 DEF RecapInit, RecapTypeOK
  <2>3. WorkIsSound /\ OneHolder /\ HasBegun
    BY <2>1 DEF RecapInit, WorkIsSound, OneHolder, HasBegun, Holds, Fair, Workers
  <2>4. OneDrain /\ PostedBefore
    BY <2>1 DEF RecapInit, OneDrain, PostedBefore, Busy, Workers
  <2> QED BY <2>2, <2>3, <2>4 DEF RecapInv
<1>2. RecapInv /\ [RecapNext]_recapVars => RecapInv'
  <2> SUFFICES ASSUME RecapInv, [RecapNext]_recapVars PROVE RecapInv'
    OBVIOUS
  <2>1. ASSUME NEW j \in Recaps, Schedule(j) \/ BeginRecap(j) PROVE RecapInv'
    BY <2>1, ScheduleKeeps, BeginKeeps
  <2>2. ASSUME NEW d \in Drains, DrainClaims(d) PROVE RecapInv'
    BY <2>2, DrainClaimsKeeps
  <2>3. ASSUME NEW d \in Drains, DrainSkipped(d) PROVE RecapInv'
    BY <2>3, StepsKeep DEF DrainSkipped, Places, files, platform, Workers, Busy
  <2>4. ASSUME NEW w \in Workers, Asked(w) PROVE RecapInv'
    BY <2>4, StepsKeep, FirstJob DEF Asked, Places, files, platform, Busy, RecapInv
  <2>5. ASSUME NEW w \in Workers, Arrives(w) PROVE RecapInv'
    BY <2>5, ArrivesKeeps
  <2>6. ASSUME NEW w \in Workers, RecapFails(w) PROVE RecapInv'
    <3>1. Job(w) \in Recaps /\ Holds(w, Job(w))
      BY <2>6, FirstJob DEF RecapFails, RecapInv
    <3>2. ~stored[Job(w)] => spool[Job(w)] = "none"
      BY <3>1 DEF RecapInv, OneHolder
    <3>3. PICK end \in {"none", "waiting"} :
            spool' = [spool EXCEPT ![Job(w)] = end] /\ (end = "waiting" <=> stored[Job(w)])
      BY <2>6, <3>1, <3>2 DEF RecapFails, PutsBack, RecapInv, RecapTypeOK
    <3> QED BY <2>6, <3>3, JobDoneKeeps DEF RecapFails, platform
  <2>7. ASSUME NEW w \in Workers, RecapFinishes(w) PROVE RecapInv'
    <3>1. Job(w) \in Recaps
      BY <2>7, FirstJob DEF RecapFinishes, RecapInv
    <3>2. excused' = excused /\ excused = [excused EXCEPT ![Job(w)] = @]
      BY <2>7, <3>1 DEF RecapFinishes, history, RecapInv, RecapTypeOK
    <3> QED BY <2>7, <3>2, JobDoneKeeps DEF RecapFinishes, platform, history
  <2>8. CASE Connect \/ LaneFails \/ Disconnect
    BY <2>8, PlatformKeeps
  <2>9. CASE LaneOpens
    BY <2>9, LaneOpensKeeps
  <2>10. CASE Disconnected
    <3>1. tracked \subseteq Workers /\ (~early => ~opening)
      BY <2>10 DEF Disconnected, RecapInv, RecapTypeOK, OneDrain, Workers
    <3> QED BY <2>10, <3>1, StopsKeep DEF Disconnected, files, RecapInv, RecapTypeOK
  <2>11. CASE Crash
    <3>1. DOMAIN work = Workers /\ tracked \subseteq Workers
      BY DEF RecapInv, RecapTypeOK, Workers
    <3> QED BY <2>11, <3>1, StopsKeep DEF Crash, files
  <2>12. CASE UNCHANGED recapVars
    <3>1. UNCHANGED <<spool, stored, work, posts, excused, chatOpen, plugged, opening,
                      unplugging, tracked, aged, robbed, early>>
      BY <2>12 DEF recapVars, history
    <3> QED BY <3>1 DEF RecapInv, RecapTypeOK, WorkIsSound, HasBegun, OneDrain, OneHolder,
                        PostedBefore, Holds, Busy, Posted, Job, Fair
  <2> QED BY <2>1, <2>2, <2>3, <2>4, <2>5, <2>6, <2>7, <2>8, <2>9, <2>10, <2>11, <2>12
          DEF RecapNext, Workers
<1>3. RecapInv => MinutesPostedOnce
  <2> SUFFICES ASSUME RecapInv, NEW j \in Recaps, j \notin aged, ~early \/ j \notin robbed
               PROVE  posts[j] <= 1 + excused[j]
    BY DEF MinutesPostedOnce
  <2>1. Fair(j)
    BY DEF RecapInv, OneDrain, Fair
  <2> QED BY <2>1 DEF RecapInv, RecapTypeOK, PostedBefore
<1> QED BY <1>1, <1>2, <1>3, PTL DEF RecapSpec


(***************************************************************************)
(* The slow work of a call: the consultation somebody waits for, and the   *)
(* promises that outlive the call (consult.py).                            *)
(***************************************************************************)
\* NoAgentServesTwo does not say which askers still run in a thread that was
\* given up, and so is not inductive.  Two facts make it so: a thread belongs to
\* an asker built before, so that a fresh one has none; and while somebody may still
\* ask, the asker that is kept is idle, the one being waited for, or the one that the
\* end of the call cut short.
ConsultInv ==
    /\ built \in Nat
    /\ asker \in 0..built
    /\ asked \in 0..built
    /\ threads \subseteq 1..built
    /\ consultFor # "nobody" /\ asked = 0 /\ asker # 0 =>
           asker \notin threads \/ (asker = cutShort /\ consultFor = "recap")
    /\ consultFor = "call" => cutShort = 0
    /\ NoAgentServesTwo

\* The invariant holds at the start and is kept by every question, answer,
\* time-out and hang-up (Consultant.ask).
THEOREM ConsultInvariant == ConsultSpec => []ConsultInv
<1>1. ConsultInit => ConsultInv
  BY DEF ConsultInit, ConsultInv, NoAgentServesTwo
<1>2. ConsultInv /\ [ConsultNext]_consultVars => ConsultInv'
  <2> SUFFICES ASSUME ConsultInv, [ConsultNext]_consultVars PROVE ConsultInv'
    OBVIOUS
  <2> USE DEF ConsultInv, NoAgentServesTwo
  <2>1. CASE CallAsks \/ RecapAsks
    <3>1. /\ consultBusy' = TRUE /\ cutShort' = cutShort /\ asked = 0
          /\ consultFor' = "call" \/ consultFor' = "nobody"
          /\ consultFor' = "call" => consultFor = "call"
      BY <2>1 DEF CallAsks, RecapAsks, Ask
    <3>2. asker # 0 => asker \notin threads \/ asker = cutShort
      BY <2>1, <3>1 DEF CallAsks, RecapAsks
    <3>3. CASE asker # 0 /\ PutTo(asker) /\ UNCHANGED built
      <4>1. asker' = asker /\ asked' = asker /\ threads' = threads \cup {asker}
            /\ built' = built
        BY <3>3 DEF PutTo
      <4>2. ~shared'
        BY <3>2, <3>3 DEF PutTo
      <4> QED BY <3>1, <3>3, <4>1, <4>2
    <3>4. CASE asker = 0 /\ built' = built + 1 /\ PutTo(built + 1)
      <4>1. built + 1 \notin threads
        OBVIOUS
      <4>2. asker' = built' /\ asked' = built' /\ threads' = threads \cup {built'}
            /\ built' = built + 1
        BY <3>4 DEF PutTo
      <4>3. ~shared'
        BY <3>4, <4>1 DEF PutTo
      <4> QED BY <3>1, <4>2, <4>3
    <3> QED BY <2>1, <3>3, <3>4 DEF CallAsks, RecapAsks, Ask
  <2>2. CASE Consulted
    BY <2>2 DEF Consulted
  <2>3. CASE ConsultTimesOut
    BY <2>3 DEF ConsultTimesOut, DropsAsker
  <2>4. CASE ConsultCancelled
    BY <2>4 DEF ConsultCancelled
  <2>5. CASE \E a \in 1..MaxAskers : AbandonedReturns(a)
    BY <2>5 DEF AbandonedReturns
  <2>6. CASE UNCHANGED consultVars
    BY <2>6 DEF consultVars
  <2> QED BY <2>1, <2>2, <2>3, <2>4, <2>5, <2>6 DEF ConsultNext
<1> QED BY <1>1, <1>2, PTL DEF ConsultSpec

\* Whatever times out and however often, no agent is given a question while it
\* still works on one that timed out ("rather than sharing state with something nobody
\* is waiting for any more", consult.py); the one that the end of the call cut short
\* may be, by the recap.
THEOREM AgentsAreNotShared == ConsultSpec => []NoAgentServesTwo
<1>1. ConsultInv => NoAgentServesTwo
  BY DEF ConsultInv
<1> QED BY <1>1, ConsultInvariant, PTL

-----------------------------------------------------------------------------
Phases == {"none", "json", "claimed", "gone"}

KeptInv ==
    /\ file \in [Tasks -> Phases]
    /\ PromisesAreKept

\* Any number of workers may share the directory, crash and come back: the file
\* of a promise goes only with its result, or when it is of no use any more.
THEOREM PromisesKept == TasksSpec => []PromisesAreKept
<1>1. TasksInit => KeptInv
  BY DEF TasksInit, KeptInv, Phases, PromisesAreKept
<1>2. KeptInv /\ [TasksNext]_taskVars => KeptInv'
  <2> SUFFICES ASSUME KeptInv, [TasksNext]_taskVars PROVE KeptInv'
    OBVIOUS
  <2> USE DEF KeptInv, Phases, PromisesAreKept
  <2>1. ASSUME NEW p \in Processes, NEW t \in Tasks, Promise(p, t) \/ Begin(p, t)
        PROVE KeptInv'
    BY <2>1 DEF Promise, Begin, Moves
  <2>2. ASSUME NEW p \in Processes, ResumeStarts(p) PROVE KeptInv'
    BY <2>2 DEF ResumeStarts, ClaimPending
  <2>3. ASSUME NEW p \in Processes, Delivers(p) PROVE KeptInv'
    BY <2>3 DEF Delivers, Moves
  <2>4. ASSUME NEW p \in Processes, DeliveryRefused(p) PROVE KeptInv'
    BY <2>4 DEF DeliveryRefused, PutBack, Moves
  <2>5. ASSUME NEW p \in Processes, Dies(p) \/ ComesBack(p) PROVE KeptInv'
    BY <2>5 DEF Dies, ComesBack
  <2>6. ASSUME NEW t \in Tasks, Ages(t) PROVE KeptInv'
    BY <2>6 DEF Ages
  <2>7. CASE UNCHANGED taskVars
    BY <2>7 DEF taskVars
  <2> QED BY <2>1, <2>2, <2>3, <2>4, <2>5, <2>6, <2>7 DEF TasksNext
<1>3. KeptInv => PromisesAreKept
  BY DEF KeptInv
<1> QED BY <1>1, <1>2, <1>3, PTL DEF TasksSpec

(***************************************************************************)
(* The write-up of a meeting.                                              *)
(***************************************************************************)
KeptEntries == [who : Speakers, words : Seq(Nat)]

LastIn(e) == e.words[Len(e.words)]

\* An entry notes consecutive fragments, its speaker's own.
WellNoted(e, said) ==
    /\ e.words # <<>>
    /\ \A k \in 1..Len(e.words) : e.words[k] \in 1..Len(said) /\ said[e.words[k]] = e.who
    /\ \A k \in 1..(Len(e.words) - 1) : e.words[k + 1] = e.words[k] + 1

\* AttributedRightly, said of any entries: what follows it is that entries may be
\* taken off the front and put on at the end.
WellKept(es, said) ==
    /\ es \in Seq(KeptEntries)
    /\ \A i \in 1..Len(es) : WellNoted(es[i], said)
    /\ \A i \in 1..(Len(es) - 1) : es[i + 1].words[1] = LastIn(es[i]) + 1
    /\ IF es = <<>> THEN said = <<>> ELSE LastIn(es[Len(es)]) = Len(said)

\* A transcript that is faithful to what was said so far stays so when more is said.
LEMMA StillNoted ==
    ASSUME NEW e \in KeptEntries, NEW said \in Seq(Speakers), NEW who \in Speakers, WellNoted(e, said)
    PROVE  WellNoted(e, Append(said, who))
<1>1. PICK n \in Nat : n = Len(said)
  OBVIOUS
<1>2. PICK longer : longer = Append(said, who)
  OBVIOUS
<1>3. Len(longer) = n + 1 /\ \A k \in 1..n : longer[k] = said[k] /\ k \in 1..(n + 1)
  BY <1>1, <1>2
<1>4. \A k \in 1..Len(e.words) : e.words[k] \in 1..Len(longer) /\ longer[e.words[k]] = e.who
  BY <1>1, <1>3 DEF WellNoted
<1> QED BY <1>2, <1>4 DEF WellNoted

\* A fragment by the speaker of the last entry goes behind its others.
LEMMA NotedOn ==
    ASSUME NEW e \in KeptEntries, NEW said \in Seq(Speakers), WellNoted(e, said),
           LastIn(e) = Len(said), NEW on \in KeptEntries, on.who = e.who,
           on.words = Append(e.words, Len(said) + 1)
    PROVE  /\ WellNoted(on, Append(said, e.who))
           /\ on.words[1] = e.words[1] /\ LastIn(on) = Len(said) + 1
<1>1. PICK n \in Nat : n = Len(said)
  OBVIOUS
<1>2. PICK longer : longer = Append(said, e.who)
  OBVIOUS
<1>3. Len(longer) = n + 1 /\ longer[n + 1] = e.who /\ \A k \in 1..n : longer[k] = said[k] /\ k \in 1..(n + 1)
  BY <1>1, <1>2 DEF KeptEntries
<1>4. PICK ws \in Seq(Nat) : ws = e.words
  BY DEF KeptEntries
<1>5. PICK m \in Nat : m = Len(ws) /\ m >= 1
  BY <1>4 DEF WellNoted
<1>6. PICK more : more = on.words
  OBVIOUS
<1>7. /\ Len(more) = m + 1 /\ more[m + 1] = n + 1 /\ more # <<>>
      /\ \A k \in 1..m : more[k] = ws[k]
  BY SMTT(20), <1>1, <1>4, <1>5, <1>6
<1>8. ws[m] = n /\ \A k \in 1..m : ws[k] \in 1..n /\ said[ws[k]] = e.who
  BY <1>1, <1>4, <1>5 DEF WellNoted, LastIn
<1>9. \A k \in 1..(m - 1) : ws[k + 1] = ws[k] + 1
  BY <1>4, <1>5 DEF WellNoted
<1>10. \A k \in 1..(m + 1) : k \in 1..m \/ k = m + 1
  OBVIOUS
<1>11. \A k \in 1..(m + 1) : more[k] \in 1..(n + 1) /\ longer[more[k]] = e.who
  <2> SUFFICES ASSUME NEW k \in 1..(m + 1) PROVE more[k] \in 1..(n + 1) /\ longer[more[k]] = e.who
    OBVIOUS
  <2>1. CASE k = m + 1
    <3>1. more[k] = n + 1
      BY <1>7, <2>1
    <3> QED BY <1>3, <3>1
  <2>2. CASE k \in 1..m
    <3>1. PICK w \in 1..n : w = ws[k] /\ said[w] = e.who
      BY <1>8, <2>2
    <3>2. more[k] = w
      BY <1>7, <2>2, <3>1
    <3> QED BY <1>3, <3>1, <3>2
  <2> QED BY <1>10, <2>1, <2>2
<1>12. ASSUME NEW k \in 1..m PROVE more[k + 1] = more[k] + 1
  <2>1. CASE k = m
    BY <1>7, <1>8, <2>1
  <2>2. CASE k # m
    <3>1. k \in 1..(m - 1) /\ k + 1 \in 1..m
      BY <2>2
    <3> QED BY <1>7, <1>9, <3>1
  <2> QED BY <2>1, <2>2
<1>13. WellNoted(on, longer)
  <2>1. Len(more) - 1 = m
    BY <1>7
  <2>2. \A k \in 1..Len(more) : more[k] \in 1..Len(longer) /\ longer[more[k]] = on.who
    BY <1>3, <1>7, <1>11
  <2> QED BY <1>6, <1>7, <1>12, <2>1, <2>2 DEF WellNoted
<1>14. on.words[1] = e.words[1] /\ LastIn(on) = n + 1
  BY <1>4, <1>5, <1>6, <1>7 DEF LastIn
<1> QED BY <1>1, <1>2, <1>13, <1>14

\* A new entry begins with the fragment it was opened for.
LEMMA NotedFirst ==
    ASSUME NEW said \in Seq(Speakers), NEW who \in Speakers, NEW e \in KeptEntries,
           e.who = who, e.words = <<Len(said) + 1>>
    PROVE  WellNoted(e, Append(said, who)) /\ e.words[1] = Len(said) + 1 /\ LastIn(e) = Len(said) + 1
<1>1. PICK n \in Nat : n = Len(said)
  OBVIOUS
<1>2. PICK longer : longer = Append(said, who)
  OBVIOUS
<1>3. Len(longer) = n + 1 /\ longer[n + 1] = who
  BY <1>1, <1>2
<1>4. PICK ws : ws = e.words
  OBVIOUS
<1>5. Len(ws) = 1 /\ ws[1] = n + 1 /\ ws # <<>>
  BY <1>1, <1>4
<1>6. n + 1 \in 1..(n + 1) /\ 1..Len(ws) = {1} /\ 1..(Len(ws) - 1) = {}
  BY <1>5
<1>7. WellNoted(e, longer)
  BY <1>3, <1>4, <1>5, <1>6 DEF WellNoted
<1> QED BY <1>1, <1>2, <1>4, <1>5, <1>7 DEF LastIn

\* The oldest entry makes room.
LEMMA TailIsKept ==
    ASSUME NEW said, NEW es, WellKept(es, said), Len(es) >= 2
    PROVE  WellKept(Tail(es), said)
<1>1. PICK n \in Nat : n = Len(es) /\ n >= 2
  BY DEF WellKept
<1>2. PICK rest : rest = Tail(es)
  OBVIOUS
<1>3. rest \in Seq(KeptEntries) /\ Len(rest) = n - 1 /\ \A i \in 1..(n - 1) : rest[i] = es[i + 1]
  BY <1>1, <1>2 DEF WellKept
<1>4. \A i \in 1..(n - 1) : i + 1 \in 1..n
  BY <1>1
<1>5. \A i \in 1..(n - 1) : WellNoted(rest[i], said)
  BY <1>1, <1>3, <1>4 DEF WellKept
<1>6. ASSUME NEW i \in 1..(n - 2) PROVE rest[i + 1].words[1] = LastIn(rest[i]) + 1
  <2>1. i + 1 \in 1..(n - 1) /\ i \in 1..(n - 1)
    OBVIOUS
  <2>2. es[i + 1 + 1].words[1] = LastIn(es[i + 1]) + 1
    BY <1>1, <2>1 DEF WellKept
  <2> QED BY <1>3, <2>1, <2>2
<1>7. rest # <<>> /\ LastIn(rest[n - 1]) = Len(said)
  <2>1. es # <<>> /\ n - 1 + 1 = n /\ n - 1 \in 1..(n - 1)
    BY <1>1
  <2> QED BY <1>1, <1>3, <2>1 DEF WellKept
<1>8. n - 1 - 1 = n - 2
  BY <1>1
<1> QED BY <1>2, <1>3, <1>5, <1>6, <1>7, <1>8 DEF WellKept

\* A fragment opens an entry.
LEMMA EntryIsOpened ==
    ASSUME NEW said \in Seq(Speakers), NEW es, WellKept(es, said), NEW who \in Speakers,
           NEW e \in KeptEntries, e.who = who, e.words = <<Len(said) + 1>>
    PROVE  WellKept(Append(es, e), Append(said, who))
<1>1. PICK m \in Nat : m = Len(es)
  BY DEF WellKept
<1>2. PICK more : more = Append(es, e)
  OBVIOUS
<1>3. /\ more \in Seq(KeptEntries) /\ Len(more) = m + 1 /\ more[m + 1] = e /\ more # <<>>
      /\ \A i \in 1..m : more[i] = es[i] /\ es[i] \in KeptEntries
  BY <1>1, <1>2 DEF WellKept
<1>4. \A i \in 1..(m + 1) : i \in 1..m \/ i = m + 1
  OBVIOUS
<1>5. \A i \in 1..(m + 1) : WellNoted(more[i], Append(said, who))
  <2>1. \A i \in 1..m : WellNoted(es[i], said)
    BY <1>1 DEF WellKept
  <2>2. \A i \in 1..m : WellNoted(more[i], Append(said, who))
    BY <1>3, <2>1, StillNoted
  <2>3. WellNoted(e, Append(said, who))
    BY NotedFirst
  <2> QED BY <1>3, <1>4, <2>2, <2>3
<1>6. e.words[1] = Len(said) + 1 /\ LastIn(e) = Len(said) + 1 /\ Len(Append(said, who)) = Len(said) + 1
  BY NotedFirst
<1>7. ASSUME NEW i \in 1..m PROVE more[i + 1].words[1] = LastIn(more[i]) + 1
  <2>1. CASE i = m
    <3>1. es # <<>>
      BY <1>1, <2>1
    <3>2. LastIn(es[m]) = Len(said)
      BY <1>1, <3>1 DEF WellKept
    <3> QED BY <1>3, <1>6, <2>1, <3>2
  <2>2. CASE i # m
    <3>1. i \in 1..(m - 1) /\ i + 1 \in 1..m
      BY <2>2
    <3>2. es[i + 1].words[1] = LastIn(es[i]) + 1
      BY <1>1, <3>1 DEF WellKept
    <3> QED BY <1>3, <3>1, <3>2
  <2> QED BY <2>1, <2>2
<1>8. m + 1 - 1 = m
  OBVIOUS
<1> QED BY <1>2, <1>3, <1>5, <1>6, <1>7, <1>8 DEF WellKept

\* A fragment continues the last entry.
LEMMA EntryGoesOn ==
    ASSUME NEW said \in Seq(Speakers), NEW es, WellKept(es, said), es # <<>>,
           NEW on \in KeptEntries, on.who = es[Len(es)].who,
           on.words = Append(es[Len(es)].words, Len(said) + 1)
    PROVE  WellKept([es EXCEPT ![Len(es)] = on], Append(said, on.who))
<1>1. PICK m \in Nat : m = Len(es) /\ m >= 1
  BY DEF WellKept
<1>2. PICK e \in KeptEntries : e = es[m] /\ on.who = e.who /\ on.words = Append(e.words, Len(said) + 1)
  BY <1>1 DEF WellKept
<1>3. PICK more : more = [es EXCEPT ![m] = on]
  OBVIOUS
<1>4. /\ more \in Seq(KeptEntries) /\ Len(more) = m /\ more[m] = on /\ more # <<>>
      /\ \A i \in 1..(m - 1) : more[i] = es[i] /\ es[i] \in KeptEntries
  BY <1>1, <1>3 DEF WellKept
<1>5. WellNoted(e, said) /\ LastIn(e) = Len(said)
  BY <1>1, <1>2 DEF WellKept
<1>6. /\ WellNoted(on, Append(said, on.who))
      /\ on.words[1] = e.words[1] /\ LastIn(on) = Len(said) + 1
  BY <1>2, <1>5, NotedOn
<1>7. Len(Append(said, on.who)) = Len(said) + 1 /\ on.who \in Speakers
  BY DEF KeptEntries
<1>8. ASSUME NEW i \in 1..m PROVE WellNoted(more[i], Append(said, on.who))
  <2>1. CASE i = m
    BY <1>4, <1>6, <2>1
  <2>2. CASE i # m
    <3>1. i \in 1..(m - 1) /\ WellNoted(es[i], said)
      BY <1>1, <2>2 DEF WellKept
    <3> QED BY <1>4, <1>7, <3>1, StillNoted
  <2> QED BY <2>1, <2>2
<1>9. ASSUME NEW i \in 1..(m - 1) PROVE more[i + 1].words[1] = LastIn(more[i]) + 1
  <2>1. es[i + 1].words[1] = LastIn(es[i]) + 1
    BY <1>1 DEF WellKept
  <2>2. CASE i + 1 = m
    BY <1>2, <1>4, <1>6, <2>1, <2>2
  <2>3. CASE i + 1 # m
    <3>1. i + 1 \in 1..(m - 1)
      BY <2>3
    <3> QED BY <1>4, <2>1, <3>1
  <2> QED BY <2>2, <2>3
<1> QED BY <1>1, <1>3, <1>4, <1>6, <1>7, <1>8, <1>9 DEF WellKept

TranscriptInv == saidBy \in Seq(Speakers) /\ WellKept(entries, saidBy)

\* Whoever speaks, however long, and however much is dropped at the front
\* (minutes.py, Transcript.add).
THEOREM TranscriptInvariant == MinutesSpec => []TranscriptInv
<1>1. MinutesInit => TranscriptInv
  <2> SUFFICES ASSUME MinutesInit PROVE TranscriptInv
    OBVIOUS
  <2>1. entries = <<>> /\ saidBy = <<>> /\ Len(entries) = 0 /\ 1..0 = {} /\ 1..(0 - 1) = {}
    BY DEF MinutesInit
  <2>2. entries \in Seq(KeptEntries) /\ saidBy \in Seq(Speakers)
    BY <2>1
  <2> QED BY <2>1, <2>2 DEF TranscriptInv, WellKept
<1>2. TranscriptInv /\ [MinutesNext]_minutesVars => TranscriptInv'
  <2> SUFFICES ASSUME TranscriptInv, [MinutesNext]_minutesVars PROVE TranscriptInv'
    OBVIOUS
  <2>1. ASSUME UNCHANGED <<saidBy, entries>> PROVE TranscriptInv'
    BY <2>1 DEF TranscriptInv
  <2>2. ASSUME NEW who \in Speakers, Add(who) PROVE TranscriptInv'
    <3>1. saidBy' = Append(saidBy, who) /\ saidBy' \in Seq(Speakers) /\ Len(saidBy') = Len(saidBy) + 1
      BY <2>2 DEF Add, TranscriptInv
    <3>2. CASE Continues(who)
      <4>1. PICK e \in KeptEntries : e = entries[Len(entries)] /\ e.who = who /\ entries # <<>>
        BY <3>2 DEF Continues, TranscriptInv, WellKept
      <4>2. PICK on \in KeptEntries : on = [who |-> who, words |-> Append(e.words, Len(saidBy) + 1)]
        <5>1. PICK ws \in Seq(Nat) : ws = e.words
          BY <4>1 DEF KeptEntries
        <5>2. PICK n \in Nat : n = Len(saidBy) + 1
          BY DEF TranscriptInv
        <5>3. Append(ws, n) \in Seq(Nat)
          OBVIOUS
        <5>4. [who |-> who, words |-> Append(ws, n)] \in KeptEntries
          BY <5>3 DEF KeptEntries
        <5> QED BY <5>1, <5>2, <5>4
      <4>3. [e EXCEPT !.words = Append(e.words, Len(saidBy) + 1)] = on
        <5>1. PICK ws : ws = Append(e.words, Len(saidBy) + 1)
          OBVIOUS
        <5>2. [e EXCEPT !.words = ws] = [who |-> who, words |-> ws]
          BY <4>1 DEF KeptEntries
        <5> QED BY <4>2, <5>1, <5>2
      <4>4. entries' = [entries EXCEPT ![Len(entries)] = [e EXCEPT !.words = Append(e.words, Len(saidBy) + 1)]]
        BY <2>2, <3>1, <3>2, <4>1 DEF Add
      <4>5. WellKept([entries EXCEPT ![Len(entries)] = on], Append(saidBy, on.who))
        <5>1. on.who = entries[Len(entries)].who /\ on.words = Append(entries[Len(entries)].words, Len(saidBy) + 1)
          BY <4>1, <4>2
        <5> QED BY <4>1, <5>1, EntryGoesOn DEF TranscriptInv
      <4>6. on.who = who
        BY <4>2
      <4> QED BY <3>1, <4>3, <4>4, <4>5, <4>6 DEF TranscriptInv
    <3>3. CASE ~Continues(who)
      <4>1. PICK e \in KeptEntries : e = [who |-> who, words |-> <<Len(saidBy) + 1>>]
        <5>1. PICK n \in Nat : n = Len(saidBy) + 1
          BY DEF TranscriptInv
        <5>2. [who |-> who, words |-> <<n>>] \in KeptEntries
          BY DEF KeptEntries
        <5> QED BY <5>1, <5>2
      <4>2. PICK more : more = Append(entries, e)
        OBVIOUS
      <4>3. entries' = IF Len(entries) = MaxTranscript THEN Tail(more) ELSE more
        BY <2>2, <3>3, <4>1, <4>2 DEF Add, Entered
      <4>4. WellKept(more, saidBy')
        BY <3>1, <4>1, <4>2, EntryIsOpened DEF TranscriptInv
      <4>5. Len(more) = Len(entries) + 1 /\ Len(entries) \in Nat
        BY <4>2 DEF TranscriptInv, WellKept
      <4>6. Len(entries) = MaxTranscript => WellKept(Tail(more), saidBy')
        BY <4>4, <4>5, TailIsKept, MinutesAssumption DEF MinutesAssumption
      <4> QED BY <3>1, <4>3, <4>4, <4>6 DEF TranscriptInv
    <3> QED BY <3>2, <3>3
  <2>3. ASSUME NEW kind, ReadLine(kind) PROVE TranscriptInv'
    BY <2>1, <2>3 DEF ReadLine
  <2>4. CASE AddVisual \/ Resolve \/ Written \/ Landed \/ NotFound \/ PostFails \/ UNCHANGED minutesVars
    BY <2>1, <2>4 DEF AddVisual, Resolve, Written, Landed, NotFound, PostFails, minutesVars
  <2> QED BY <2>2, <2>3, <2>4 DEF MinutesNext
<1> QED BY <1>1, <1>2, PTL DEF MinutesSpec

\* The document, as the lines are read.
SectionRecords == [heading : Nat, items : Seq(Nat)]

\* A section holds lines that say something, in their order, after its heading.
WellFiled(sec, ans) ==
    /\ sec.heading \in 0..Len(ans) /\ (sec.heading # 0 => ans[sec.heading] = "heading")
    /\ \A k \in 1..Len(sec.items) :
           sec.items[k] \in 1..Len(ans) /\ ans[sec.items[k]] \in Says /\ sec.heading < sec.items[k]
    /\ \A k, l \in 1..Len(sec.items) : k < l => sec.items[k] < sec.items[l]

Precedes(sec, next) ==
    sec.heading < next.heading /\ \A k \in 1..Len(sec.items) : sec.items[k] < next.heading

HoldsLine(sec, i) == \E k \in 1..Len(sec.items) : sec.items[k] = i

\* What the reading keeps, of any sections: every line read so far is in one of them.
WellRead(secs, ans) ==
    /\ secs \in Seq(SectionRecords)
    /\ \A s \in 1..Len(secs) : WellFiled(secs[s], ans)
    /\ \A s, t \in 1..Len(secs) : s < t => Precedes(secs[s], secs[t])
    /\ \A i \in 1..Len(ans) :
           /\ ans[i] \in Says => \E s \in 1..Len(secs) : HoldsLine(secs[s], i)
           /\ ans[i] = "heading" => \E s \in 1..Len(secs) : secs[s].heading = i

\* What was filed stays where it is when the model writes another line.
LEMMA StillFiled ==
    ASSUME NEW sec \in SectionRecords, NEW ans \in Seq(Kinds), NEW kind \in Kinds, WellFiled(sec, ans)
    PROVE  WellFiled(sec, Append(ans, kind))
<1>1. PICK n \in Nat : n = Len(ans)
  OBVIOUS
<1>2. PICK longer : longer = Append(ans, kind)
  OBVIOUS
<1>3. Len(longer) = n + 1 /\ \A i \in 1..n : longer[i] = ans[i] /\ i \in 1..(n + 1)
  BY <1>1, <1>2
<1>4. sec.heading \in 0..(n + 1) /\ (sec.heading # 0 => longer[sec.heading] = "heading")
  BY <1>1, <1>3 DEF WellFiled
<1>5. \A k \in 1..Len(sec.items) :
          sec.items[k] \in 1..(n + 1) /\ longer[sec.items[k]] \in Says /\ sec.heading < sec.items[k]
  BY <1>1, <1>3 DEF WellFiled
<1>6. \A k, l \in 1..Len(sec.items) : k < l => sec.items[k] < sec.items[l]
  BY DEF WellFiled
<1> QED BY <1>2, <1>3, <1>4, <1>5, <1>6 DEF WellFiled

\* A new line goes behind those of its section, and under the last heading.
LEMMA LineIsFiled ==
    ASSUME NEW sec \in SectionRecords, NEW ans \in Seq(Kinds), NEW kind \in Says, WellFiled(sec, ans),
           NEW on \in SectionRecords, on.heading = sec.heading,
           on.items = Append(sec.items, Len(ans) + 1)
    PROVE  /\ WellFiled(on, Append(ans, kind))
           /\ HoldsLine(on, Len(ans) + 1) /\ \A i : HoldsLine(sec, i) => HoldsLine(on, i)
<1>1. PICK n \in Nat : n = Len(ans)
  OBVIOUS
<1>2. PICK longer : longer = Append(ans, kind)
  OBVIOUS
<1>3. Len(longer) = n + 1 /\ longer[n + 1] = kind /\ \A i \in 1..n : longer[i] = ans[i] /\ i \in 1..(n + 1)
  BY <1>1, <1>2
<1>4. PICK its \in Seq(Nat) : its = sec.items
  BY DEF SectionRecords
<1>5. PICK m \in Nat : m = Len(its)
  BY <1>4
<1>6. PICK more : more = on.items
  OBVIOUS
<1>7. Len(more) = m + 1 /\ more[m + 1] = n + 1 /\ \A k \in 1..m : more[k] = its[k]
  BY <1>1, <1>4, <1>5, <1>6
<1>8. PICK h \in 0..n : h = sec.heading /\ h = on.heading /\ (h # 0 => ans[h] = "heading")
  BY <1>1 DEF WellFiled
<1>9. \A k \in 1..m : its[k] \in 1..n /\ ans[its[k]] \in Says /\ h < its[k]
  BY <1>1, <1>4, <1>5, <1>8 DEF WellFiled
<1>10. \A k, l \in 1..m : k < l => its[k] < its[l]
  BY <1>4, <1>5 DEF WellFiled
<1>11. \A k \in 1..(m + 1) : k \in 1..m \/ k = m + 1
  OBVIOUS
<1>12. ASSUME NEW k \in 1..(m + 1)
       PROVE  more[k] \in 1..(n + 1) /\ longer[more[k]] \in Says /\ h < more[k]
  <2>1. CASE k = m + 1
    BY <1>3, <1>7, <1>8, <2>1
  <2>2. CASE k \in 1..m
    <3>1. PICK i \in 1..n : i = its[k] /\ ans[i] \in Says /\ h < i /\ more[k] = i
      BY <1>7, <1>9, <2>2
    <3> QED BY <1>3, <3>1
  <2> QED BY <1>11, <2>1, <2>2
<1>13. ASSUME NEW k \in 1..(m + 1), NEW l \in 1..(m + 1), k < l PROVE more[k] < more[l]
  <2>1. k \in 1..m
    BY <1>13
  <2>2. CASE l = m + 1
    BY <1>7, <1>9, <2>1, <2>2
  <2>3. CASE l \in 1..m
    BY <1>7, <1>10, <1>13, <2>1, <2>3
  <2> QED BY <1>11, <2>2, <2>3
<1>14. h \in 0..(n + 1) /\ (h # 0 => longer[h] = "heading")
  BY <1>3, <1>8
<1>15. WellFiled(on, longer)
  BY <1>3, <1>6, <1>7, <1>8, <1>12, <1>13, <1>14 DEF WellFiled
<1>16. HoldsLine(on, n + 1)
  <2>1. m + 1 \in 1..(m + 1)
    OBVIOUS
  <2> QED BY <1>6, <1>7, <2>1 DEF HoldsLine
<1>17. ASSUME NEW i, HoldsLine(sec, i) PROVE HoldsLine(on, i)
  <2>1. PICK k \in 1..m : its[k] = i
    BY <1>4, <1>5, <1>17 DEF HoldsLine
  <2>2. k \in 1..(m + 1)
    OBVIOUS
  <2> QED BY <1>6, <1>7, <2>1, <2>2 DEF HoldsLine
<1> QED BY <1>1, <1>2, <1>15, <1>16, <1>17

\* A heading opens a section.
LEMMA SectionIsOpened ==
    ASSUME NEW secs, NEW ans \in Seq(Kinds), WellRead(secs, ans),
           NEW new \in SectionRecords, new.heading = Len(ans) + 1, new.items = <<>>
    PROVE  WellRead(Append(secs, new), Append(ans, "heading"))
<1>1. PICK n \in Nat : n = Len(ans)
  OBVIOUS
<1>2. PICK longer : longer = Append(ans, "heading")
  OBVIOUS
<1>3. Len(longer) = n + 1 /\ longer[n + 1] = "heading" /\ \A i \in 1..n : longer[i] = ans[i]
  BY <1>1, <1>2
<1>4. PICK m \in Nat : m = Len(secs)
  BY DEF WellRead
<1>5. PICK more : more = Append(secs, new)
  OBVIOUS
<1>6. /\ more \in Seq(SectionRecords) /\ Len(more) = m + 1 /\ more[m + 1] = new
      /\ \A s \in 1..m : more[s] = secs[s] /\ secs[s] \in SectionRecords /\ s \in 1..(m + 1)
  BY <1>4, <1>5 DEF WellRead
<1>7. \A s \in 1..(m + 1) : s \in 1..m \/ s = m + 1
  OBVIOUS
<1>8. 1..Len(new.items) = {} /\ n + 1 \in 0..(n + 1)
  OBVIOUS
<1>9. WellFiled(new, longer)
  BY <1>1, <1>3, <1>8 DEF WellFiled
<1>10. \A s \in 1..m : WellFiled(more[s], longer)
  <2>1. "heading" \in Kinds /\ \A s \in 1..m : WellFiled(secs[s], ans)
    BY <1>4 DEF WellRead, Kinds
  <2> QED BY <1>2, <1>6, <2>1, StillFiled
<1>11. ASSUME NEW s \in 1..m PROVE Precedes(secs[s], new)
  <2>1. WellFiled(secs[s], ans)
    BY <1>4 DEF WellRead
  <2>2. secs[s].heading < n + 1
    BY <1>1, <2>1 DEF WellFiled
  <2>3. \A k \in 1..Len(secs[s].items) : secs[s].items[k] < n + 1
    BY <1>1, <2>1 DEF WellFiled
  <2> QED BY <1>1, <2>2, <2>3 DEF Precedes
<1>12. ASSUME NEW s \in 1..(m + 1), NEW t \in 1..(m + 1), s < t PROVE Precedes(more[s], more[t])
  <2>1. s \in 1..m
    BY <1>12
  <2>2. CASE t = m + 1
    BY <1>6, <1>11, <2>1, <2>2
  <2>3. CASE t \in 1..m
    BY <1>4, <1>6, <1>12, <2>1, <2>3 DEF WellRead
  <2> QED BY <1>7, <2>2, <2>3
<1>13. ASSUME NEW i \in 1..(n + 1)
       PROVE  /\ longer[i] \in Says => \E s \in 1..(m + 1) : HoldsLine(more[s], i)
              /\ longer[i] = "heading" => \E s \in 1..(m + 1) : more[s].heading = i
  <2>1. CASE i = n + 1
    <3>1. m + 1 \in 1..(m + 1) /\ more[m + 1].heading = i
      BY <1>1, <1>6, <2>1
    <3> QED BY <1>3, <2>1, <3>1 DEF Says
  <2>2. CASE i # n + 1
    <3>1. i \in 1..n /\ longer[i] = ans[i]
      BY <1>3, <2>2
    <3>2. /\ ans[i] \in Says => \E s \in 1..m : HoldsLine(secs[s], i)
          /\ ans[i] = "heading" => \E s \in 1..m : secs[s].heading = i
      BY <1>1, <1>4, <3>1 DEF WellRead
    <3> QED BY <1>6, <3>1, <3>2
  <2> QED BY <2>1, <2>2
<1> QED BY <1>2, <1>3, <1>5, <1>6, <1>7, <1>9, <1>10, <1>12, <1>13 DEF WellRead

\* A line goes under the last heading.
LEMMA LineGoesUnder ==
    ASSUME NEW secs, NEW ans \in Seq(Kinds), WellRead(secs, ans), secs # <<>>, NEW kind \in Says,
           NEW on \in SectionRecords, on.heading = secs[Len(secs)].heading,
           on.items = Append(secs[Len(secs)].items, Len(ans) + 1)
    PROVE  WellRead([secs EXCEPT ![Len(secs)] = on], Append(ans, kind))
<1>1. PICK n \in Nat : n = Len(ans)
  OBVIOUS
<1>2. PICK longer : longer = Append(ans, kind)
  OBVIOUS
<1>3. Len(longer) = n + 1 /\ longer[n + 1] = kind /\ \A i \in 1..n : longer[i] = ans[i]
  BY <1>1, <1>2
<1>4. PICK m \in Nat : m = Len(secs) /\ m >= 1
  BY DEF WellRead
<1>5. PICK sec \in SectionRecords : sec = secs[m] /\ on.heading = sec.heading /\ on.items = Append(sec.items, n + 1)
  BY <1>1, <1>4 DEF WellRead
<1>6. PICK more : more = [secs EXCEPT ![m] = on]
  OBVIOUS
<1>7. /\ more \in Seq(SectionRecords) /\ Len(more) = m /\ more[m] = on
      /\ \A s \in 1..(m - 1) : more[s] = secs[s] /\ secs[s] \in SectionRecords /\ s \in 1..m
  BY <1>4, <1>6 DEF WellRead
<1>8. \A s \in 1..m : s \in 1..(m - 1) \/ s = m
  OBVIOUS
<1>9. /\ WellFiled(on, longer) /\ HoldsLine(on, n + 1) /\ \A i : HoldsLine(sec, i) => HoldsLine(on, i)
  <2>1. WellFiled(sec, ans)
    BY <1>4, <1>5 DEF WellRead
  <2> QED BY <1>1, <1>2, <1>5, <2>1, LineIsFiled
<1>10. \A s \in 1..m : WellFiled(more[s], longer)
  <2>1. kind \in Kinds /\ \A s \in 1..(m - 1) : WellFiled(secs[s], ans)
    BY <1>4 DEF WellRead, Kinds, Says
  <2>2. \A s \in 1..(m - 1) : WellFiled(more[s], longer)
    BY <1>2, <1>7, <2>1, StillFiled
  <2> QED BY <1>7, <1>8, <1>9, <2>2
<1>11. ASSUME NEW s \in 1..m, NEW t \in 1..m, s < t PROVE Precedes(more[s], more[t])
  <2>1. s \in 1..(m - 1) /\ Precedes(secs[s], secs[t])
    BY <1>4, <1>11 DEF WellRead
  <2>2. CASE t = m
    BY <1>5, <1>7, <2>1, <2>2 DEF Precedes
  <2>3. CASE t # m
    BY <1>7, <1>8, <2>1, <2>3
  <2> QED BY <2>2, <2>3
<1>12. ASSUME NEW i \in 1..(n + 1)
       PROVE  /\ longer[i] \in Says => \E s \in 1..m : HoldsLine(more[s], i)
              /\ longer[i] = "heading" => \E s \in 1..m : more[s].heading = i
  <2>1. CASE i = n + 1
    <3>1. m \in 1..m /\ HoldsLine(more[m], i)
      BY <1>4, <1>7, <1>9, <2>1
    <3> QED BY <1>3, <2>1, <3>1 DEF Says
  <2>2. CASE i # n + 1
    <3>1. i \in 1..n /\ longer[i] = ans[i]
      BY <1>3, <2>2
    <3>2. /\ ans[i] \in Says => \E s \in 1..m : HoldsLine(secs[s], i)
          /\ ans[i] = "heading" => \E s \in 1..m : secs[s].heading = i
      BY <1>1, <1>4, <3>1 DEF WellRead
    <3>3. \A s \in 1..m : HoldsLine(secs[s], i) => HoldsLine(more[s], i)
      BY <1>5, <1>7, <1>8, <1>9
    <3>4. \A s \in 1..m : more[s].heading = secs[s].heading
      BY <1>5, <1>7, <1>8
    <3> QED BY <3>1, <3>2, <3>3, <3>4
  <2> QED BY <2>1, <2>2
<1>13. WellRead(more, longer)
  BY SMTT(30), <1>3, <1>7, <1>10, <1>11, <1>12 DEF WellRead
<1> QED BY <1>2, <1>4, <1>6, <1>13

\* A line before any heading opens the summary.
LEMMA SummaryIsOpened ==
    ASSUME NEW secs, NEW ans \in Seq(Kinds), WellRead(secs, ans), secs = <<>>, NEW kind \in Says,
           NEW new \in SectionRecords, new.heading = 0, new.items = <<Len(ans) + 1>>
    PROVE  WellRead(<<new>>, Append(ans, kind))
<1>1. PICK n \in Nat : n = Len(ans)
  OBVIOUS
<1>2. PICK longer : longer = Append(ans, kind)
  OBVIOUS
<1>3. Len(longer) = n + 1 /\ longer[n + 1] = kind /\ \A i \in 1..n : longer[i] = ans[i]
  BY <1>1, <1>2
<1>4. PICK empty \in SectionRecords : empty = [heading |-> 0, items |-> <<>>]
  <2>1. <<>> \in Seq(Nat)
    OBVIOUS
  <2> QED BY <2>1 DEF SectionRecords
<1>5. empty.heading = 0 /\ empty.items = <<>> /\ 1..Len(empty.items) = {}
  BY <1>4
<1>6. WellFiled(empty, ans)
  <2>1. 0 \in 0..Len(ans)
    OBVIOUS
  <2> QED BY <1>5, <2>1 DEF WellFiled
<1>7. new.heading = empty.heading /\ new.items = Append(empty.items, Len(ans) + 1)
  BY <1>5
<1>8. WellFiled(new, longer) /\ HoldsLine(new, n + 1)
  BY <1>1, <1>2, <1>6, <1>7, LineIsFiled
<1>9. PICK one : one = <<new>>
  OBVIOUS
<1>10. one \in Seq(SectionRecords) /\ Len(one) = 1 /\ one[1] = new /\ 1..1 = {1}
  BY <1>9
<1>11. \A i \in 1..n : ans[i] \notin Says /\ ans[i] # "heading"
  <2>1. 1..Len(secs) = {}
    OBVIOUS
  <2> QED BY <1>1, <2>1 DEF WellRead
<1>12. ASSUME NEW i \in 1..(n + 1)
       PROVE  /\ longer[i] \in Says => \E s \in 1..Len(one) : HoldsLine(one[s], i)
              /\ longer[i] = "heading" => \E s \in 1..Len(one) : one[s].heading = i
  <2>1. CASE i = n + 1
    BY <1>3, <1>8, <1>10, <2>1 DEF Says
  <2>2. CASE i # n + 1
    <3>1. i \in 1..n
      BY <2>2
    <3> QED BY <1>3, <1>11, <3>1
  <2> QED BY <2>1, <2>2
<1>13. \A s \in 1..Len(one) : s = 1 /\ WellFiled(one[s], longer)
  BY <1>8, <1>10
<1> QED BY <1>2, <1>3, <1>9, <1>10, <1>12, <1>13 DEF WellRead

\* A line that says nothing.
LEMMA LineIsSkipped ==
    ASSUME NEW secs, NEW ans \in Seq(Kinds), WellRead(secs, ans), NEW kind \in Kinds,
           kind \notin Says, kind # "heading"
    PROVE  WellRead(secs, Append(ans, kind))
<1>1. PICK n \in Nat : n = Len(ans)
  OBVIOUS
<1>2. PICK longer : longer = Append(ans, kind)
  OBVIOUS
<1>3. Len(longer) = n + 1 /\ longer[n + 1] = kind /\ \A i \in 1..n : longer[i] = ans[i]
  BY <1>1, <1>2
<1>4. \A s \in 1..Len(secs) : WellFiled(secs[s], longer)
  <2>1. \A s \in 1..Len(secs) : secs[s] \in SectionRecords /\ WellFiled(secs[s], ans)
    BY DEF WellRead
  <2> QED BY <1>2, <2>1, StillFiled
<1>5. ASSUME NEW i \in 1..(n + 1)
      PROVE  /\ longer[i] \in Says => \E s \in 1..Len(secs) : HoldsLine(secs[s], i)
             /\ longer[i] = "heading" => \E s \in 1..Len(secs) : secs[s].heading = i
  <2>1. CASE i = n + 1
    BY <1>3, <2>1
  <2>2. CASE i # n + 1
    <3>1. i \in 1..n
      BY <2>2
    <3> QED BY <1>1, <1>3, <3>1 DEF WellRead
  <2> QED BY <2>1, <2>2
<1> QED BY <1>2, <1>3, <1>4, <1>5 DEF WellRead

DocumentInv == answer \in Seq(Kinds) /\ WellRead(sections, answer)

\* Whatever the model writes, in whatever order (minutes.py, parse_minutes_sections).
THEOREM DocumentInvariant == MinutesSpec => []DocumentInv
<1>1. MinutesInit => DocumentInv
  <2> SUFFICES ASSUME MinutesInit PROVE DocumentInv
    OBVIOUS
  <2>1. answer = <<>> /\ sections = <<>> /\ Len(answer) = 0 /\ Len(sections) = 0 /\ 1..0 = {}
    BY DEF MinutesInit
  <2>2. answer \in Seq(Kinds) /\ sections \in Seq(SectionRecords)
    BY <2>1
  <2> QED BY <2>1, <2>2 DEF DocumentInv, WellRead
<1>2. DocumentInv /\ [MinutesNext]_minutesVars => DocumentInv'
  <2> SUFFICES ASSUME DocumentInv, [MinutesNext]_minutesVars PROVE DocumentInv'
    OBVIOUS
  <2>1. ASSUME UNCHANGED <<answer, sections>> PROVE DocumentInv'
    BY <2>1 DEF DocumentInv
  <2>2. ASSUME NEW kind \in Kinds, ReadLine(kind) PROVE DocumentInv'
    <3>1. answer' = Append(answer, kind) /\ answer' \in Seq(Kinds) /\ Len(answer') = Len(answer) + 1
      BY <2>2 DEF ReadLine, DocumentInv
    <3>2. PICK n \in Nat : n = Len(answer) + 1 /\ n = Len(answer')
      BY <3>1 DEF DocumentInv
    <3>3. CASE kind = "heading"
      <4>1. PICK new \in SectionRecords : new = [heading |-> n, items |-> <<>>]
        <5>1. <<>> \in Seq(Nat)
          OBVIOUS
        <5> QED BY <5>1 DEF SectionRecords
      <4>2. sections' = Append(sections, new)
        BY <2>2, <3>2, <3>3, <4>1 DEF ReadLine
      <4>3. new.heading = Len(answer) + 1 /\ new.items = <<>>
        BY <3>2, <4>1
      <4> QED BY <3>1, <3>3, <4>2, <4>3, SectionIsOpened DEF DocumentInv
    <3>4. CASE kind \in Says
      <4>1. sections' = UnderHeading(n)
        BY <2>2, <3>2, <3>4 DEF ReadLine, Says
      <4>2. CASE sections = <<>>
        <5>1. <<n>> \in Seq(Nat)
          OBVIOUS
        <5>2. PICK new \in SectionRecords : new = [heading |-> 0, items |-> <<n>>]
          BY <5>1 DEF SectionRecords
        <5>3. sections' = <<new>>
          BY <4>1, <4>2, <5>2 DEF UnderHeading
        <5>4. new.heading = 0 /\ new.items = <<Len(answer) + 1>>
          BY <3>2, <5>2
        <5> QED BY <3>1, <3>4, <4>2, <5>3, <5>4, SummaryIsOpened DEF DocumentInv
      <4>3. CASE sections # <<>>
        <5>1. PICK sec \in SectionRecords : sec = sections[Len(sections)]
          BY <4>3 DEF DocumentInv, WellRead
        <5>2. PICK its \in Seq(Nat) : its = Append(sec.items, n)
          <6>1. PICK old \in Seq(Nat) : old = sec.items
            BY <5>1 DEF SectionRecords
          <6>2. Append(old, n) \in Seq(Nat)
            OBVIOUS
          <6> QED BY <6>1, <6>2
        <5>3. PICK on \in SectionRecords : on = [heading |-> sec.heading, items |-> its]
          BY DEF SectionRecords
        <5>4. [sec EXCEPT !.items = its] = on
          BY <5>3 DEF SectionRecords
        <5>5. sections' = [sections EXCEPT ![Len(sections)] = [sec EXCEPT !.items = its]]
          BY <4>1, <4>3, <5>1, <5>2 DEF UnderHeading
        <5>6. /\ on.heading = sections[Len(sections)].heading
              /\ on.items = Append(sections[Len(sections)].items, Len(answer) + 1)
          BY <3>2, <5>1, <5>2, <5>3
        <5>7. WellRead([sections EXCEPT ![Len(sections)] = on], Append(answer, kind))
          BY <3>4, <4>3, <5>6, LineGoesUnder DEF DocumentInv
        <5> QED BY <3>1, <5>4, <5>5, <5>7 DEF DocumentInv
      <4> QED BY <4>2, <4>3
    <3>5. CASE kind \notin Says /\ kind # "heading"
      <4>1. sections' = sections
        BY <2>2, <3>5 DEF ReadLine, Says
      <4> QED BY <3>1, <3>5, <4>1, LineIsSkipped DEF DocumentInv
    <3> QED BY <3>3, <3>4, <3>5
  <2>3. ASSUME NEW who, Add(who) PROVE DocumentInv'
    BY <2>1, <2>3 DEF Add
  <2>4. CASE AddVisual \/ Resolve \/ Written \/ Landed \/ NotFound \/ PostFails \/ UNCHANGED minutesVars
    BY <2>1, <2>4 DEF AddVisual, Resolve, Written, Landed, NotFound, PostFails, minutesVars
  <2> QED BY <2>2, <2>3, <2>4 DEF MinutesNext
<1> QED BY <1>1, <1>2, PTL DEF MinutesSpec

\* A post that may have landed is the last.
PostInv == reached = {} \/ (writeUp = "over" /\ \E c : reached = {c})

\* Whatever posts fail or time out, what may have landed is not posted elsewhere
\* (minutes.py, post_minutes).
THEOREM PostInvariant == MinutesSpec => []PostInv
<1>1. MinutesInit => PostInv
  BY DEF MinutesInit, PostInv
<1>2. PostInv /\ [MinutesNext]_minutesVars => PostInv'
  <2> SUFFICES ASSUME PostInv, [MinutesNext]_minutesVars PROVE PostInv'
    OBVIOUS
  <2>1. ASSUME reached' = reached, writeUp # "over" \/ writeUp' = writeUp PROVE PostInv'
    BY <2>1 DEF PostInv
  <2>2. CASE Landed \/ PostFails
    <3>1. reached = {} /\ writeUp' = "over" /\ reached' \in {reached, reached \cup {Head(targets)}}
      BY <2>2 DEF Landed, PostFails, GivesUp, PostInv
    <3> QED BY <3>1 DEF PostInv
  <2>3. ASSUME NEW who, Add(who) PROVE PostInv'
    BY <2>1, <2>3 DEF Add
  <2>4. ASSUME NEW kind, ReadLine(kind) PROVE PostInv'
    BY <2>1, <2>4 DEF ReadLine
  <2>5. CASE AddVisual \/ Resolve \/ Written \/ NotFound \/ UNCHANGED minutesVars
    BY <2>1, <2>5 DEF AddVisual, Resolve, Written, NotFound, minutesVars
  <2> QED BY <2>2, <2>3, <2>4, <2>5 DEF MinutesNext
<1> QED BY <1>1, <1>2, PTL DEF MinutesSpec

\* The minutes name the right speaker for every word kept, print every line that says
\* something under its heading and no heading that nothing stands under, and reach
\* one conversation, for any length of the call, of the transcript and of the answer
\* (minutes.py).
THEOREM MinutesStayFaithful == MinutesSpec => []MinutesAreFaithful
<1>1. TranscriptInv => AttributedRightly
  <2> SUFFICES ASSUME TranscriptInv PROVE AttributedRightly
    OBVIOUS
  <2>1. DOMAIN entries = 1..Len(entries) /\ \A i \in 1..Len(entries) : entries[i] \in KeptEntries
    BY DEF TranscriptInv, WellKept
  <2>2. \A i \in 1..Len(entries) : DOMAIN entries[i].words = 1..Len(entries[i].words)
    BY <2>1 DEF KeptEntries
  <2>3. \A i \in DOMAIN entries : \A k \in DOMAIN entries[i].words :
            saidBy[entries[i].words[k]] = entries[i].who
    BY <2>1, <2>2 DEF TranscriptInv, WellKept, WellNoted
  <2>4. \A i \in DOMAIN entries : \A k \in 1..(Len(entries[i].words) - 1) :
            entries[i].words[k + 1] = entries[i].words[k] + 1
    BY <2>1 DEF TranscriptInv, WellKept, WellNoted
  <2>5. \A i \in 1..(Len(entries) - 1) : FirstOf(i + 1) = LastWord(i) + 1
    BY DEF TranscriptInv, WellKept, FirstOf, LastWord, LastIn
  <2>6. IF entries = <<>> THEN saidBy = <<>> ELSE LastWord(Len(entries)) = Len(saidBy)
    BY DEF TranscriptInv, WellKept, LastWord, LastIn
  <2> QED BY <2>3, <2>4, <2>5, <2>6 DEF AttributedRightly
<1>2. DocumentInv => NothingLost
  <2> SUFFICES ASSUME DocumentInv PROVE NothingLost
    OBVIOUS
  <2>1. /\ DOMAIN answer = 1..Len(answer) /\ DOMAIN sections = 1..Len(sections)
        /\ \A s \in 1..Len(sections) : sections[s] \in SectionRecords
        /\ \A s \in Printed : s \in 1..Len(sections) /\ sections[s].items # <<>>
    BY DEF DocumentInv, WellRead, Printed
  <2>2. \A s \in 1..Len(sections) :
            sections[s].items \in Seq(Nat) /\ DOMAIN sections[s].items = 1..Len(sections[s].items)
    BY <2>1 DEF SectionRecords
  <2>3. ASSUME NEW i \in DOMAIN answer, answer[i] \in Says
        PROVE  \E s \in Printed : \E k \in DOMAIN sections[s].items : sections[s].items[k] = i
    <3>1. PICK s \in 1..Len(sections) : HoldsLine(sections[s], i)
      BY <2>1, <2>3 DEF DocumentInv, WellRead
    <3>2. PICK k \in DOMAIN sections[s].items : sections[s].items[k] = i
      BY <2>2, <3>1 DEF HoldsLine
    <3>3. s \in Printed
      BY <2>1, <2>2, <3>2 DEF Printed
    <3> QED BY <3>2, <3>3
  <2>4. \A s \in Printed : \A k, l \in DOMAIN sections[s].items :
            /\ answer[sections[s].items[k]] \in Says
            /\ sections[s].heading < sections[s].items[k]
            /\ k < l => sections[s].items[k] < sections[s].items[l]
    BY <2>1, <2>2 DEF DocumentInv, WellRead, WellFiled
  <2>5. \A s, t \in 1..Len(sections) : s < t =>
            /\ sections[s].heading < sections[t].heading
            /\ \A k \in DOMAIN sections[s].items : sections[s].items[k] < sections[t].heading
    BY <2>1, <2>2 DEF DocumentInv, WellRead, Precedes
  <2>6. \A s \in 1..Len(sections) :
            /\ sections[s].heading \in 0..Len(answer)
            /\ sections[s].heading # 0 => answer[sections[s].heading] = "heading"
            /\ \A k \in DOMAIN sections[s].items : sections[s].items[k] \in 1..Len(answer)
    BY <2>1, <2>2 DEF DocumentInv, WellRead, WellFiled
  <2>7. ASSUME NEW i \in DOMAIN answer, SaysSomething(i)
        PROVE  \E s \in Printed : sections[s].heading = i
    <3>1. PICK j \in DOMAIN answer :
            /\ i < j /\ answer[j] \in Says
            /\ \A h \in DOMAIN answer : i < h /\ h < j => answer[h] # "heading"
      BY <2>7 DEF SaysSomething
    <3>2. PICK s \in Printed : \E k \in DOMAIN sections[s].items : sections[s].items[k] = j
      BY <2>3, <3>1
    <3>3. PICK t \in 1..Len(sections) : sections[t].heading = i
      BY <2>1, <2>7 DEF SaysSomething, DocumentInv, WellRead
    <3>4. s \in 1..Len(sections) /\ sections[s].heading < j /\ ~(s < t)
      BY <2>1, <2>4, <2>5, <2>6, <3>1, <3>2, <3>3
    <3>5. ~(t < s)
      <4> SUFFICES ASSUME t < s PROVE FALSE
        OBVIOUS
      <4>1. PICK h : h = sections[s].heading
        OBVIOUS
      <4>2. i < h /\ h < j /\ h \in 0..Len(answer) /\ (h # 0 => answer[h] = "heading")
        BY <2>5, <2>6, <3>3, <3>4, <4>1
      <4>3. h \in DOMAIN answer /\ h # 0
        BY <2>1, <4>2
      <4> QED BY <3>1, <4>2, <4>3
    <3>6. s = t
      BY <3>4, <3>5
    <3> QED BY <3>2, <3>3, <3>6
  <2>8. ASSUME NEW i \in DOMAIN answer, NEW s \in Printed, sections[s].heading = i
        PROVE  SaysSomething(i)
    <3>1. s \in 1..Len(sections) /\ 1 \in DOMAIN sections[s].items
      BY <2>1, <2>2
    <3>2. PICK j \in DOMAIN answer : j = sections[s].items[1] /\ i < j /\ answer[j] \in Says
      BY <2>1, <2>4, <2>6, <2>8, <3>1
    <3>3. answer[i] = "heading"
      BY <2>1, <2>6, <2>8, <3>1
    <3>4. ASSUME NEW h \in DOMAIN answer, i < h, h < j, answer[h] = "heading" PROVE FALSE
      <4>1. PICK t \in 1..Len(sections) : sections[t].heading = h
        BY <2>1, <3>4 DEF DocumentInv, WellRead
      <4>2. CASE s < t
        BY <2>1, <2>5, <3>1, <3>2, <3>4, <4>1, <4>2
      <4>3. CASE t < s
        BY <2>1, <2>5, <2>8, <3>1, <3>4, <4>1, <4>3
      <4>4. CASE s = t
        BY <2>1, <2>8, <3>4, <4>1, <4>4
      <4> QED BY <3>1, <4>1, <4>2, <4>3, <4>4
    <3> QED BY <3>2, <3>3, <3>4 DEF SaysSomething
  <2> QED BY <2>1, <2>3, <2>4, <2>5, <2>7, <2>8 DEF NothingLost
<1>3. PostInv => OneConversation
  <2>1. CASE reached = {}
    <3>1. Cardinality(reached) = 0
      BY <2>1, FS_EmptySet
    <3> QED BY <3>1 DEF OneConversation
  <2>2. ASSUME NEW c, reached = {c} PROVE OneConversation
    <3>1. Cardinality(reached) = 1
      BY <2>2, FS_Singleton
    <3> QED BY <3>1 DEF OneConversation
  <2> QED BY <2>1, <2>2 DEF PostInv
<1>4. TranscriptInv /\ DocumentInv /\ PostInv => MinutesAreFaithful
  BY <1>1, <1>2, <1>3 DEF MinutesAreFaithful
<1> QED BY <1>4, TranscriptInvariant, DocumentInvariant, PostInvariant, PTL
=============================================================================
