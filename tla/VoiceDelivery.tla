----------------------------- MODULE VoiceDelivery -----------------------------
(***************************************************************************)
(* How a line of text reaches a person: into the live call of their        *)
(* conversation when one is registered, otherwise by a call that is placed *)
(* for it, and for which the line is parked.  The allowlist and the hourly *)
(* cap are judged before the request is sent and the call is counted when  *)
(* it is answered, so requests under way together do not see each other.   *)
(* Everybody here is one person in one conversation.                       *)
(***************************************************************************)
EXTENDS Naturals, Sequences, FiniteSets

CONSTANTS
    LiveLegs,     \* the calls of that conversation
    Lines,        \* the lines to deliver: through VoiceDelivery, or,
    LaneLines,    \* these among them, through OutboundLane.place
    NoCall,
    MaxPerHour,   \* max_per_hour; 0, no cap, is not modelled
    Hour,         \* the sliding window, in ticks
    RequestsAtOnce,  \* bound: requests under way together
    MaxClock      \* bound: ticks

\* The cap is set, and requests are made one at a time or several together.
ASSUME DeliveryAssumption ==
    /\ IsFiniteSet(Lines)
    /\ MaxPerHour \in Nat \ {0} /\ Hour \in Nat /\ RequestsAtOnce \in Nat \ {0}

VARIABLES
    callUp,     \* each call: "before", "up" or "ended"
    byThread,   \* the registry's entry of the conversation
    newest,     \* history: the last call registered
    errand,     \* each line: "new", "speaking", "placing", or how it
                \* ended: "said", "parked", "unsaved", "refused", "failed"
    parked,     \* the lines waiting for their call to be answered
    placed,     \* _placed: the calls that are counted, by their number in rung
    rung,       \* when phones rang, in order
    uncounted,  \* history: those of them whose request ended in an error
    hours       \* monotonic clock

deliveryVars == <<callUp, byThread, newest, errand, parked, placed, rung, uncounted, hours>>

DeliveryInit ==
    /\ callUp = [c \in LiveLegs |-> "before"] /\ byThread = NoCall /\ newest = NoCall
    /\ errand = [l \in Lines |-> "new"]
    /\ parked = {} /\ placed = {} /\ rung = <<>> /\ uncounted = {} /\ hours = 0

ErrandGoes(l, where) == errand' = [errand EXCEPT ![l] = where]

-----------------------------------------------------------------------------
\* LiveCalls.
Registers(c) ==
    /\ callUp[c] = "before" /\ callUp' = [callUp EXCEPT ![c] = "up"]
    /\ byThread' = c /\ newest' = c
    /\ UNCHANGED <<errand, parked, placed, rung, uncounted, hours>>

\* Mutant: whatever call the conversation has is forgotten.
DeletesBlindly(c) == byThread' = NoCall
\* A second call of the conversation may be up before the first one's teardown.
DeletesItsOwn(c) == byThread' = IF byThread = c THEN NoCall ELSE byThread

Unregisters(c) ==
    /\ callUp[c] = "up" /\ callUp' = [callUp EXCEPT ![c] = "ended"]
    /\ DeletesItsOwn(c)
    /\ UNCHANGED <<newest, errand, parked, placed, rung, uncounted, hours>>

-----------------------------------------------------------------------------
\* Mutant: no placement is remembered.
ForgetsAll == {}
\* OutboundPolicy.check: only what is younger than an hour counts.
Recent == {i \in placed : rung[i] + Hour > hours}

Judged(l) ==
    /\ placed' = Recent
    /\ IF Cardinality(Recent) >= MaxPerHour THEN ErrandGoes(l, "refused") ELSE ErrandGoes(l, "placing")

\* VoiceDelivery.deliver: the live call first.
Deliver(l) ==
    /\ errand[l] = "new" /\ l \notin LaneLines
    /\ IF byThread # NoCall
         THEN ErrandGoes(l, "speaking") /\ UNCHANGED placed
         ELSE Judged(l)
    /\ UNCHANGED <<callUp, byThread, newest, parked, rung, uncounted, hours>>

\* A say() that fails falls through to the call-back.
SaidIt(l) ==
    /\ errand[l] = "speaking" /\ ErrandGoes(l, "said")
    /\ UNCHANGED <<callUp, byThread, newest, parked, placed, rung, uncounted, hours>>

SayFails(l) ==
    /\ errand[l] = "speaking" /\ Judged(l)
    /\ UNCHANGED <<callUp, byThread, newest, parked, rung, uncounted, hours>>

\* OutboundLane.place: one call per person at a time.
Place(l) ==
    /\ errand[l] = "new" /\ l \in LaneLines
    /\ IF parked # {}
         THEN ErrandGoes(l, "refused") /\ placed' = Recent
         ELSE Judged(l)
    /\ UNCHANGED <<callUp, byThread, newest, parked, rung, uncounted, hours>>

\* The request is answered: the call rings, and only now is it counted.
Rings(l) ==
    /\ errand[l] = "placing"
    /\ rung' = Append(rung, hours) /\ placed' = placed \cup {Len(rung')}
    /\ \/ ErrandGoes(l, "parked") /\ parked' = parked \cup {l}
       \/ ErrandGoes(l, "unsaved") /\ UNCHANGED parked
    /\ UNCHANGED <<callUp, byThread, newest, uncounted, hours>>

\* The request is refused, or never arrives.
PlaceFails(l) ==
    /\ errand[l] = "placing" /\ ErrandGoes(l, "failed")
    /\ UNCHANGED <<callUp, byThread, newest, parked, placed, rung, uncounted, hours>>

\* It times out, or its answer bears no callId, after StandIn has dialled: the phone
\* rings, and the call is neither counted nor parked for.
RingsAllTheSame(l) ==
    /\ errand[l] = "placing" /\ ErrandGoes(l, "failed")
    /\ rung' = Append(rung, hours) /\ uncounted' = uncounted \cup {Len(rung')}
    /\ UNCHANGED <<callUp, byThread, newest, parked, placed, hours>>

Answered(l) ==
    /\ l \in parked /\ parked' = parked \ {l}
    /\ UNCHANGED <<callUp, byThread, newest, errand, placed, rung, uncounted, hours>>

HoursPass ==
    /\ hours < MaxClock /\ hours' = hours + 1
    /\ UNCHANGED <<callUp, byThread, newest, errand, parked, placed, rung, uncounted>>

UnderWay == Cardinality({l \in Lines : errand[l] = "placing"})

DeliveryNext ==
    \/ \E c \in LiveLegs : Registers(c) \/ Unregisters(c)
    \/ UnderWay < RequestsAtOnce /\ \E l \in Lines : Deliver(l) \/ Place(l) \/ SayFails(l)
    \/ \E l \in Lines : SaidIt(l) \/ Rings(l) \/ PlaceFails(l) \/ RingsAllTheSame(l) \/ Answered(l)
    \/ HoursPass

DeliverySpec == DeliveryInit /\ [][DeliveryNext]_deliveryVars

-----------------------------------------------------------------------------
\* A person on the line is not rung: as long as the newest call of the
\* conversation is up, a delivery finds it, whichever call ends before it.
NewestCallIsFound ==
    newest # NoCall /\ callUp[newest] = "up" => byThread = newest

\* "Calls placed in any rolling hour": no hour rings more phones than the cap allows
\* and the requests that were already under way when it was reached.  Phones that
\* rang for a request that ended in an error are not counted by the code, and come on
\* top.  "I am already calling that person": nor does the lane wait for more calls to
\* one person than requests were under way together.
CapHoldsButForOverlap ==
    /\ \A i \in DOMAIN rung :
           Cardinality({j \in DOMAIN rung \ uncounted :
                           rung[j] <= rung[i] /\ rung[j] + Hour > rung[i]})
               <= MaxPerHour + RequestsAtOnce - 1
    /\ Cardinality({l \in Lines \cap LaneLines : l \in parked}) <= RequestsAtOnce
=============================================================================
