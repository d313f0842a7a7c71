---------------------------- MODULE OutboundLane ----------------------------
(***************************************************************************)
(* The message an outbound call was placed for: parked on disk by place(), *)
(* reserved by the leg that rings, spoken when the call is picked up, and  *)
(* otherwise taken by a sweep or by the call's outcome and posted to chat. *)
(* Several workers share the directory and any of them may stop or crash.  *)
(*                                                                         *)
(* One call is followed; the files of different calls do not meet.  Every  *)
(* move of the record is a rename or an unlink, so it is in one place:     *)
(* <callId>.json (parked), <callId>.answering (reserved), in the hands of  *)
(* a delivery (taken: read and unlinked already), or gone.                 *)
(***************************************************************************)
EXTENDS Naturals, FiniteSets

CONSTANTS
    Workers,      \* the processes that share the directory
    Legs,         \* the answering legs StandIn may dial for the call
    Threads,      \* whether there is a conversation to post to: values considered
    MaxAttempts,  \* MAX_DELIVERY_ATTEMPTS
    MayCrash,     \* whether a worker may die without closing its lane
    MaxStops,     \* bound: how often a worker stops or crashes
    Nobody

ASSUME OutboundLaneAssumption ==
    /\ Threads \subseteq BOOLEAN /\ Threads # {}
    /\ MaxAttempts \in Nat \ {0}
    /\ MayCrash \in BOOLEAN
    /\ MaxStops \in Nat
    /\ Nobody \notin Workers

VARIABLES
    call,       \* what StandIn's call is doing
    placer,     \* the worker between StandIn's acceptance and park()
    reported,   \* StandIn has posted the call's outcome
    thread,     \* the record names a conversation to post to
    record,     \* where the record is
    carrier,    \* the worker that took it, and for what: "sweep" or "outcome"
    attempts,   \* deliveries that failed
    age,        \* since createdMs: "fresh", "stale" past answer_timeout_s,
                \* "expired" past ttl_s
    old,        \* st_mtime is RESERVATION_STALE_S ago
    leg, host,  \* each leg: what it is doing, and the worker it is on
    watched,    \* the legs whose _watch is running
    ending,     \* the legs whose session has been told to end
    closed,     \* _closed of each leg
    up,         \* the workers that run, each with its sweep loop
    finalized,  \* the workers that have the call in _finalized
    polling,    \* the workers whose on_outcome waits for the record
    stops,
    spoken,     \* history: how often the message was said
    posted,     \* history: the chat has it (its idempotency key makes it one)
    faltered,   \* history: the legs on which saying it has failed
    givenUp,    \* history: dropped by _requeue, or with nowhere to post it
    dropped     \* history: a worker went down with the message in its hands

callVars == <<call, placer, reported, thread>>
recVars == <<record, carrier, attempts>>
timeVars == <<age, old>>
legVars == <<leg, host, watched, ending, closed>>
workVars == <<up, finalized, polling, stops>>
histVars == <<spoken, posted, faltered, givenUp, dropped>>
vars == <<callVars, recVars, timeVars, legVars, workVars, histVars>>

TypeOK ==
    /\ call \in {"unplaced", "ringing", "pickedUp", "missed"}
    /\ placer \in Workers \cup {Nobody}
    /\ reported \in BOOLEAN
    /\ thread \in BOOLEAN
    /\ record \in {"none", "parked", "reserved", "taken", "gone"}
    /\ carrier \in [worker : Workers \cup {Nobody}, by : {"sweep", "outcome"}]
    /\ attempts \in 0..MaxAttempts
    /\ age \in {"fresh", "stale", "expired"}
    /\ old \in BOOLEAN
    /\ leg \in [Legs -> {"unborn", "looking", "ready", "speaking", "said", "blank"}]
    /\ host \in [Legs -> Workers \cup {Nobody}]
    /\ watched \subseteq Legs /\ ending \subseteq Legs /\ closed \subseteq Legs
    /\ up \subseteq Workers /\ finalized \subseteq Workers
    /\ polling \subseteq Workers
    /\ stops \in 0..MaxStops
    /\ spoken \in Nat
    /\ posted \in BOOLEAN
    /\ faltered \subseteq Legs
    /\ givenUp \in BOOLEAN
    /\ dropped \in BOOLEAN

Init ==
    /\ call = "unplaced" /\ placer = Nobody /\ reported = FALSE
    /\ thread \in Threads
    /\ record = "none" /\ attempts = 0
    /\ carrier = [worker |-> Nobody, by |-> "sweep"]
    /\ age = "fresh" /\ old = FALSE
    /\ leg = [l \in Legs |-> "unborn"] /\ host = [l \in Legs |-> Nobody]
    /\ watched = {} /\ ending = {} /\ closed = {}
    /\ up = Workers /\ finalized = {} /\ polling = {} /\ stops = 0
    /\ spoken = 0 /\ posted = FALSE /\ faltered = {}
    /\ givenUp = FALSE /\ dropped = FALSE

Alive(l) == host[l] \in up
Open(l) == Alive(l) /\ l \notin closed

\* A leg that has the message and may still be the one to say it.
Holding(l) == Open(l) /\ leg[l] \in {"ready", "speaking"}

Becomes(l, from, to) == leg[l] = from /\ leg' = [leg EXCEPT ![l] = to]

-----------------------------------------------------------------------------
(* Placing the call. *)

\* StandIn has accepted the call; its answer is on the way back to place().
PlaceCall(w) ==
    /\ call = "unplaced" /\ call' = "ringing"
    /\ w \in up /\ placer' = w
    /\ UNCHANGED <<reported, thread, recVars, timeVars, legVars, workVars, histVars>>

Park ==
    /\ placer # Nobody /\ placer' = Nobody
    /\ record' = "parked"
    /\ UNCHANGED <<call, reported, thread, carrier, attempts, timeVars, legVars,
                   workVars, histVars>>

\* The callee's side, as StandIn sees it.
PickUp ==
    /\ call = "ringing" /\ call' = "pickedUp"
    /\ UNCHANGED <<placer, reported, thread, recVars, timeVars, legVars, workVars,
                   histVars>>

Miss ==
    /\ call = "ringing" /\ call' = "missed"
    /\ UNCHANGED <<placer, reported, thread, recVars, timeVars, legVars, workVars,
                   histVars>>

-----------------------------------------------------------------------------
(* The answering leg. *)

\* Mutant: the record is read and left where it was.
ReserveByReading == record = "parked" /\ UNCHANGED record

\* A rename: only one worker can have it.
Reserve == record = "parked" /\ record' = "reserved"

\* attach, from on_start of an outbound call: with the message or still looking
\* for it.  A worker has one live session per callId; StandIn dials its workers
\* within RESERVATION_STALE_S of placing the call.
Attach(l, w) ==
    /\ call \in {"ringing", "pickedUp"}
    /\ ~old
    /\ w \in up
    /\ \A k \in Legs : host[k] = w => k \in closed
    /\ leg[l] = "unborn" /\ host' = [host EXCEPT ![l] = w]
    /\ \/ /\ Reserve
          /\ leg' = [leg EXCEPT ![l] = "ready"]
          /\ watched' = watched \cup {l}
       \/ /\ record # "parked"
          /\ leg' = [leg EXCEPT ![l] = "looking"]
          /\ UNCHANGED <<record, watched>>
    /\ UNCHANGED <<callVars, carrier, attempts, timeVars, ending, closed,
                   workVars, histVars>>

\* _attach_later finds the record; on a leg that has closed by then, arm() does
\* nothing and the reservation stays.
Look(l) ==
    /\ Alive(l)
    /\ Reserve
    /\ Becomes(l, "looking", "ready")
    /\ watched' = IF l \in closed THEN watched ELSE watched \cup {l}
    /\ UNCHANGED <<callVars, carrier, attempts, timeVars, host, ending, closed,
                   workVars, histVars>>

\* PARK_GRACE_S is over; a call already dealt with is ended.
LookEnds(l) ==
    /\ Alive(l)
    /\ Becomes(l, "looking", "blank")
    /\ ending' = IF Open(l) /\ host[l] \in finalized
                 THEN ending \cup {l} ELSE ending
    /\ UNCHANGED <<callVars, recVars, timeVars, host, watched, closed, workVars,
                   histVars>>

\* on_context with the recording active, answered(), or arm() itself.
Speak(l) ==
    /\ call = "pickedUp"
    /\ Open(l)
    /\ Becomes(l, "ready", "speaking")
    /\ watched' = watched \ {l}
    /\ UNCHANGED <<callVars, recVars, timeVars, host, ending, closed, workVars,
                   histVars>>

\* commit unlinks the reservation if there is one.
SpeakReturns(l) ==
    /\ Alive(l)
    /\ Becomes(l, "speaking", "said")
    /\ spoken' = spoken + 1
    /\ record' = IF record = "reserved" THEN "gone" ELSE record
    /\ finalized' = finalized \cup {host[l]}
    /\ UNCHANGED <<callVars, carrier, attempts, timeVars, host, watched, ending,
                   closed, up, polling, stops, posted, faltered, givenUp, dropped>>

\* The leg may try again at the next on_context; nothing watches it any more.
SpeakFails(l) ==
    /\ Alive(l)
    /\ Becomes(l, "speaking", "ready")
    /\ faltered' = faltered \cup {l}
    /\ UNCHANGED <<callVars, recVars, timeVars, host, watched, ending, closed,
                   workVars, spoken, posted, givenUp, dropped>>

\* _watch: nobody answered within answer_timeout_s.
WatchFires(l) ==
    /\ Alive(l)
    /\ l \in watched /\ watched' = watched \ {l}
    /\ ending' = ending \cup {l}
    /\ UNCHANGED <<callVars, recVars, timeVars, leg, host, closed, workVars, histVars>>

\* Mutant: the message of an unanswered leg is retired.
Retire == IF record = "reserved" THEN record' = "gone" ELSE UNCHANGED record

Release == IF record = "reserved" THEN record' = "parked" ELSE UNCHANGED record

\* The leg's aclose, from the handler's: for a hangup, a drop or an end().
LegCloses(l) ==
    /\ Open(l)
    /\ closed' = closed \cup {l}
    /\ watched' = watched \ {l} /\ ending' = ending \ {l}
    /\ IF leg[l] = "ready" THEN Release ELSE UNCHANGED record
    /\ UNCHANGED <<callVars, carrier, attempts, timeVars, leg, host, workVars,
                   histVars>>

-----------------------------------------------------------------------------
(* Nobody answered. *)

Take(w, by) ==
    /\ record' = "taken"
    /\ carrier' = [worker |-> w, by |-> by]
    /\ finalized' = finalized \cup {w}

\* on_outcome: pops the record at once, or waits OUTCOME_GRACE_S for it.
OutcomeArrives(w) ==
    /\ call = "missed" /\ ~reported /\ reported' = TRUE
    /\ w \in up
    /\ IF w \notin finalized /\ record = "parked"
       THEN Take(w, "outcome")
       ELSE UNCHANGED <<record, carrier, finalized>>
    /\ polling' = IF w \notin finalized /\ record # "parked"
                  THEN polling \cup {w} ELSE polling
    /\ UNCHANGED <<call, placer, thread, attempts, timeVars, legVars, up, stops,
                   histVars>>

PollFinds(w) ==
    /\ w \in polling /\ polling' = polling \ {w}
    /\ record = "parked" /\ Take(w, "outcome")
    /\ UNCHANGED <<callVars, attempts, timeVars, legVars, up, stops, histVars>>

PollEnds(w) ==
    /\ w \in polling /\ polling' = polling \ {w}
    /\ UNCHANGED <<callVars, recVars, timeVars, legVars, up, finalized, stops,
                   histVars>>

\* Mutant: reservations are given back whatever their age.
RecoversAll == record = "reserved"
\* Mutant: a start recovers nothing.
RecoversNone == FALSE

\* recover_reservations: the age is that of the file's last writing.
Recovers == record = "reserved" /\ old

\* One sweep: old reservations are given back, stale records are claimed.
Sweep(w) ==
    /\ w \in up
    /\ ~(record = "taken" /\ carrier = [worker |-> w, by |-> "sweep"])
    /\ IF (record = "parked" \/ Recovers) /\ age # "fresh"
       THEN Take(w, "sweep")
       ELSE /\ record' = IF Recovers THEN "parked" ELSE record
            /\ UNCHANGED <<carrier, finalized>>
    /\ UNCHANGED <<callVars, attempts, timeVars, legVars, up, polling, stops, histVars>>

\* A sweep goes on to cancel the call, which may still have been ringing.
CancelsCall ==
    call' \in {call} \cup (IF carrier.by = "sweep" /\ call = "ringing"
                           THEN {"missed"} ELSE {})

DeliverySucceeds ==
    /\ record = "taken" /\ record' = "gone"
    /\ thread
    /\ posted' = TRUE
    /\ CancelsCall
    /\ UNCHANGED <<placer, reported, thread, carrier, attempts, timeVars, legVars,
                   workVars, spoken, faltered, givenUp, dropped>>

\* No conversation to post to: the record is retired with a line in the log.
DeliveryImpossible ==
    /\ record = "taken" /\ record' = "gone"
    /\ ~thread
    /\ givenUp' = TRUE
    /\ CancelsCall
    /\ UNCHANGED <<placer, reported, thread, carrier, attempts, timeVars, legVars,
                   workVars, spoken, posted, faltered, dropped>>

\* _requeue: parks it again, with a new mtime but the old createdMs, or gives up.
Requeue ==
    IF attempts + 1 >= MaxAttempts \/ age = "expired"
    THEN record' = "gone" /\ givenUp' = TRUE /\ UNCHANGED <<old, finalized>>
    ELSE /\ record' = "parked" /\ old' = FALSE
         /\ finalized' = finalized \ {carrier.worker}
         /\ UNCHANGED givenUp

\* The chat refuses, is not connected, or raises; the post may have gone through.
DeliveryFails ==
    /\ record = "taken"
    /\ thread
    /\ posted' \in {posted, TRUE}
    /\ attempts' = attempts + 1
    /\ Requeue
    /\ CancelsCall
    /\ UNCHANGED <<placer, reported, thread, carrier, age, legVars, up, polling,
                   stops, spoken, faltered, dropped>>

-----------------------------------------------------------------------------
(* Workers going down and coming back, and time. *)

\* What a worker has only in memory goes with it, its legs for good.
GoesDown(w) ==
    /\ w \in up /\ up' = up \ {w}
    /\ stops < MaxStops /\ stops' = stops + 1
    /\ polling' = polling \ {w}
    /\ finalized' = finalized \ {w}
    /\ LET inHand == record = "taken" /\ carrier.worker = w
       IN  /\ record' = IF inHand THEN "gone" ELSE record
           /\ dropped' = (dropped \/ inHand \/ placer = w)
    /\ placer' = IF placer = w THEN Nobody ELSE placer
    /\ leg' = [l \in Legs |-> IF host[l] = w THEN "blank" ELSE leg[l]]

\* The host closes its calls, lets its requests finish and closes the lane,
\* which cancels the sweep wherever it is.
Stops(w) ==
    /\ placer # w /\ w \notin polling
    /\ carrier.worker = w /\ record = "taken" => carrier.by = "sweep"
    /\ \A l \in Legs : host[l] = w => l \in closed /\ leg[l] # "speaking"
    /\ GoesDown(w)
    /\ UNCHANGED <<call, reported, thread, carrier, attempts, timeVars, host, watched,
                   ending, closed, spoken, posted, faltered, givenUp>>

Crashes(w) ==
    /\ MayCrash
    /\ GoesDown(w)
    /\ closed' = closed \cup {l \in Legs : host[l] = w}
    /\ watched' = {l \in watched : host[l] # w}
    /\ ending' = {l \in ending : host[l] # w}
    /\ UNCHANGED <<call, reported, thread, carrier, attempts, timeVars, host,
                   spoken, posted, faltered, givenUp>>

Restarts(w) ==
    /\ w \notin up /\ up' = up \cup {w}
    /\ UNCHANGED <<callVars, recVars, timeVars, legVars, finalized, polling, stops,
                   histVars>>

GetsStale ==
    /\ record # "none" /\ age = "fresh" /\ age' = "stale"
    /\ UNCHANGED <<callVars, recVars, old, legVars, workVars, histVars>>

\* RESERVATION_STALE_S is five times answer_timeout_s and twenty sweeps long.
\* By then every leg's watchdog has ended it and every speech is over, except
\* on a leg whose speech has failed, and no running sweep has left a stale
\* record parked.
GetsOld ==
    /\ ~old /\ old' = TRUE
    /\ age # "fresh"
    /\ record = "parked" => up = {}
    /\ \A l \in Legs : Alive(l) =>
           /\ leg[l] # "looking"
           /\ Holding(l) \/ leg[l] = "speaking" => l \in faltered
    /\ UNCHANGED <<callVars, recVars, age, legVars, workVars, histVars>>

Expires ==
    /\ age = "stale" /\ old /\ age' = "expired"
    /\ UNCHANGED <<callVars, recVars, old, legVars, workVars, histVars>>

-----------------------------------------------------------------------------
LegSteps(l) ==
    \/ \E w \in Workers : Attach(l, w)
    \/ Look(l) \/ LookEnds(l) \/ Speak(l) \/ SpeakReturns(l) \/ SpeakFails(l)
    \/ WatchFires(l) \/ LegCloses(l)

WorkerSteps(w) ==
    \/ PlaceCall(w) \/ OutcomeArrives(w) \/ PollFinds(w) \/ PollEnds(w) \/ Sweep(w)
    \/ Stops(w) \/ Crashes(w) \/ Restarts(w)

Next ==
    \/ Park \/ PickUp \/ Miss
    \/ \E l \in Legs : LegSteps(l)
    \/ \E w \in Workers : WorkerSteps(w)
    \/ DeliverySucceeds \/ DeliveryImpossible \/ DeliveryFails
    \/ GetsStale \/ GetsOld \/ Expires

Spec == Init /\ [][Next]_vars

\* Sweeps keep running and time passes; the chat's send and the plugin's speak
\* return; a worker that went down is started again.
Fairness ==
    /\ \A w \in Workers : WF_vars(Sweep(w)) /\ WF_vars(Restarts(w))
    /\ WF_vars(Park)
    /\ WF_vars(DeliverySucceeds \/ DeliveryImpossible \/ DeliveryFails)
    /\ WF_vars(GetsStale) /\ WF_vars(GetsOld)
    /\ \A l \in Legs :
           /\ WF_vars(LookEnds(l)) /\ WF_vars(WatchFires(l))
           /\ WF_vars(SpeakReturns(l) \/ SpeakFails(l))
           /\ WF_vars(l \in ending /\ LegCloses(l))

FairSpec == Spec /\ Fairness

-----------------------------------------------------------------------------
\* The rename is the lock: no two legs hold the message, and what a leg holds
\* neither a sweep nor an outcome can take.  A leg whose speech has failed keeps
\* its copy beyond RESERVATION_STALE_S, so those histories are excepted.
HeldByOneLeg ==
    faltered = {} => \A l \in Legs : Holding(l) =>
        /\ record = "reserved"
        /\ \A k \in Legs : Holding(k) => k = l

\* The person is told once, by voice or in the chat, when no speech and no post
\* has failed on the way.
ToldOnce ==
    faltered = {} /\ attempts = 0 => spoken + (IF posted THEN 1 ELSE 0) <= 1

\* A record leaves the disk for good only when the message was said, posted or
\* given up, or when a worker goes down with it in its hands.
AccountedFor ==
    record = "gone" => spoken > 0 \/ posted \/ givenUp \/ dropped

\* OutboundLane: "a restart between the ring and the answer loses nothing".
StoppingLosesNothing == ~dropped

\* on_outcome answers at once when the call is in _finalized, since "the sweep
\* already told them": then the record is not waiting on disk.
FinalizedIsSettled ==
    \A w \in finalized : faltered = {} => record \in {"taken", "gone"}

\* A parked message comes to be said, posted or given up, whichever leg or
\* worker fails it on the way.
EventuallySettled == record = "parked" ~> record = "gone"
=============================================================================
