---------------------------- MODULE AmbientVision ----------------------------
(***************************************************************************)
(* What the caller shows.  Every frame is kept in a short history and      *)
(* offered to the ambient relay, which hands what changed to the model     *)
(* one pass at a time; the model may also look by itself.  Both pay from   *)
(* one VisionBudget, a sliding window with a part only looks may spend.    *)
(***************************************************************************)
EXTENDS Integers, Sequences, FiniteSets

CONSTANTS
    SourceOrder,   \* AMBIENT_SOURCE_ORDER
    Screens,       \* what a frame may show; its digest
    PerMinute,     \* max_per_minute, not 0
    QueueMax,      \* queue_max, one at least
    HistoryMax,    \* KeyframeStore's capacity, one at least
    MaxShown,      \* bound: frames offered
    MaxCharges     \* bound: tokens given out

ASSUME VisionAssumption ==
    /\ SourceOrder \in Seq(STRING)
    /\ PerMinute \in Nat \ {0} /\ QueueMax \in Nat \ {0} /\ HistoryMax \in Nat \ {0}

VARIABLES
    recorded, sinkReady,  \* the call is recorded, the provider can take an image
    shownFrames,  \* frames offered so far: what each showed, where, and whether
                  \* the call was recorded
    latest,       \* _latest: a frame's number, or 0
    latched,      \* _latched: a screen, or NoScreen
    ambientQueue, \* _queue
    flushing, dirty, ambientClosed,
    passAt,       \* the pass: "idle", "drain", "look" or "deliver"
    passReady,    \* its local `ready`
    toDrain,      \* what is left of the queue it took
    toLook,       \* the index of the source it is at
    inHand,       \* the frame being delivered, and its token (0 for a held one)
    keyframes, lastKept,  \* KeyframeStore
    charges,      \* _spent: the tokens
    payer,        \* token -> "ambient" or "look", in the order given out
    looking,      \* tokens whose inference is running
    windowFrom,   \* the first token less than a minute old
    undone,       \* history: tokens whose look did not happen
    given         \* history: the frames handed over, in order

sightVars == <<recorded, sinkReady, shownFrames>>
passVars == <<passAt, passReady, toDrain, toLook, inHand>>
ambientVars == <<latest, latched, ambientQueue, flushing, dirty, ambientClosed, given>>
budgetVars == <<charges, payer, looking, windowFrom, undone>>
storeVars == <<keyframes, lastKept>>
visionVars == <<sightVars, passVars, ambientVars, budgetVars, storeVars>>

NoScreen == "none"
Sources == {SourceOrder[i] : i \in DOMAIN SourceOrder}
NoHand == [frame |-> 0, token |-> 0]
Last(n, s) == IF Len(s) > n THEN SubSeq(s, Len(s) - n + 1, Len(s)) ELSE s
ShowsNow(f) == shownFrames[f].screen
SourceOf(f) == shownFrames[f].source

VisionInit ==
    /\ recorded \in BOOLEAN /\ sinkReady \in BOOLEAN /\ shownFrames = <<>>
    /\ latest = [s \in Sources |-> 0] /\ latched = [s \in Sources |-> NoScreen]
    /\ ambientQueue = <<>> /\ flushing = FALSE /\ dirty = FALSE /\ ambientClosed = FALSE
    /\ passAt = "idle" /\ passReady = FALSE /\ toDrain = <<>> /\ toLook = 0
    /\ inHand = NoHand
    /\ keyframes = <<>> /\ lastKept = [s \in Sources |-> NoScreen]
    /\ charges = {} /\ payer = <<>> /\ looking = {} /\ windowFrom = 1 /\ undone = {}
    /\ given = <<>>

-----------------------------------------------------------------------------
(* VisionBudget *)

Spent == {t \in charges : t >= windowFrom}
ReservePart == IF PerMinute \div 4 > 2 THEN PerMinute \div 4 ELSE 2

\* try_consume: what has left the window is forgotten with the next charge.
Charge(kind) ==
    /\ Cardinality(Spent) < PerMinute
    /\ payer' = Append(payer, kind)
    /\ charges' = Spent \cup {Len(payer) + 1}

ChargeAmbient == Cardinality(Spent) < PerMinute - ReservePart /\ Charge("ambient")

\* Mutant: the charge made last is taken back, whoever made it.
RefundLatest(t) ==
    charges' = IF charges = {} THEN {}
               ELSE charges \ {CHOOSE m \in charges : \A c \in charges : c <= m}
\* A refund takes back its own charge.
Refund(t) == charges' = charges \ {t}

\* A minute after a token was given out.
WindowMoves ==
    /\ windowFrom <= Len(payer) /\ windowFrom' = windowFrom + 1
    /\ UNCHANGED <<sightVars, passVars, ambientVars, charges, payer, looking, undone,
                   storeVars>>

-----------------------------------------------------------------------------
(* look and look_back: refused, or an inference that succeeds or fails. *)

BeginLook ==
    /\ Len(payer) < MaxCharges
    /\ shownFrames # <<>> \/ keyframes # <<>>
    /\ Charge("look")
    /\ looking' = looking \cup {Len(payer) + 1}
    /\ UNCHANGED <<sightVars, passVars, ambientVars, windowFrom, undone, storeVars>>

EndLook(t) ==
    /\ t \in looking /\ looking' = looking \ {t}
    /\ \/ UNCHANGED <<charges, undone>>
       \/ Refund(t) /\ undone' = undone \cup {t}
    /\ UNCHANGED <<sightVars, passVars, ambientVars, payer, windowFrom, storeVars>>

-----------------------------------------------------------------------------
(* A frame arrives: KeyframeStore.offer, then AmbientVision.offer and flush. *)

Keep(f, source, screen) ==
    IF ~recorded \/ lastKept[source] = screen THEN UNCHANGED storeVars
    ELSE /\ lastKept' = [lastKept EXCEPT ![source] = screen]
         /\ keyframes' = Last(HistoryMax, Append(keyframes, f))

\* flush: one pass at a time, and one more after it.
Flush ==
    /\ flushing' = TRUE
    /\ dirty' = (dirty \/ flushing)
    /\ passAt' = IF flushing THEN passAt ELSE "made"

Stores == ~ambientClosed /\ recorded

Frame(source, screen) ==
    LET f == Len(shownFrames) + 1
    IN  /\ f <= MaxShown
        /\ shownFrames' = Append(shownFrames, [source |-> source, screen |-> screen,
                                               recorded |-> recorded])
        /\ Keep(f, source, screen)
        /\ IF Stores
           THEN latest' = [latest EXCEPT ![source] = f] /\ Flush
           ELSE UNCHANGED <<latest, flushing, dirty, passAt>>
    /\ UNCHANGED <<recorded, sinkReady, latched, ambientQueue, ambientClosed, given,
                   passReady, toDrain, toLook, inHand, budgetVars>>

\* flush() from the backstop, which runs from the first stored frame on.
BackstopTick ==
    /\ \E s \in Sources : latest[s] # 0
    /\ ~ambientClosed /\ ~flushing
    /\ Flush
    /\ UNCHANGED <<sightVars, latest, latched, ambientQueue, ambientClosed, given,
                   passReady, toDrain, toLook, inHand, budgetVars, storeVars>>

-----------------------------------------------------------------------------
(* One pass.  Between two deliveries it runs without a break, which is why   *)
(* nothing else happens while passAt is "drain" or "look".                   *)

Running == passAt \in {"drain", "look"}

\* _run ends, or goes round again.
PassOver ==
    IF dirty /\ ~ambientClosed
    THEN passAt' = "made" /\ dirty' = FALSE /\ UNCHANGED flushing
    ELSE passAt' = "idle" /\ flushing' = FALSE /\ UNCHANGED dirty

Changed(s) == latest[s] # 0 /\ latched[s] # ShowsNow(latest[s])

BeginPass ==
    /\ passAt = "made"
    /\ IF ambientClosed
       THEN /\ PassOver
            /\ UNCHANGED <<passReady, toDrain, toLook, ambientQueue>>
       ELSE /\ passAt' = "drain" /\ passReady' = sinkReady /\ toLook' = 1
            /\ IF sinkReady THEN toDrain' = ambientQueue /\ ambientQueue' = <<>>
                         ELSE UNCHANGED <<toDrain, ambientQueue>>
            /\ UNCHANGED <<flushing, dirty>>
    /\ UNCHANGED <<sightVars, latest, latched, ambientClosed, given, inHand, budgetVars,
                   storeVars>>

\* _drain, up to the next delivery.
DrainNext ==
    /\ passAt = "drain"
    /\ IF toDrain = <<>> \/ ambientClosed
       THEN passAt' = "look" /\ toDrain' = <<>> /\ UNCHANGED inHand
       ELSE /\ passAt' = "deliver" /\ toDrain' = Tail(toDrain)
            /\ inHand' = [frame |-> Head(toDrain), token |-> 0]
    /\ UNCHANGED <<sightVars, passReady, toLook, ambientVars, budgetVars, storeVars>>

NothingNew ==
    /\ passAt = "look" /\ toLook <= Len(SourceOrder) /\ ~ambientClosed
    /\ ~Changed(SourceOrder[toLook])
    /\ toLook' = toLook + 1
    /\ UNCHANGED <<sightVars, passAt, passReady, toDrain, inHand, ambientVars,
                   budgetVars, storeVars>>

\* No source is left, the allowance is spent, or the relay is closed.
PassEnds ==
    /\ passAt = "look"
    /\ \/ toLook > Len(SourceOrder) \/ ambientClosed
       \/ /\ toLook <= Len(SourceOrder) /\ Changed(SourceOrder[toLook])
          /\ Cardinality(Spent) >= PerMinute - ReservePart
    /\ PassOver
    /\ UNCHANGED <<sightVars, passReady, toDrain, toLook, inHand, latest, latched,
                   ambientQueue, ambientClosed, given, budgetVars, storeVars>>

\* _hold: charged and latched, the oldest of the queue gives way.
HoldFrame ==
    LET s == SourceOrder[toLook]
    IN  /\ passAt = "look" /\ toLook <= Len(SourceOrder) /\ ~ambientClosed /\ ~passReady
        /\ Len(payer) < MaxCharges
        /\ Changed(s) /\ ChargeAmbient
        /\ latched' = [latched EXCEPT ![s] = ShowsNow(latest[s])]
        /\ ambientQueue' = Last(QueueMax, Append(ambientQueue, latest[s]))
        /\ toLook' = toLook + 1
        /\ UNCHANGED <<sightVars, passAt, passReady, toDrain, inHand, latest, flushing,
                       dirty, ambientClosed, given, looking, windowFrom, undone, storeVars>>

HandFrame ==
    LET s == SourceOrder[toLook]
    IN  /\ passAt = "look" /\ toLook <= Len(SourceOrder) /\ ~ambientClosed /\ passReady
        /\ Len(payer) < MaxCharges
        /\ Changed(s) /\ ChargeAmbient
        /\ passAt' = "deliver"
        /\ inHand' = [frame |-> latest[s], token |-> Len(payer) + 1]
        /\ UNCHANGED <<sightVars, passReady, toDrain, toLook, ambientVars, looking,
                       windowFrom, undone, storeVars>>

\* The sink took it.  A held frame is latched already.
Delivered ==
    /\ passAt = "deliver"
    /\ given' = Append(given, inHand.frame)
    /\ inHand' = NoHand
    /\ IF inHand.token = 0
       THEN passAt' = "drain" /\ UNCHANGED <<toLook, latched>>
       ELSE /\ passAt' = "look" /\ toLook' = toLook + 1
            /\ latched' = IF ambientClosed THEN latched
                          ELSE [latched EXCEPT ![SourceOf(inHand.frame)] =
                                    ShowsNow(inHand.frame)]
    /\ UNCHANGED <<sightVars, passReady, toDrain, latest, ambientQueue, flushing, dirty,
                   ambientClosed, budgetVars, storeVars>>

\* The sink raised: a fresh frame is refunded and tried again, a held one dropped.
DeliveryFails ==
    /\ passAt = "deliver"
    /\ inHand' = NoHand
    /\ IF inHand.token = 0
       THEN passAt' = "drain" /\ UNCHANGED <<toLook, charges, undone>>
       ELSE /\ passAt' = "look" /\ toLook' = toLook + 1
            /\ Refund(inHand.token) /\ undone' = undone \cup {inHand.token}
    /\ UNCHANGED <<sightVars, passReady, toDrain, ambientVars, payer, looking, windowFrom,
                   storeVars>>

-----------------------------------------------------------------------------
CloseAmbient ==
    /\ ~ambientClosed /\ ambientClosed' = TRUE
    /\ latest' = [s \in Sources |-> 0] /\ latched' = [s \in Sources |-> NoScreen]
    /\ ambientQueue' = <<>>
    /\ UNCHANGED <<sightVars, passVars, flushing, dirty, given, budgetVars, storeVars>>

RecordingTurns ==
    /\ recorded' = ~recorded
    /\ UNCHANGED <<sinkReady, shownFrames, passVars, ambientVars, budgetVars, storeVars>>

SinkTurns ==
    /\ sinkReady' = ~sinkReady
    /\ UNCHANGED <<recorded, shownFrames, passVars, ambientVars, budgetVars, storeVars>>

VisionNext ==
    \/ DrainNext \/ NothingNew \/ PassEnds \/ HoldFrame \/ HandFrame
    \/ /\ ~Running
       /\ \/ BeginPass \/ Delivered \/ DeliveryFails
          \/ \E s \in Sources, x \in Screens : Frame(s, x)
          \/ BackstopTick \/ BeginLook \/ \E t \in looking : EndLook(t)
          \/ WindowMoves \/ CloseAmbient \/ RecordingTurns \/ SinkTurns

VisionSpec == VisionInit /\ [][VisionNext]_visionVars

-----------------------------------------------------------------------------
Elements(s) == {s[i] : i \in DOMAIN s}
Handed == IF inHand = NoHand THEN {} ELSE {inHand.frame}

\* The ceiling holds whatever fails and is refunded: no minute sees more looks
\* than it, and the relay leaves the reserve to the caller's own "look at this".
NobodyLooksForFree ==
    LET paid == {t \in windowFrom..Len(payer) : t \notin undone}
        shown == {t \in paid : payer[t] = "ambient"}
    IN  /\ Cardinality(paid) <= PerMinute
        /\ shown # {} => Cardinality(shown) <= PerMinute - ReservePart

\* "the model should see the screen change in the order it happened"
ScreensInOrder ==
    \A i, j \in DOMAIN given :
        i < j /\ SourceOf(given[i]) = SourceOf(given[j]) => given[i] < given[j]

\* Nothing captured while the call was not recorded is ever kept or handed over,
\* whatever the recording does later.
OnlyRecordedFrames ==
    \A f \in Elements(given) \cup Elements(keyframes) \cup Handed : shownFrames[f].recorded

\* The model sees no more than is paid for, in the order it happened, and only
\* what was shown while the call was recorded.
SeesWhatItMay == NobodyLooksForFree /\ ScreensInOrder /\ OnlyRecordedFrames
=============================================================================
