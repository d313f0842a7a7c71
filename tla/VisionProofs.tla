----------------------------- MODULE VisionProofs -----------------------------
(***************************************************************************)
(* Theorems about what the caller sees and shows: the tile of a call, for  *)
(* any number of frames; the ambient relay, for any budget, queue, history *)
(* and sources; and the slideshow, for any number of calls and pictures.   *)
(***************************************************************************)
EXTENDS TileRelay, AmbientVision, Slideshow, FiniteSetTheorems, SequenceTheorems,
        TLAPS

(***************************************************************************)
(* The tile (tile.py).                                                     *)
(***************************************************************************)

TileTypeOK ==
    /\ offered \in Nat /\ slot \in Nat /\ frameInHand \in Nat
    /\ tileStage \in {"idle", "taken", "encoding", "sending"}
    /\ tiled \in Seq(Nat)

\* Every frame sent is older than n.
OlderThan(n) == \A i \in 1..Len(tiled) : tiled[i] < n

\* NewestFrameWins says nothing of the frame that is being worked on, which is
\* what the next frame sent will be: it has to be newer than all that were sent,
\* and older than the one that waits in the slot.
TileInv ==
    /\ TileTypeOK
    /\ OlderThan(offered + 1) /\ frameInHand <= offered
    /\ slot # 0 => slot = offered /\ frameInHand < slot /\ OlderThan(slot)
    /\ tileStage = "idle" => frameInHand = 0
    /\ tileStage \in {"taken", "encoding"} => OlderThan(frameInHand)
    /\ tileStage = "sending" => \E i \in 1..Len(tiled) : tiled[i] = frameInHand
    /\ NewestFrameWins

\* What a step does that neither sends a frame nor changes what was sent.
LEMMA SendsKeepOrder ==
    ASSUME TileInv, tileStage \in {"taken", "encoding"}, SendsFrame,
           UNCHANGED <<offered, slot, tileOver>>
    PROVE  TileInv'
<1> USE DEF TileInv, TileTypeOK, OlderThan, NewestFrameWins
<1>1. /\ Len(tiled') = Len(tiled) + 1 /\ tiled' \in Seq(Nat)
      /\ tiled'[Len(tiled) + 1] = frameInHand
      /\ \A i \in 1..Len(tiled) : tiled'[i] = tiled[i]
  BY DEF SendsFrame
<1>2. TileTypeOK' /\ tileStage' = "sending" /\ frameInHand' = frameInHand
  BY <1>1 DEF SendsFrame
<1>3. OlderThan(offered + 1)' /\ (slot # 0 => OlderThan(slot))'
  <2>1. \A i \in 1..Len(tiled') : tiled'[i] \in Nat /\ tiled'[i] <= frameInHand
    <3> TAKE i \in 1..Len(tiled')
    <3>1. CASE i = Len(tiled) + 1
      BY <3>1, <1>1
    <3>2. CASE i \in 1..Len(tiled)
      <4>1. tiled'[i] = tiled[i] /\ tiled[i] < frameInHand /\ tiled[i] \in Nat
        BY SMTT(20), <3>2, <1>1
      <4> QED BY <4>1
    <3> QED BY <3>1, <3>2, <1>1
  <2>2. offered' = offered /\ slot' = slot /\ frameInHand <= offered
    OBVIOUS
  <2> QED BY <2>1, <2>2
<1>4. \A i \in 1..Len(tiled') - 1 : tiled'[i] < tiled'[i + 1]
  <2> SUFFICES ASSUME NEW i \in 1..Len(tiled) PROVE tiled'[i] < tiled'[i + 1]
    <3>1. Len(tiled') - 1 = Len(tiled)
      BY <1>1
    <3> QED BY <3>1
  <2>1. CASE i = Len(tiled)
    <3>1. tiled[i] < frameInHand /\ tiled'[i] = tiled[i]
      BY <1>1
    <3> QED BY <2>1, <1>1, <3>1
  <2>2. CASE i < Len(tiled)
    <3>1. i \in 1..(Len(tiled) - 1) /\ i + 1 \in 1..Len(tiled)
      BY <2>2
    <3> QED BY <3>1, <1>1
  <2> QED BY <2>1, <2>2
<1>5. Len(tiled) + 1 \in 1..Len(tiled') /\ DOMAIN tiled' = 1..Len(tiled')
  BY <1>1
<1>6. (\E i \in DOMAIN tiled : tiled[i] = offered)
        => \E i \in DOMAIN tiled' : tiled'[i] = offered
  <2> SUFFICES ASSUME NEW i \in DOMAIN tiled, tiled[i] = offered
               PROVE  \E k \in DOMAIN tiled' : tiled'[k] = offered
    OBVIOUS
  <2>1. i \in 1..Len(tiled) /\ i \in DOMAIN tiled' /\ tiled'[i] = offered
    <3>1. i \in 1..Len(tiled)
      OBVIOUS
    <3>2. i \in 1..Len(tiled')
      BY <3>1, <1>1
    <3> QED BY <3>1, <3>2, <1>1, <1>5
  <2> QED BY <2>1
<1>7. NewestFrameWins'
  BY <1>1, <1>2, <1>4, <1>5, <1>6 DEF SendsFrame
<1>8. \E i \in 1..Len(tiled') : tiled'[i] = frameInHand'
  BY <1>1, <1>2, <1>5
<1>9. (frameInHand <= offered)' /\ (slot # 0 => slot = offered /\ frameInHand < slot)'
  BY <1>2
<1> QED BY <1>2, <1>3, <1>7, <1>8, <1>9

\* The invariant is kept by every offer, tick, encoding and close (TileStream).
THEOREM TileInvariant == TileSpec => []TileInv
<1>1. TileInit => TileInv
  BY DEF TileInit, TileInv, TileTypeOK, OlderThan, NewestFrameWins
<1>2. TileInv /\ [TileNext]_tileVars => TileInv'
  <2> SUFFICES ASSUME TileInv, [TileNext]_tileVars PROVE TileInv'
    OBVIOUS
  <2> USE DEF TileInv, TileTypeOK, OlderThan, NewestFrameWins
  <2>1. CASE Offer
    BY <2>1 DEF Offer
  <2>2. CASE StartTile
    BY <2>2 DEF StartTile
  <2>3. CASE Take
    BY <2>3 DEF Take
  <2>4. CASE tileStage \in {"taken", "encoding"} /\ DropsFrame /\ UNCHANGED <<offered, slot, tileOver>>
    BY <2>4 DEF DropsFrame
  <2>5. CASE tileStage \in {"taken", "encoding"} /\ SendsFrame /\ UNCHANGED <<offered, slot, tileOver>>
    BY <2>5, SendsKeepOrder
  <2>6. CASE Judge
    <3>1. CASE tileStage' = "encoding" /\ UNCHANGED <<frameInHand, dropped, tiled>>
      BY <2>6, <3>1 DEF Judge
    <3> QED BY <2>4, <2>5, <2>6, <3>1 DEF Judge
  <2>7. CASE Encoded
    BY <2>4, <2>5, <2>7 DEF Encoded, LeavesSlot
  <2>8. CASE Sent
    BY <2>8 DEF Sent
  <2>9. CASE CloseTile
    BY <2>9 DEF CloseTile
  <2>10. CASE UNCHANGED tileVars
    BY <2>10 DEF tileVars
  <2> QED BY <2>1, <2>2, <2>3, <2>6, <2>7, <2>8, <2>9, <2>10 DEF TileNext
<1> QED BY <1>1, <1>2, PTL DEF TileSpec

\* The tile never goes back to an older frame, and the newest one is never lost
\* between the slot and the encoder, however many frames are offered and however
\* long an encoding takes.
THEOREM TileShowsTheNewest == TileSpec => []NewestFrameWins
<1>1. TileInv => NewestFrameWins
  BY DEF TileInv
<1> QED BY <1>1, TileInvariant, PTL

(***************************************************************************)
(* What may be looked at: the budget (vision_tools.py).                    *)
(***************************************************************************)
Paid == {t \in windowFrom..Len(payer) : t \notin undone}
AmbientSpent == {t \in Spent : payer[t] = "ambient"}

\* NobodyLooksForFree counts the looks that happened, try_consume what is left in
\* its dictionary: no look that happened may be missing there.
BudgetInv ==
    /\ payer \in Seq({"ambient", "look"}) /\ windowFrom \in Nat \ {0}
    /\ charges \subseteq 1..Len(payer)
    /\ Paid \subseteq Spent
    /\ Cardinality(Spent) <= PerMinute
    /\ AmbientSpent # {} => Cardinality(AmbientSpent) <= PerMinute - ReservePart

\* The looks of a minute can be counted.
LEMMA SpentIsFinite == BudgetInv => IsFiniteSet(Spent)
<1> SUFFICES ASSUME BudgetInv PROVE IsFiniteSet(Spent)
  OBVIOUS
<1>1. Len(payer) \in Int
  BY DEF BudgetInv
<1>2. IsFiniteSet(1..Len(payer))
  BY <1>1, FS_Interval
<1>3. Spent \in SUBSET (1..Len(payer))
  BY DEF BudgetInv, Spent
<1> QED BY <1>2, <1>3, FS_Subset

\* A look is charged only where one is left, and one of the relay only above the
\* reserve.
LEMMA ChargeKeeps ==
    ASSUME BudgetInv, NEW kind \in {"ambient", "look"}, Charge(kind),
           kind = "ambient" => Cardinality(Spent) < PerMinute - ReservePart,
           UNCHANGED <<windowFrom, undone>>
    PROVE  BudgetInv'
<1>1. PICK n \in Nat : n = Len(payer) + 1
  BY DEF BudgetInv
<1>2. /\ payer' \in Seq({"ambient", "look"}) /\ Len(payer') = n /\ Len(payer) = n - 1
      /\ \A t \in 1..Len(payer) : payer'[t] = payer[t]
      /\ payer'[n] = kind
  BY <1>1 DEF BudgetInv, Charge
<1>3. IsFiniteSet(Spent) /\ Cardinality(Spent) \in Nat
  BY SpentIsFinite, FS_CardinalityType
<1>4. charges' = Spent \cup {n} /\ Cardinality(Spent) < PerMinute
  BY <1>1 DEF Charge
<1>5. Spent' \subseteq Spent \cup {n} /\ Paid' \subseteq Paid \cup {n}
  BY <1>1, <1>2, <1>4 DEF Spent, Paid, BudgetInv
<1>6. Paid' \subseteq Spent'
  <2>1. \A t \in Paid' : t \in charges'
    BY <1>4, <1>5 DEF BudgetInv
  <2>2. \A t \in Paid' : t >= windowFrom'
    BY DEF Paid
  <2> QED BY <2>1, <2>2 DEF Spent
<1>7. Cardinality(Spent') <= Cardinality(Spent) + 1 /\ IsFiniteSet(Spent')
  <2>1. IsFiniteSet(Spent \cup {n}) /\ Cardinality(Spent \cup {n}) <= Cardinality(Spent) + 1
    BY <1>3, FS_AddElement
  <2>2. IsFiniteSet(Spent') /\ Cardinality(Spent') <= Cardinality(Spent \cup {n})
    BY <1>5, <2>1, FS_Subset
  <2>3. Cardinality(Spent') \in Nat /\ Cardinality(Spent \cup {n}) \in Nat
    BY <2>1, <2>2, FS_CardinalityType
  <2> QED BY <1>3, <2>1, <2>2, <2>3
<1>8. Cardinality(Spent') \in Nat /\ PerMinute \in Nat /\ ReservePart \in Nat
  BY <1>7, FS_CardinalityType, VisionAssumption DEF VisionAssumption, ReservePart
<1>9. AmbientSpent' # {} => Cardinality(AmbientSpent') <= PerMinute - ReservePart
  <2>1. CASE kind = "ambient"
    <3>1. AmbientSpent' \in SUBSET Spent'
      BY DEF AmbientSpent
    <3>2. Cardinality(AmbientSpent') <= Cardinality(Spent') /\ Cardinality(AmbientSpent') \in Nat
      BY <1>7, <3>1, FS_Subset, FS_CardinalityType
    <3> QED BY <1>3, <1>7, <1>8, <2>1, <3>2
  <2>2. CASE kind = "look"
    <3>1. AmbientSpent' \in SUBSET AmbientSpent
      <4> SUFFICES ASSUME NEW t, t \in AmbientSpent' PROVE t \in AmbientSpent
        OBVIOUS
      <4>1. t \in Spent' /\ payer'[t] = "ambient"
        BY DEF AmbientSpent
      <4>2. t \in Spent /\ t \in 1..Len(payer)
        BY <1>2, <1>5, <2>2, <4>1 DEF Spent, BudgetInv
      <4> QED BY <1>2, <4>1, <4>2 DEF AmbientSpent
    <3>2. IsFiniteSet(AmbientSpent)
      <4>1. AmbientSpent \in SUBSET Spent
        BY DEF AmbientSpent
      <4> QED BY <1>3, <4>1, FS_Subset
    <3>3. /\ Cardinality(AmbientSpent') <= Cardinality(AmbientSpent)
          /\ Cardinality(AmbientSpent') \in Nat /\ Cardinality(AmbientSpent) \in Nat
      BY <3>1, <3>2, FS_Subset, FS_CardinalityType
    <3>4. AmbientSpent' # {} => AmbientSpent # {}
      BY <3>1
    <3>5. AmbientSpent' # {} => Cardinality(AmbientSpent) <= PerMinute - ReservePart
      BY <3>4 DEF BudgetInv
    <3> QED BY <1>8, <3>3, <3>5
  <2> QED BY <2>1, <2>2
<1>10. charges' \subseteq 1..n
  <2>1. 1..Len(payer) \subseteq 1..n /\ n \in 1..n
    BY <1>1, <1>2
  <2>2. Spent \subseteq 1..Len(payer)
    BY DEF BudgetInv, Spent
  <2> QED BY <1>4, <2>1, <2>2
<1> QED BY <1>2, <1>3, <1>4, <1>6, <1>7, <1>8, <1>9, <1>10 DEF BudgetInv

\* What leaves the dictionary did not happen, or is a minute old.
LEMMA LessIsSpent ==
    ASSUME BudgetInv, payer' = payer, charges' \subseteq charges, windowFrom' \in Nat \ {0},
           Spent' \subseteq Spent, Paid' \subseteq Spent'
    PROVE  BudgetInv'
<1>1. IsFiniteSet(Spent)
  BY SpentIsFinite
<1>2. IsFiniteSet(AmbientSpent) /\ AmbientSpent' \in SUBSET AmbientSpent
  <2>1. AmbientSpent \in SUBSET Spent /\ AmbientSpent' \in SUBSET AmbientSpent
    BY DEF AmbientSpent
  <2> QED BY <1>1, <2>1, FS_Subset
<1>3. /\ Cardinality(Spent') <= Cardinality(Spent)
      /\ Cardinality(AmbientSpent') <= Cardinality(AmbientSpent)
  BY <1>1, <1>2, FS_Subset
<1>4. IsFiniteSet(Spent') /\ IsFiniteSet(AmbientSpent')
  BY <1>1, <1>2, FS_Subset
<1>5. /\ Cardinality(Spent') \in Nat /\ Cardinality(Spent) \in Nat
      /\ Cardinality(AmbientSpent') \in Nat /\ Cardinality(AmbientSpent) \in Nat
  BY <1>1, <1>2, <1>4, FS_CardinalityType
<1>6. PerMinute \in Nat /\ ReservePart \in Nat
  BY VisionAssumption DEF VisionAssumption, ReservePart
<1>7. Cardinality(Spent') <= PerMinute
  BY <1>3, <1>5, <1>6 DEF BudgetInv
<1>8. AmbientSpent' # {} => Cardinality(AmbientSpent') <= PerMinute - ReservePart
  <2>1. AmbientSpent' # {} => Cardinality(AmbientSpent) <= PerMinute - ReservePart
    BY <1>2 DEF BudgetInv
  <2> QED BY <1>3, <1>5, <1>6, <2>1
<1>9. payer' \in Seq({"ambient", "look"}) /\ charges' \subseteq 1..Len(payer')
  BY DEF BudgetInv
<1> QED BY <1>7, <1>8, <1>9 DEF BudgetInv

\* A refund takes one look off the books, and that look has not happened.
LEMMA RefundKeeps ==
    ASSUME BudgetInv, NEW t, Refund(t), undone' = undone \cup {t}, UNCHANGED <<payer, windowFrom>>
    PROVE  BudgetInv'
<1>1. Spent' = Spent \ {t}
  BY DEF Refund, Spent
<1>2. Paid' = Paid \ {t}
  BY DEF Paid
<1>3. charges' \subseteq charges /\ windowFrom' \in Nat \ {0}
  BY DEF Refund, BudgetInv
<1>4. Paid' \subseteq Spent'
  BY <1>1, <1>2 DEF BudgetInv
<1> QED BY <1>1, <1>3, <1>4, LessIsSpent

\* The looks of any minute are within the ceiling, and those of the relay leave the
\* reserve, whatever fails, is refunded, and overlaps (VisionBudget).
THEOREM BudgetInvariant == VisionSpec => []BudgetInv
<1>1. VisionInit => BudgetInv
  <2> SUFFICES ASSUME VisionInit PROVE BudgetInv
    OBVIOUS
  <2>1. payer = <<>> /\ charges = {} /\ windowFrom = 1
    BY DEF VisionInit
  <2>2. Spent = {} /\ Paid = {} /\ AmbientSpent = {}
    BY <2>1 DEF Spent, Paid, AmbientSpent
  <2>3. Cardinality({}) = 0
    BY FS_EmptySet
  <2> QED BY <2>1, <2>2, <2>3, VisionAssumption DEF VisionAssumption, BudgetInv
<1>2. BudgetInv /\ [VisionNext]_visionVars => BudgetInv'
  <2> SUFFICES ASSUME BudgetInv, [VisionNext]_visionVars PROVE BudgetInv'
    OBVIOUS
  <2>1. ASSUME UNCHANGED <<charges, payer, windowFrom, undone>> PROVE BudgetInv'
    BY <2>1 DEF BudgetInv, Spent, Paid, AmbientSpent
  <2>2. CASE \E t \in looking : EndLook(t)
    <3> SUFFICES ASSUME NEW t \in looking, EndLook(t) PROVE BudgetInv'
      BY <2>2
    <3>1. CASE UNCHANGED <<charges, undone>>
      BY <2>1, <3>1 DEF EndLook
    <3>2. CASE Refund(t) /\ undone' = undone \cup {t}
      BY <3>2, RefundKeeps DEF EndLook
    <3> QED BY <3>1, <3>2 DEF EndLook
  <2>3. CASE WindowMoves
    <3>1. /\ windowFrom' = windowFrom + 1 /\ windowFrom' \in Nat \ {0}
          /\ UNCHANGED <<charges, payer, undone>>
      BY <2>3 DEF WindowMoves, BudgetInv
    <3>2. windowFrom \in Nat /\ Len(payer) \in Nat /\ charges \subseteq Nat
      BY DEF BudgetInv
    <3>3. Spent' \subseteq Spent
      <4>1. \A t \in charges : t \in Nat /\ (t >= windowFrom + 1 => t >= windowFrom)
        BY <3>2
      <4> QED BY <3>1, <4>1 DEF Spent
    <3>4. \A t \in Paid' : t \in Paid /\ t >= windowFrom'
      <4>1. Paid' = {t \in (windowFrom + 1)..Len(payer) : t \notin undone}
        BY <3>1 DEF Paid
      <4>2. \A t \in (windowFrom + 1)..Len(payer) : t \in windowFrom..Len(payer) /\ t >= windowFrom + 1
        BY <3>2
      <4> QED BY <3>1, <4>1, <4>2 DEF Paid
    <3>5. Paid' \subseteq Spent'
      BY <3>1, <3>4 DEF BudgetInv, Spent
    <3> QED BY <3>1, <3>3, <3>5, LessIsSpent DEF BudgetInv
  <2>4. CASE BeginLook
    BY <2>4, ChargeKeeps DEF BeginLook
  <2>5. CASE HoldFrame \/ HandFrame
    BY <2>5, ChargeKeeps DEF HoldFrame, HandFrame, ChargeAmbient
  <2>6. CASE DeliveryFails
    <3>1. UNCHANGED <<payer, windowFrom>>
      BY <2>6 DEF DeliveryFails
    <3>2. CASE inHand.token = 0
      BY <2>1, <2>6, <3>1, <3>2 DEF DeliveryFails
    <3>3. CASE inHand.token # 0
      BY <2>6, <3>1, <3>3, RefundKeeps DEF DeliveryFails
    <3> QED BY <3>2, <3>3
  <2>7. CASE \E s \in Sources, x \in Screens : Frame(s, x)
    BY <2>1, <2>7 DEF Frame, budgetVars
  <2>8. CASE DrainNext \/ NothingNew \/ PassEnds \/ BeginPass \/ Delivered
    BY <2>1, <2>8 DEF DrainNext, NothingNew, PassEnds, BeginPass, Delivered, budgetVars
  <2>9. CASE BackstopTick \/ CloseAmbient \/ RecordingTurns \/ SinkTurns
    BY <2>1, <2>9 DEF BackstopTick, CloseAmbient, RecordingTurns, SinkTurns, budgetVars
  <2>10. CASE UNCHANGED visionVars
    BY <2>1, <2>10 DEF visionVars, budgetVars
  <2> QED BY <2>2, <2>3, <2>4, <2>5, <2>6, <2>7, <2>8, <2>9, <2>10 DEF VisionNext
<1> QED BY <1>1, <1>2, PTL DEF VisionSpec

\* Every look that happened is on the books, so the ceiling on the books is one on the looks.
LEMMA BudgetCounts == BudgetInv => NobodyLooksForFree
<1> SUFFICES ASSUME BudgetInv PROVE NobodyLooksForFree
  OBVIOUS
<1>1. IsFiniteSet(Spent)
  BY SpentIsFinite
<1>2. PICK shown : shown = {t \in Paid : payer[t] = "ambient"}
  OBVIOUS
<1>3. Paid \in SUBSET Spent /\ AmbientSpent \in SUBSET Spent /\ shown \in SUBSET AmbientSpent
  BY <1>2 DEF BudgetInv, AmbientSpent
<1>4. IsFiniteSet(Paid) /\ IsFiniteSet(AmbientSpent) /\ IsFiniteSet(shown)
  BY <1>1, <1>3, FS_Subset
<1>5. Cardinality(Paid) <= Cardinality(Spent) /\ Cardinality(shown) <= Cardinality(AmbientSpent)
  BY <1>1, <1>3, <1>4, FS_Subset
<1>6. /\ Cardinality(Paid) \in Nat /\ Cardinality(Spent) \in Nat
      /\ Cardinality(shown) \in Nat /\ Cardinality(AmbientSpent) \in Nat
  BY <1>1, <1>4, FS_CardinalityType
<1>7. PerMinute \in Nat /\ ReservePart \in Nat
  BY VisionAssumption DEF VisionAssumption, ReservePart
<1>8. Cardinality(Paid) <= PerMinute
  BY <1>5, <1>6, <1>7 DEF BudgetInv
<1>9. shown # {} => Cardinality(shown) <= PerMinute - ReservePart
  <2>1. shown # {} => Cardinality(AmbientSpent) <= PerMinute - ReservePart
    BY <1>3 DEF BudgetInv
  <2> QED BY <1>5, <1>6, <1>7, <2>1
<1> QED BY <1>2, <1>8, <1>9 DEF NobodyLooksForFree, Paid

(***************************************************************************)
(* The order in which it is seen (ambient.py).                             *)
(***************************************************************************)
Shown == 1..Len(shownFrames)

\* Frames of one source follow each other in the order they were shown in.
InTurn(s) == \A i, j \in DOMAIN s : i < j /\ SourceOf(s[i]) = SourceOf(s[j]) => s[i] < s[j]
AllBefore(S, T) == \A k \in S, l \in T : SourceOf(k) = SourceOf(l) => k < l

\* The frames that were charged and latched when they were held.
HeldHand == IF inHand.token = 0 THEN Handed ELSE {}
Relayed == Elements(given) \cup Elements(toDrain) \cup Elements(ambientQueue) \cup HeldHand

SightTypes ==
    /\ shownFrames \in Seq([source : Sources, screen : Screens, recorded : BOOLEAN])
    /\ recorded \in BOOLEAN /\ sinkReady \in BOOLEAN
    /\ given \in Seq(Shown) /\ toDrain \in Seq(Shown) /\ ambientQueue \in Seq(Shown)
    /\ keyframes \in Seq(Shown)
    /\ latest \in [Sources -> Shown \cup {0}] /\ latched \in [Sources -> Screens \cup {NoScreen}]
    /\ inHand \in [frame : Shown \cup {0}, token : Nat]
    /\ payer \in Seq({"ambient", "look"})
    /\ passAt \in {"idle", "made", "drain", "look", "deliver"}
    /\ toLook \in Nat /\ passReady \in BOOLEAN

\* Where the pass is: it holds frames only while the provider was not ready, and
\* what was held before is out before it looks for more.
PassInStep ==
    /\ flushing \in BOOLEAN /\ (~flushing => passAt = "idle")
    /\ passAt \in {"drain", "look", "deliver"} => toLook # 0
    /\ passAt = "deliver" => inHand.frame # 0 /\ passReady
    /\ passAt # "deliver" => inHand = NoHand
    /\ toDrain # <<>> => passAt \in {"drain", "deliver"} /\ passReady /\ inHand.token = 0
    /\ passAt \in {"drain", "look", "deliver"} /\ passReady => ambientQueue = <<>>

\* What is handed over, what is in hand, and what is still held, in this order.
RelayedInTurn ==
    /\ InTurn(given) /\ InTurn(toDrain) /\ InTurn(ambientQueue)
    /\ AllBefore(Elements(given), Elements(toDrain) \cup Elements(ambientQueue) \cup Handed)
    /\ AllBefore(Handed, Elements(toDrain))

\* The newest frame of a source is not older than any that was relayed; if it is
\* one of them, the source is latched to what it shows.
LatchKnowsTheNewest ==
    /\ \A s \in Sources : latest[s] # 0 => SourceOf(latest[s]) = s
    /\ \A k \in Relayed \cup Handed :
          latest[SourceOf(k)] # 0 => k <= latest[SourceOf(k)]
    /\ \A k \in Relayed : latest[SourceOf(k)] = k => latched[SourceOf(k)] = ShowsNow(k)
    /\ ambientClosed => \A s \in Sources : latest[s] = 0

\* Everything kept anywhere was shown while the call was recorded.
KeptWasRecorded ==
    /\ \A k \in Relayed \cup Handed \cup Elements(keyframes) : shownFrames[k].recorded
    /\ \A s \in Sources : latest[s] # 0 => shownFrames[latest[s]].recorded

SightInv == SightTypes /\ PassInStep /\ RelayedInTurn /\ LatchKnowsTheNewest /\ KeptWasRecorded

-----------------------------------------------------------------------------
(* Sequences of frames. *)

\* What is appended comes behind all the others.
LEMMA JoinsLast ==
    ASSUME NEW T, NEW q \in Seq(T), NEW e \in T
    PROVE  /\ Append(q, e) \in Seq(T)
           /\ DOMAIN Append(q, e) = DOMAIN q \cup {Len(q) + 1}
           /\ \A i \in DOMAIN q : i \in Nat /\ Append(q, e)[i] = q[i] /\ i < Len(q) + 1
           /\ Append(q, e)[Len(q) + 1] = e
OBVIOUS

\* What leaves is the first, and the others move up by one.
LEMMA LeavesFirst ==
    ASSUME NEW T, NEW q \in Seq(T), q # <<>>
    PROVE  /\ Tail(q) \in Seq(T) /\ Head(q) = q[1] /\ 1 \in DOMAIN q /\ Head(q) \in T
           /\ \A i \in DOMAIN Tail(q) : i + 1 \in DOMAIN q /\ Tail(q)[i] = q[i + 1]
           /\ \A i \in DOMAIN q : i # 1 => i - 1 \in DOMAIN Tail(q) /\ Tail(q)[i - 1] = q[i]
OBVIOUS

\* The last n of a sequence are a stretch of it.
LEMMA LastOfSequence ==
    ASSUME NEW T, NEW q \in Seq(T), NEW n \in Nat
    PROVE  /\ Last(n, q) \in Seq(T)
           /\ \E d \in Nat : \A i \in DOMAIN Last(n, q) :
                 i + d \in DOMAIN q /\ Last(n, q)[i] = q[i + d]
<1>1. CASE Len(q) > n
  <2>1. PICK d \in Nat : d = Len(q) - n
    BY <1>1
  <2>2. Last(n, q) = SubSeq(q, d + 1, Len(q)) /\ Len(q) \in Nat /\ d < Len(q) + 1
    BY <1>1, <2>1 DEF Last
  <2>3. \A i \in (d + 1)..Len(q) : q[i] \in T
    BY <2>1
  <2>4. /\ Last(n, q) \in Seq(T)
        /\ Len(Last(n, q)) = Len(q) - d
        /\ \A i \in 1..(Len(q) - d) : Last(n, q)[i] = q[d + 1 + i - 1]
    <3>1. Len(q) - (d + 1) + 1 = Len(q) - d /\ d + 1 \in Int /\ Len(q) \in Int
      BY <2>1, <2>2
    <3>2. /\ SubSeq(q, d + 1, Len(q)) \in Seq(T)
          /\ Len(SubSeq(q, d + 1, Len(q))) = IF d + 1 <= Len(q) THEN Len(q) - (d + 1) + 1 ELSE 0
          /\ \A i \in 1..(Len(q) - (d + 1) + 1) : SubSeq(q, d + 1, Len(q))[i] = q[d + 1 + i - 1]
      BY <2>3, <3>1, SubSeqProperties
    <3> QED BY <2>1, <2>2, <3>1, <3>2
  <2>5. \A i \in DOMAIN Last(n, q) : i + d \in DOMAIN q /\ Last(n, q)[i] = q[i + d]
    <3> SUFFICES ASSUME NEW i \in DOMAIN Last(n, q)
                 PROVE  i + d \in DOMAIN q /\ Last(n, q)[i] = q[i + d]
      OBVIOUS
    <3>1. i \in 1..(Len(q) - d) /\ i \in Nat
      BY <2>4, LenProperties
    <3>2. d + 1 + i - 1 = i + d /\ i + d \in 1..Len(q)
      BY <2>1, <2>2, <3>1
    <3> QED BY SMTT(20), <2>4, <3>1, <3>2
  <2> QED BY <2>1, <2>4, <2>5
<1>2. CASE ~(Len(q) > n)
  <2>1. Last(n, q) = q
    BY <1>2 DEF Last
  <2>2. \A i \in DOMAIN q : i + 0 \in DOMAIN q /\ q[i] = q[i + 0]
    OBVIOUS
  <2> QED BY <2>1, <2>2
<1> QED BY <1>1, <1>2

\* A frame newer than those of its source is put behind them.
LEMMA TurnGrows ==
    ASSUME NEW T, NEW q \in Seq(T), NEW e \in T, InTurn(q), AllBefore(Elements(q), {e})
    PROVE  /\ Append(q, e) \in Seq(T) /\ InTurn(Append(q, e))
           /\ Elements(Append(q, e)) = Elements(q) \cup {e}
<1>1. PICK out : out = Append(q, e)
  OBVIOUS
<1>2. /\ out \in Seq(T) /\ DOMAIN out = DOMAIN q \cup {Len(q) + 1}
      /\ \A i \in DOMAIN q : i \in Nat /\ out[i] = q[i] /\ i < Len(q) + 1
      /\ out[Len(q) + 1] = e
  BY <1>1, JoinsLast
<1>3. Elements(out) = Elements(q) \cup {e}
  BY <1>2 DEF Elements
<1>4. InTurn(out)
  <2> SUFFICES ASSUME NEW i \in DOMAIN out, NEW j \in DOMAIN out, i < j,
                      SourceOf(out[i]) = SourceOf(out[j])
               PROVE  out[i] < out[j]
    BY DEF InTurn
  <2>1. i \in DOMAIN q
    <3>1. ~(Len(q) + 1 < j)
      <4>1. Len(q) + 1 \in Nat
        OBVIOUS
      <4> QED BY <1>2, <4>1
    <3> QED BY <1>2, <3>1
  <2>2. CASE j \in DOMAIN q
    BY <1>2, <2>1, <2>2 DEF InTurn
  <2>3. CASE j = Len(q) + 1
    BY <1>2, <2>1, <2>3 DEF AllBefore, Elements
  <2> QED BY <1>2, <2>2, <2>3
<1> QED BY <1>1, <1>2, <1>3, <1>4

\* The frame taken off the front is older than the others of its source.
LEMMA TurnGivesOldest ==
    ASSUME NEW T, NEW q \in Seq(T), q # <<>>, InTurn(q)
    PROVE  /\ Tail(q) \in Seq(T) /\ InTurn(Tail(q)) /\ Head(q) \in T
           /\ Elements(Tail(q)) \subseteq Elements(q) /\ Head(q) \in Elements(q)
           /\ AllBefore({Head(q)}, Elements(Tail(q)))
<1>1. /\ Tail(q) \in Seq(T) /\ Head(q) = q[1] /\ 1 \in DOMAIN q /\ Head(q) \in T
      /\ \A i \in DOMAIN Tail(q) : i + 1 \in DOMAIN q /\ Tail(q)[i] = q[i + 1]
  BY LeavesFirst
<1>2. \A i \in DOMAIN Tail(q) : i \in Nat /\ 1 < i + 1 /\ \A j \in DOMAIN Tail(q) : i < j => i + 1 < j + 1
  <2>1. \A i \in DOMAIN Tail(q) : i \in Nat \ {0}
    BY <1>1
  <2> QED BY <2>1
<1>3. InTurn(Tail(q))
  BY <1>1, <1>2 DEF InTurn
<1>4. Elements(Tail(q)) \subseteq Elements(q) /\ Head(q) \in Elements(q)
  BY <1>1 DEF Elements
<1>5. AllBefore({Head(q)}, Elements(Tail(q)))
  BY <1>1, <1>2 DEF InTurn, AllBefore, Elements
<1> QED BY <1>1, <1>3, <1>4, <1>5

\* A bound takes from the front.
LEMMA TurnKeepsLast ==
    ASSUME NEW T, NEW q \in Seq(T), NEW n \in Nat
    PROVE  /\ Last(n, q) \in Seq(T) /\ Elements(Last(n, q)) \subseteq Elements(q)
           /\ InTurn(q) => InTurn(Last(n, q))
<1>1. PICK out : out = Last(n, q)
  OBVIOUS
<1>2. PICK d \in Nat : \A i \in DOMAIN out : i + d \in DOMAIN q /\ out[i] = q[i + d]
  BY <1>1, LastOfSequence
<1>3. out \in Seq(T) /\ \A i \in DOMAIN out : i \in Nat
  <2>1. out \in Seq(T)
    BY <1>1, LastOfSequence
  <2> QED BY <2>1
<1>4. Elements(out) \subseteq Elements(q)
  BY <1>2 DEF Elements
<1>5. InTurn(q) => InTurn(out)
  <2>1. \A i, j \in DOMAIN out : i < j => i + d < j + d
    BY <1>3
  <2> QED BY <1>2, <2>1 DEF InTurn
<1> QED BY <1>1, <1>3, <1>4, <1>5

-----------------------------------------------------------------------------
(* The steps of the relay. *)

\* There is a frame in hand exactly while the pass delivers one.
LEMMA HandInStep ==
    ASSUME SightInv
    PROVE  /\ passAt = "deliver" => inHand.frame \in Shown /\ Handed = {inHand.frame}
           /\ passAt # "deliver" => Handed = {} /\ HeldHand = {} /\ inHand = NoHand
           /\ HeldHand \subseteq Handed /\ Handed \subseteq Shown /\ Relayed \subseteq Shown
<1>1. passAt = "deliver" => inHand.frame \in Shown /\ Handed = {inHand.frame}
  BY DEF SightInv, SightTypes, PassInStep, Handed, NoHand
<1>2. passAt # "deliver" => Handed = {} /\ HeldHand = {} /\ inHand = NoHand
  BY DEF SightInv, PassInStep, Handed, HeldHand
<1>3. HeldHand \subseteq Handed
  BY DEF HeldHand
<1>4. Relayed \subseteq Shown
  BY <1>1, <1>2, <1>3 DEF SightInv, SightTypes, Relayed, Elements
<1> QED BY <1>1, <1>2, <1>3, <1>4

\* Frames only move on: nothing is relayed that was not in hand before, and the
\* latches stay.
LEMMA MovingOnKeeps ==
    ASSUME SightInv, UNCHANGED <<shownFrames, keyframes, latest, latched, ambientClosed>>,
           Relayed' \subseteq Relayed, Handed' \subseteq Relayed \cup Handed
    PROVE  LatchKnowsTheNewest' /\ KeptWasRecorded'
<1>1. \A k : SourceOf(k)' = SourceOf(k) /\ ShowsNow(k)' = ShowsNow(k)
  BY DEF SourceOf, ShowsNow
<1>2. Elements(keyframes)' = Elements(keyframes)
  BY DEF Elements
<1>3. LatchKnowsTheNewest'
  BY <1>1 DEF SightInv, LatchKnowsTheNewest
<1>4. KeptWasRecorded'
  BY <1>2 DEF SightInv, KeptWasRecorded
<1> QED BY <1>3, <1>4

\* Steps that leave the frames where they are.
LEMMA StandingKeeps ==
    ASSUME SightInv, UNCHANGED <<shownFrames, given, toDrain, ambientQueue, inHand, keyframes,
                                 latest, latched, ambientClosed>>,
           recorded' \in BOOLEAN, sinkReady' \in BOOLEAN, payer' \in Seq({"ambient", "look"}),
           passAt' \in {"idle", "made", "drain", "look", "deliver"},
           toLook' \in Nat, passReady' \in BOOLEAN, PassInStep'
    PROVE  SightInv'
<1>1. /\ Shown' = Shown /\ Handed' = Handed /\ HeldHand' = HeldHand
      /\ Elements(given)' = Elements(given) /\ Elements(toDrain)' = Elements(toDrain)
      /\ Elements(ambientQueue)' = Elements(ambientQueue)
  BY DEF Shown, Handed, HeldHand, NoHand, Elements
<1>2. Relayed' = Relayed
  BY <1>1 DEF Relayed
<1>3. SightTypes'
  BY <1>1 DEF SightInv, SightTypes
<1>4. RelayedInTurn'
  BY <1>1 DEF SightInv, RelayedInTurn, InTurn, AllBefore, SourceOf
<1>5. LatchKnowsTheNewest' /\ KeptWasRecorded'
  BY <1>1, <1>2, MovingOnKeeps
<1> QED BY <1>3, <1>4, <1>5 DEF SightInv

\* What was held is taken out, or the pass only looks (_pass, _drain).
LEMMA BeginPassKeeps == SightInv /\ BeginPass => SightInv'
<1> SUFFICES ASSUME SightInv, BeginPass PROVE SightInv'
  OBVIOUS
<1>1. /\ UNCHANGED <<shownFrames, keyframes, given, inHand, latest, latched, ambientClosed,
                     recorded, sinkReady, payer>>
      /\ toDrain = <<>> /\ passAt = "made" /\ Handed = {} /\ HeldHand = {} /\ inHand = NoHand
  BY HandInStep DEF BeginPass, SightInv, PassInStep, sightVars, storeVars, budgetVars
<1>2. CASE toDrain' = toDrain /\ ambientQueue' = ambientQueue
  <2>1. /\ passAt' \in {"made", "idle", "drain"} /\ toLook' \in Nat /\ passReady' \in BOOLEAN
        /\ flushing' \in BOOLEAN /\ (~flushing' => passAt' = "idle")
        /\ passAt' = "drain" => toLook' # 0 /\ ~(passReady' /\ ambientQueue # <<>>)
    <3>1. flushing \in BOOLEAN /\ flushing /\ toLook \in Nat /\ passReady \in BOOLEAN
      BY <1>1 DEF SightInv, SightTypes, PassInStep
    <3>2. CASE ambientClosed
      BY <3>1, <3>2 DEF BeginPass, PassOver
    <3>3. CASE ~ambientClosed
      <4>1. passAt' = "drain" /\ passReady' = sinkReady /\ toLook' = 1 /\ flushing' = flushing
        BY <3>3 DEF BeginPass
      <4>2. sinkReady => ambientQueue = <<>>
        BY <1>2, <3>3 DEF BeginPass
      <4> QED BY <3>1, <4>1, <4>2 DEF SightInv, SightTypes
    <3> QED BY <3>2, <3>3
  <2>2. PassInStep'
    BY <1>1, <1>2, <2>1 DEF SightInv, PassInStep, NoHand
  <2> QED BY <1>1, <1>2, <2>1, <2>2, StandingKeeps DEF SightInv, SightTypes
<1>3. CASE /\ toDrain' = ambientQueue /\ ambientQueue' = <<>> /\ passAt' = "drain" /\ passReady'
           /\ toLook' = 1 /\ flushing' = flushing
  <2>1. /\ Shown' = Shown /\ Handed' = {} /\ HeldHand' = {}
        /\ Elements(given)' = Elements(given) /\ Elements(toDrain)' = Elements(ambientQueue)
        /\ Elements(ambientQueue)' = {} /\ Elements(toDrain) = {}
    BY <1>1, <1>3 DEF Shown, Handed, HeldHand, NoHand, Elements
  <2>2. SightTypes' /\ PassInStep'
    BY <1>1, <1>3, <2>1 DEF SightInv, SightTypes, PassInStep, BeginPass, NoHand
  <2>3. RelayedInTurn'
    BY <1>1, <1>3, <2>1 DEF SightInv, RelayedInTurn, InTurn, AllBefore, SourceOf
  <2>4. Relayed' = Relayed
    BY <1>1, <2>1 DEF Relayed
  <2>5. LatchKnowsTheNewest' /\ KeptWasRecorded'
    BY <1>1, <2>1, <2>4, MovingOnKeeps
  <2> QED BY <2>2, <2>3, <2>5 DEF SightInv
<1>4. CASE ambientClosed
  BY <1>2, <1>4 DEF BeginPass
<1>5. CASE ~ambientClosed /\ sinkReady
  BY <1>3, <1>5 DEF BeginPass
<1>6. CASE ~ambientClosed /\ ~sinkReady
  BY <1>2, <1>6 DEF BeginPass
<1> QED BY <1>4, <1>5, <1>6

\* A held frame goes from the queue into the hand of the pass (AmbientVision._flush).
LEMMA DrainKeeps == SightInv /\ DrainNext => SightInv'
<1> SUFFICES ASSUME SightInv, DrainNext PROVE SightInv'
  OBVIOUS
<1>1. /\ UNCHANGED <<shownFrames, keyframes, given, ambientQueue, latest, latched, ambientClosed,
                     recorded, sinkReady, payer, toLook, passReady, flushing>>
      /\ passAt = "drain" /\ Handed = {} /\ HeldHand = {} /\ inHand = NoHand
  BY HandInStep DEF DrainNext, ambientVars, sightVars, storeVars, budgetVars
<1>2. /\ Shown' = Shown /\ Elements(given)' = Elements(given)
      /\ Elements(ambientQueue)' = Elements(ambientQueue)
  BY <1>1 DEF Shown, Elements
<1>3. CASE toDrain' = <<>> /\ passAt' = "look" /\ inHand' = inHand
  <2>1. Handed' = {} /\ HeldHand' = {} /\ Elements(toDrain)' = {}
    BY <1>1, <1>3 DEF Handed, HeldHand, NoHand, Elements
  <2>2. SightTypes' /\ PassInStep'
    BY <1>1, <1>2, <1>3 DEF SightInv, SightTypes, PassInStep, NoHand
  <2>3. RelayedInTurn'
    BY <1>1, <1>2, <1>3, <2>1 DEF SightInv, RelayedInTurn, InTurn, AllBefore, SourceOf
  <2>4. Relayed' \subseteq Relayed
    BY <1>2, <2>1 DEF Relayed
  <2>5. LatchKnowsTheNewest' /\ KeptWasRecorded'
    BY <1>1, <2>1, <2>4, MovingOnKeeps
  <2> QED BY <2>2, <2>3, <2>5 DEF SightInv
<1>4. CASE /\ toDrain # <<>> /\ passAt' = "deliver" /\ toDrain' = Tail(toDrain)
           /\ inHand' = [frame |-> Head(toDrain), token |-> 0]
  <2>1. PICK rest, f : rest = Tail(toDrain) /\ f = Head(toDrain)
    OBVIOUS
  <2>2. /\ rest \in Seq(Shown) /\ InTurn(rest) /\ f \in Shown
        /\ Elements(rest) \subseteq Elements(toDrain) /\ f \in Elements(toDrain)
        /\ AllBefore({f}, Elements(rest))
    BY <1>4, <2>1, TurnGivesOldest DEF SightInv, SightTypes, RelayedInTurn
  <2>3. toDrain' = rest /\ inHand' = [frame |-> f, token |-> 0] /\ f # 0
    BY <1>4, <2>1, <2>2 DEF Shown
  <2>4. Handed' = {f} /\ HeldHand' = {f} /\ Elements(toDrain)' = Elements(rest)
    BY <2>3 DEF Handed, HeldHand, NoHand, Elements
  <2>5. passReady /\ ambientQueue = <<>>
    BY <1>1, <1>4 DEF SightInv, PassInStep
  <2>6. SightTypes' /\ PassInStep'
    BY <1>1, <1>2, <1>4, <2>2, <2>3, <2>5 DEF SightInv, SightTypes, PassInStep, NoHand
  <2>7. RelayedInTurn'
    <3>1. InTurn(toDrain)' /\ InTurn(given)' /\ InTurn(ambientQueue)'
      BY <1>1, <2>2, <2>3 DEF SightInv, RelayedInTurn, InTurn, SourceOf
    <3>2. AllBefore(Elements(given), Elements(toDrain) \cup Elements(ambientQueue) \cup Handed)'
      BY <1>1, <1>2, <2>2, <2>4 DEF SightInv, RelayedInTurn, AllBefore, SourceOf
    <3>3. AllBefore(Handed, Elements(toDrain))'
      BY <1>1, <2>2, <2>4 DEF AllBefore, SourceOf
    <3> QED BY <3>1, <3>2, <3>3 DEF RelayedInTurn
  <2>8. Relayed' \subseteq Relayed /\ Handed' \subseteq Relayed
    BY <1>2, <2>2, <2>4 DEF Relayed
  <2>9. LatchKnowsTheNewest' /\ KeptWasRecorded'
    BY <1>1, <2>8, MovingOnKeeps
  <2> QED BY <2>6, <2>7, <2>9 DEF SightInv
<1> QED BY <1>3, <1>4 DEF DrainNext

\* A frame that was shown has a source and a screen.
LEMMA FrameOfCall ==
    ASSUME SightInv, NEW k \in Shown
    PROVE  SourceOf(k) \in Sources /\ ShowsNow(k) \in Screens /\ k \in Nat /\ k # 0
<1> DEFINE R == [source : Sources, screen : Screens, recorded : BOOLEAN]
<1>1. shownFrames \in Seq(R) /\ k \in 1..Len(shownFrames)
  BY DEF SightInv, SightTypes, Shown
<1>2. shownFrames[k] \in R
  <2> HIDE DEF R
  <2> QED BY <1>1
<1> QED BY <1>1, <1>2 DEF SourceOf, ShowsNow

\* A source that has changed shows a frame newer than all of it that were relayed.
LEMMA ChangedIsNewer ==
    ASSUME SightInv, passAt # "deliver", NEW s \in Sources, Changed(s)
    PROVE  /\ latest[s] \in Shown /\ SourceOf(latest[s]) = s /\ shownFrames[latest[s]].recorded
           /\ AllBefore(Relayed, {latest[s]})
<1>1. latest[s] # 0 /\ latest[s] \in Shown
  BY DEF Changed, SightInv, SightTypes
<1>2. SourceOf(latest[s]) = s /\ shownFrames[latest[s]].recorded
  BY <1>1 DEF SightInv, LatchKnowsTheNewest, KeptWasRecorded
<1>3. \A k \in Relayed : SourceOf(k) = s => k < latest[s]
  <2> SUFFICES ASSUME NEW k \in Relayed, SourceOf(k) = s PROVE k < latest[s]
    OBVIOUS
  <2>1. k <= latest[s]
    BY <1>1 DEF SightInv, LatchKnowsTheNewest
  <2>2. k # latest[s]
    BY DEF SightInv, LatchKnowsTheNewest, Changed
  <2>3. k \in Nat /\ latest[s] \in Nat
    BY <1>1, HandInStep DEF Shown
  <2> QED BY <2>1, <2>2, <2>3
<1> QED BY <1>1, <1>2, <1>3 DEF AllBefore

\* The source that the pass is at.
LEMMA AtSource ==
    ASSUME SightInv, passAt = "look", toLook <= Len(SourceOrder)
    PROVE  SourceOrder[toLook] \in Sources
<1>1. toLook \in 1..Len(SourceOrder)
  BY VisionAssumption DEF VisionAssumption, SightInv, SightTypes, PassInStep
<1> QED BY <1>1, VisionAssumption DEF VisionAssumption, Sources

\* A frame is held: it is charged and latched (_hold).
LEMMA HoldKeeps == SightInv /\ HoldFrame => SightInv'
<1> SUFFICES ASSUME SightInv, HoldFrame PROVE SightInv'
  OBVIOUS
<1>1. PICK s, f : s = SourceOrder[toLook] /\ f = latest[s]
  OBVIOUS
<1>2. /\ passAt = "look" /\ ~passReady /\ Changed(s) /\ s \in Sources
      /\ UNCHANGED <<shownFrames, keyframes, given, toDrain, inHand, latest, recorded, sinkReady,
                     passAt, passReady, ambientClosed, flushing>>
      /\ ~ambientClosed
      /\ toLook' = toLook + 1 /\ ChargeAmbient
      /\ latched' = [latched EXCEPT ![s] = ShowsNow(f)]
      /\ ambientQueue' = Last(QueueMax, Append(ambientQueue, f))
  BY <1>1, AtSource DEF HoldFrame, sightVars, storeVars
<1>3. Handed = {} /\ HeldHand = {} /\ inHand = NoHand /\ toDrain = <<>> /\ Relayed \subseteq Shown
  BY <1>2, HandInStep DEF SightInv, PassInStep
<1>4. /\ f \in Shown /\ SourceOf(f) = s /\ shownFrames[f].recorded /\ AllBefore(Relayed, {f})
  BY <1>1, <1>2, ChangedIsNewer
<1>5. AllBefore(Elements(ambientQueue), {f}) /\ AllBefore(Elements(given), {f})
  BY <1>4 DEF Relayed, AllBefore
<1>6. PICK longer : longer = Append(ambientQueue, f)
  OBVIOUS
<1>7. /\ longer \in Seq(Shown) /\ InTurn(longer)
      /\ Elements(longer) = Elements(ambientQueue) \cup {f}
  BY <1>4, <1>5, <1>6, TurnGrows DEF SightInv, SightTypes, RelayedInTurn
<1>8. PICK held : held = Last(QueueMax, longer)
  OBVIOUS
<1>9. held \in Seq(Shown) /\ InTurn(held) /\ Elements(held) \subseteq Elements(ambientQueue) \cup {f}
  BY <1>7, <1>8, TurnKeepsLast, VisionAssumption DEF VisionAssumption
<1>10. ambientQueue' = held
  BY <1>2, <1>6, <1>8
<1>11. /\ Shown' = Shown /\ Elements(given)' = Elements(given) /\ Elements(toDrain)' = {}
       /\ Elements(ambientQueue)' = Elements(held) /\ Handed' = {} /\ HeldHand' = {}
  BY <1>2, <1>3, <1>10 DEF Shown, Elements, Handed, HeldHand
<1>12. SightTypes'
  <2>1. payer' \in Seq({"ambient", "look"})
    BY <1>2 DEF ChargeAmbient, Charge, SightInv, SightTypes
  <2>2. ShowsNow(f) \in Screens
    BY <1>4, FrameOfCall
  <2>3. latched' \in [Sources -> Screens \cup {NoScreen}]
    BY <1>2, <2>2 DEF SightInv, SightTypes
  <2> QED BY <1>2, <1>9, <1>10, <1>11, <2>1, <2>3 DEF SightInv, SightTypes
<1>13. PassInStep'
  BY <1>2, <1>3 DEF SightInv, SightTypes, PassInStep, NoHand
<1>14. RelayedInTurn'
  <2>1. InTurn(toDrain)' /\ InTurn(given)' /\ InTurn(ambientQueue)'
    BY <1>2, <1>9, <1>10 DEF SightInv, RelayedInTurn, InTurn, SourceOf
  <2>2. AllBefore(Elements(given), Elements(toDrain) \cup Elements(ambientQueue) \cup Handed)'
    BY <1>2, <1>5, <1>9, <1>11 DEF SightInv, RelayedInTurn, AllBefore, SourceOf
  <2>3. AllBefore(Handed, Elements(toDrain))'
    BY <1>11 DEF AllBefore
  <2> QED BY <2>1, <2>2, <2>3 DEF RelayedInTurn
<1>15. Relayed' \subseteq Relayed \cup {f}
  BY <1>9, <1>11 DEF Relayed
<1>16. LatchKnowsTheNewest'
  <2>1. \A k : SourceOf(k)' = SourceOf(k) /\ ShowsNow(k)' = ShowsNow(k)
    BY <1>2 DEF SourceOf, ShowsNow
  <2>2. \A k \in Relayed \cup {f} : latest[SourceOf(k)] # 0 => k <= latest[SourceOf(k)]
    <3>1. f \in Nat
      BY <1>4 DEF Shown
    <3> QED BY <1>1, <1>4, <3>1 DEF SightInv, LatchKnowsTheNewest
  <2>3. \A k \in Relayed \cup {f} : latest[SourceOf(k)] = k => latched'[SourceOf(k)] = ShowsNow(k)
    <3> SUFFICES ASSUME NEW k \in Relayed \cup {f}, latest[SourceOf(k)] = k
                 PROVE  latched'[SourceOf(k)] = ShowsNow(k)
      OBVIOUS
    <3>1. SourceOf(k) \in Sources
      BY <1>3, <1>4, FrameOfCall
    <3>2. CASE SourceOf(k) = s
      BY <1>1, <1>2, <3>1, <3>2 DEF SightInv, SightTypes
    <3>3. CASE SourceOf(k) # s
      BY <1>2, <1>4, <3>1, <3>3 DEF SightInv, SightTypes, LatchKnowsTheNewest
    <3> QED BY <3>2, <3>3
  <2>4. \A k \in (Relayed \cup Handed)' : k \in Relayed \cup {f}
    BY <1>11, <1>15
  <2>5. \A t \in Sources : latest'[t] # 0 => SourceOf(latest[t])' = t
    BY <1>2, <2>1 DEF SightInv, LatchKnowsTheNewest
  <2>6. (ambientClosed => \A t \in Sources : latest[t] = 0)'
    BY <1>2 DEF SightInv, LatchKnowsTheNewest
  <2> QED BY <1>2, <2>1, <2>2, <2>3, <2>4, <2>5, <2>6 DEF LatchKnowsTheNewest
<1>17. KeptWasRecorded'
  BY <1>2, <1>4, <1>11, <1>15 DEF SightInv, KeptWasRecorded, Elements
<1> QED BY <1>12, <1>13, <1>14, <1>16, <1>17 DEF SightInv

\* A fresh frame is charged and goes to the sink (_pass).
LEMMA HandKeeps == SightInv /\ HandFrame => SightInv'
<1> SUFFICES ASSUME SightInv, HandFrame PROVE SightInv'
  OBVIOUS
<1>1. PICK s, f : s = SourceOrder[toLook] /\ f = latest[s]
  OBVIOUS
<1>2. /\ passAt = "look" /\ passReady /\ Changed(s) /\ s \in Sources
      /\ UNCHANGED <<shownFrames, keyframes, given, toDrain, ambientQueue, latest, latched,
                     recorded, sinkReady, toLook, passReady, ambientClosed, flushing>>
      /\ ChargeAmbient /\ passAt' = "deliver"
      /\ inHand' = [frame |-> f, token |-> Len(payer) + 1]
  BY <1>1, AtSource DEF HandFrame, sightVars, storeVars, ambientVars
<1>3. Handed = {} /\ HeldHand = {} /\ toDrain = <<>> /\ ambientQueue = <<>>
  BY <1>2, HandInStep DEF SightInv, PassInStep
<1>4. /\ f \in Shown /\ SourceOf(f) = s /\ shownFrames[f].recorded /\ AllBefore(Relayed, {f})
  BY <1>1, <1>2, ChangedIsNewer
<1>5. Len(payer) + 1 \in Nat \ {0} /\ f # 0 /\ f \in Nat
  BY <1>4 DEF SightInv, SightTypes, Shown
<1>6. Handed' = {f} /\ HeldHand' = {}
  BY <1>2, <1>5 DEF Handed, HeldHand, NoHand
<1>7. /\ Shown' = Shown /\ Elements(given)' = Elements(given) /\ Elements(toDrain)' = {}
      /\ Elements(ambientQueue)' = {}
  BY <1>2, <1>3 DEF Shown, Elements
<1>8. SightTypes'
  <2>1. payer' \in Seq({"ambient", "look"})
    BY <1>2 DEF ChargeAmbient, Charge, SightInv, SightTypes
  <2> QED BY <1>2, <1>4, <1>5, <1>7, <2>1 DEF SightInv, SightTypes
<1>9. PassInStep'
  BY <1>2, <1>3, <1>5 DEF SightInv, PassInStep
<1>10. RelayedInTurn'
  <2>1. InTurn(toDrain)' /\ InTurn(given)' /\ InTurn(ambientQueue)'
    BY <1>2 DEF SightInv, RelayedInTurn, InTurn, SourceOf
  <2>2. AllBefore(Elements(given), Elements(toDrain) \cup Elements(ambientQueue) \cup Handed)'
    BY <1>2, <1>4, <1>6, <1>7 DEF Relayed, AllBefore, SourceOf
  <2>3. AllBefore(Handed, Elements(toDrain))'
    BY <1>7 DEF AllBefore
  <2> QED BY <2>1, <2>2, <2>3 DEF RelayedInTurn
<1>11. Relayed' \subseteq Relayed
  BY <1>6, <1>7 DEF Relayed
<1>12. LatchKnowsTheNewest'
  <2>1. \A k : SourceOf(k)' = SourceOf(k) /\ ShowsNow(k)' = ShowsNow(k)
    BY <1>2 DEF SourceOf, ShowsNow
  <2>2. \A k \in Relayed \cup {f} : latest[SourceOf(k)] # 0 => k <= latest[SourceOf(k)]
    BY <1>1, <1>4, <1>5 DEF SightInv, LatchKnowsTheNewest
  <2>3. \A k \in (Relayed \cup Handed)' : k \in Relayed \cup {f}
    BY <1>6, <1>11
  <2>4. \A t \in Sources : latest'[t] # 0 => SourceOf(latest[t])' = t
    BY <1>2, <2>1 DEF SightInv, LatchKnowsTheNewest
  <2>5. \A k \in Relayed' : latest'[SourceOf(k)] = k => latched'[SourceOf(k)] = ShowsNow(k)
    BY <1>2, <1>11 DEF SightInv, LatchKnowsTheNewest
  <2>6. (ambientClosed => \A t \in Sources : latest[t] = 0)'
    BY <1>2 DEF SightInv, LatchKnowsTheNewest
  <2> QED BY <1>2, <2>1, <2>2, <2>3, <2>4, <2>5, <2>6 DEF LatchKnowsTheNewest
<1>13. KeptWasRecorded'
  BY <1>2, <1>4, <1>6, <1>11 DEF SightInv, KeptWasRecorded, Elements
<1> QED BY <1>8, <1>9, <1>10, <1>12, <1>13 DEF SightInv

\* The sink took the frame, and its source is latched to what it shows (_pass, _drain).
LEMMA DeliveredKeeps == SightInv /\ Delivered => SightInv'
<1> SUFFICES ASSUME SightInv, Delivered PROVE SightInv'
  OBVIOUS
<1>1. PICK f : f = inHand.frame
  OBVIOUS
<1>2. /\ passAt = "deliver" /\ passReady /\ f \in Shown /\ Handed = {f} /\ Relayed \subseteq Shown
      /\ UNCHANGED <<shownFrames, keyframes, toDrain, ambientQueue, latest, recorded, sinkReady,
                     payer, passReady, ambientClosed, flushing>>
      /\ given' = Append(given, f) /\ inHand' = NoHand /\ ambientQueue = <<>>
  BY <1>1, HandInStep DEF Delivered, SightInv, PassInStep, sightVars, storeVars, budgetVars
<1>3. AllBefore(Elements(given), {f}) /\ AllBefore({f}, Elements(toDrain))
  BY <1>2 DEF SightInv, RelayedInTurn, AllBefore
<1>4. PICK out : out = Append(given, f)
  OBVIOUS
<1>5. out \in Seq(Shown) /\ InTurn(out) /\ Elements(out) = Elements(given) \cup {f}
  BY <1>2, <1>3, <1>4, TurnGrows DEF SightInv, SightTypes, RelayedInTurn
<1>6. given' = out
  BY <1>2, <1>4
<1>7. /\ Shown' = Shown /\ Elements(given)' = Elements(given) \cup {f}
      /\ Elements(toDrain)' = Elements(toDrain) /\ Elements(ambientQueue)' = {}
      /\ Handed' = {} /\ HeldHand' = {}
  <2>1. Elements(given)' = Elements(out)
    BY <1>6 DEF Elements
  <2>2. Elements(toDrain)' = Elements(toDrain) /\ Elements(ambientQueue)' = {} /\ Shown' = Shown
    BY <1>2 DEF Elements, Shown
  <2>3. Handed' = {}
    BY <1>2 DEF Handed
  <2> QED BY <1>5, <2>1, <2>2, <2>3 DEF HeldHand
<1>8. SourceOf(f) \in Sources /\ ShowsNow(f) \in Screens /\ f \in Nat
  BY <1>2, FrameOfCall
<1>9. \/ inHand.token = 0 /\ latched' = latched /\ passAt' = "drain" /\ toLook' = toLook
      \/ /\ inHand.token # 0 /\ passAt' = "look" /\ toLook' = toLook + 1
         /\ \/ latched' = [latched EXCEPT ![SourceOf(f)] = ShowsNow(f)]
            \/ ambientClosed /\ latched' = latched
  BY <1>1 DEF Delivered
<1>10. SightTypes'
  <2>1. latched' \in [Sources -> Screens \cup {NoScreen}]
    BY <1>8, <1>9 DEF SightInv, SightTypes
  <2>2. toLook' \in Nat /\ passAt' \in {"drain", "look"}
    BY <1>9 DEF SightInv, SightTypes
  <2>3. inHand' \in [frame : Shown \cup {0}, token : Nat]
    BY <1>2 DEF NoHand
  <2> QED BY <1>2, <1>5, <1>6, <1>7, <2>1, <2>2, <2>3 DEF SightInv, SightTypes
<1>11. PassInStep'
  <2>1. toLook' # 0
    BY <1>2, <1>9 DEF SightInv, SightTypes, PassInStep
  <2>2. toDrain # <<>> => inHand.token = 0
    BY DEF SightInv, PassInStep
  <2>3. passAt' \in {"drain", "look"} /\ (inHand.token = 0 => passAt' = "drain")
    BY <1>9
  <2> QED BY <1>2, <2>1, <2>2, <2>3 DEF SightInv, PassInStep, NoHand
<1>12. RelayedInTurn'
  <2>1. InTurn(toDrain)' /\ InTurn(given)' /\ InTurn(ambientQueue)'
    BY <1>2, <1>5, <1>6 DEF SightInv, RelayedInTurn, InTurn, SourceOf
  <2>2. AllBefore(Elements(given), Elements(toDrain) \cup Elements(ambientQueue) \cup Handed)'
    BY <1>2, <1>3, <1>7 DEF SightInv, RelayedInTurn, AllBefore, SourceOf
  <2>3. AllBefore(Handed, Elements(toDrain))'
    BY <1>7 DEF AllBefore
  <2> QED BY <2>1, <2>2, <2>3 DEF RelayedInTurn
<1>13. Relayed' \subseteq Relayed \cup {f}
  BY <1>7 DEF Relayed
<1>14. LatchKnowsTheNewest'
  <2>1. \A k : SourceOf(k)' = SourceOf(k) /\ ShowsNow(k)' = ShowsNow(k)
    BY <1>2 DEF SourceOf, ShowsNow
  <2>2. \A k \in Relayed \cup {f} : latest[SourceOf(k)] # 0 => k <= latest[SourceOf(k)]
    BY <1>2 DEF SightInv, LatchKnowsTheNewest
  <2>3. \A k \in Relayed \cup {f} : latest[SourceOf(k)] = k => latched'[SourceOf(k)] = ShowsNow(k)
    <3> SUFFICES ASSUME NEW k \in Relayed \cup {f}, latest[SourceOf(k)] = k
                 PROVE  latched'[SourceOf(k)] = ShowsNow(k)
      OBVIOUS
    <3>1. SourceOf(k) \in Sources /\ k \in Nat /\ k # 0
      BY <1>2, FrameOfCall
    <3>2. k \in Relayed => latched[SourceOf(k)] = ShowsNow(k)
      BY DEF SightInv, LatchKnowsTheNewest
    <3>3. CASE inHand.token = 0
      <4>1. f \in Relayed /\ latched' = latched
        BY <1>2, <1>9, <3>3 DEF Relayed, HeldHand
      <4> QED BY <3>2, <4>1
    <3>4. CASE inHand.token # 0 /\ latched' = [latched EXCEPT ![SourceOf(f)] = ShowsNow(f)]
      <4>1. CASE SourceOf(k) = SourceOf(f)
        <5>1. k = f
          <6>1. f <= k
            BY <2>2, <3>1, <4>1
          <6>2. CASE k \in Relayed /\ k # f
            <7>1. toDrain = <<>> /\ HeldHand = {}
              BY <3>4 DEF SightInv, PassInStep, HeldHand
            <7>2. k \in Elements(given)
              BY <1>2, <6>2, <7>1 DEF Relayed, Elements
            <7> QED BY <1>3, <1>8, <3>1, <4>1, <6>1, <7>2 DEF AllBefore
          <6> QED BY <6>2
        <5> QED BY <1>8, <3>4, <5>1 DEF SightInv, SightTypes
      <4>2. CASE SourceOf(k) # SourceOf(f)
        <5>1. k \in Relayed
          <6>1. k # f
            BY <4>2
          <6> QED BY <6>1
        <5> QED BY <1>8, <3>1, <3>2, <3>4, <4>2, <5>1 DEF SightInv, SightTypes
      <4> QED BY <4>1, <4>2
    <3>5. CASE ambientClosed /\ latched' = latched
      BY <3>1, <3>5 DEF SightInv, LatchKnowsTheNewest
    <3> QED BY <1>9, <3>3, <3>4, <3>5
  <2>4. \A k \in (Relayed \cup Handed)' : k \in Relayed \cup {f}
    BY <1>7, <1>13
  <2>5. \A t \in Sources : latest'[t] # 0 => SourceOf(latest[t])' = t
    BY <1>2, <2>1 DEF SightInv, LatchKnowsTheNewest
  <2>6. (ambientClosed => \A t \in Sources : latest[t] = 0)'
    BY <1>2 DEF SightInv, LatchKnowsTheNewest
  <2> QED BY <1>2, <2>1, <2>2, <2>3, <2>4, <2>5, <2>6 DEF LatchKnowsTheNewest
<1>15. KeptWasRecorded'
  BY <1>2, <1>7, <1>13 DEF SightInv, KeptWasRecorded, Elements
<1> QED BY <1>10, <1>11, <1>12, <1>14, <1>15 DEF SightInv

\* The sink raised: what was in hand is tried again, or is dropped.
LEMMA FailedKeeps == SightInv /\ DeliveryFails => SightInv'
<1> SUFFICES ASSUME SightInv, DeliveryFails PROVE SightInv'
  OBVIOUS
<1>1. /\ passAt = "deliver" /\ passReady /\ inHand' = NoHand /\ ambientQueue = <<>>
      /\ UNCHANGED <<shownFrames, keyframes, given, toDrain, ambientQueue, latest, latched, recorded,
                     sinkReady, payer, passReady, ambientClosed, flushing>>
  BY DEF DeliveryFails, SightInv, PassInStep, sightVars, storeVars, ambientVars
<1>2. \/ inHand.token = 0 /\ passAt' = "drain" /\ toLook' = toLook
      \/ inHand.token # 0 /\ passAt' = "look" /\ toLook' = toLook + 1
  BY DEF DeliveryFails
<1>3. Handed' = {} /\ HeldHand' = {}
  <2>1. Handed' = {}
    BY <1>1 DEF Handed
  <2> QED BY <2>1 DEF HeldHand
<1>4. /\ Shown' = Shown /\ Elements(given)' = Elements(given)
      /\ Elements(toDrain)' = Elements(toDrain) /\ Elements(ambientQueue)' = Elements(ambientQueue)
  BY <1>1 DEF Shown, Elements
<1>5. SightTypes'
  <2>1. toLook' \in Nat /\ passAt' \in {"drain", "look"}
    BY <1>2 DEF SightInv, SightTypes
  <2>2. inHand' \in [frame : Shown \cup {0}, token : Nat]
    BY <1>1 DEF NoHand
  <2> QED BY <1>1, <1>4, <2>1, <2>2 DEF SightInv, SightTypes
<1>6. PassInStep'
  <2>1. toLook' # 0
    BY <1>1, <1>2 DEF SightInv, SightTypes, PassInStep
  <2>2. toDrain # <<>> => inHand.token = 0
    BY DEF SightInv, PassInStep
  <2>3. passAt' \in {"drain", "look"} /\ (inHand.token = 0 => passAt' = "drain")
    BY <1>2
  <2> QED BY <1>1, <2>1, <2>2, <2>3 DEF SightInv, PassInStep, NoHand
<1>7. RelayedInTurn'
  BY <1>1, <1>3, <1>4 DEF SightInv, RelayedInTurn, InTurn, AllBefore, SourceOf
<1>8. Relayed' \subseteq Relayed
  BY <1>3, <1>4 DEF Relayed
<1>9. LatchKnowsTheNewest' /\ KeptWasRecorded'
  BY <1>1, <1>3, <1>8, MovingOnKeeps
<1> QED BY <1>5, <1>6, <1>7, <1>9 DEF SightInv

\* The relay is closed (aclose).
LEMMA CloseKeeps == SightInv /\ CloseAmbient => SightInv'
<1> SUFFICES ASSUME SightInv, CloseAmbient PROVE SightInv'
  OBVIOUS
<1>1. /\ UNCHANGED <<shownFrames, keyframes, given, toDrain, inHand, recorded, sinkReady, payer,
                     passAt, passReady, toLook, flushing>>
      /\ ambientQueue' = <<>> /\ latest' = [s \in Sources |-> 0]
      /\ latched' = [s \in Sources |-> NoScreen]
  BY DEF CloseAmbient, sightVars, passVars, budgetVars, storeVars
<1>2. /\ Shown' = Shown /\ Handed' = Handed /\ HeldHand' = HeldHand
      /\ Elements(given)' = Elements(given) /\ Elements(toDrain)' = Elements(toDrain)
      /\ Elements(ambientQueue)' = {} /\ Elements(keyframes)' = Elements(keyframes)
  BY <1>1 DEF Shown, Handed, HeldHand, NoHand, Elements
<1>3. SightTypes' /\ PassInStep'
  BY <1>1, <1>2 DEF SightInv, SightTypes, PassInStep, NoHand
<1>4. RelayedInTurn'
  BY <1>1, <1>2 DEF SightInv, RelayedInTurn, InTurn, AllBefore, SourceOf
<1>5. Relayed' \subseteq Relayed /\ Relayed \cup Handed \subseteq Shown
  BY <1>2, HandInStep DEF Relayed
<1>6. LatchKnowsTheNewest'
  <2>1. \A k \in Relayed \cup Handed : SourceOf(k) \in Sources /\ k # 0
    BY <1>5, FrameOfCall
  <2>2. \A k : SourceOf(k)' = SourceOf(k)
    BY <1>1 DEF SourceOf
  <2>3. \A k \in (Relayed \cup Handed)' : latest'[SourceOf(k)] = 0 /\ k # 0
    BY <1>1, <1>2, <1>5, <2>1
  <2> QED BY <1>1, <2>2, <2>3 DEF LatchKnowsTheNewest
<1>7. KeptWasRecorded'
  BY <1>1, <1>2, <1>5 DEF SightInv, KeptWasRecorded
<1> QED BY <1>3, <1>4, <1>6, <1>7 DEF SightInv

\* A frame arrives (KeyframeStore.offer, AmbientVision.offer).
LEMMA FrameKeeps ==
    ASSUME SightInv, NEW source \in Sources, NEW screen \in Screens, Frame(source, screen)
    PROVE  SightInv'
<1>1. PICK f : f = Len(shownFrames) + 1
  OBVIOUS
<1>2. /\ UNCHANGED <<given, toDrain, ambientQueue, inHand, latched, recorded, sinkReady, payer,
                     passReady, toLook, ambientClosed>>
      /\ shownFrames' = Append(shownFrames, [source |-> source, screen |-> screen,
                                             recorded |-> recorded])
      /\ Keep(f, source, screen)
  BY <1>1 DEF Frame, budgetVars
<1>3. /\ shownFrames' \in Seq([source : Sources, screen : Screens, recorded : BOOLEAN])
      /\ Shown \subseteq Shown' /\ f \in Shown' /\ f \notin Shown /\ f # 0
      /\ \A k \in Shown : shownFrames'[k] = shownFrames[k] /\ k < f
      /\ shownFrames'[f] = [source |-> source, screen |-> screen, recorded |-> recorded]
  <2>1. [source |-> source, screen |-> screen, recorded |-> recorded]
          \in [source : Sources, screen : Screens, recorded : BOOLEAN]
    BY DEF SightInv, SightTypes
  <2>2. shownFrames \in Seq([source : Sources, screen : Screens, recorded : BOOLEAN])
    BY DEF SightInv, SightTypes
  <2> QED BY <1>1, <1>2, <2>1, <2>2, JoinsLast DEF Shown
<1>4. \A k \in Shown : SourceOf(k)' = SourceOf(k) /\ ShowsNow(k)' = ShowsNow(k)
  BY <1>3 DEF SourceOf, ShowsNow
<1>5. /\ Handed' = Handed /\ HeldHand' = HeldHand
      /\ Elements(given)' = Elements(given) /\ Elements(toDrain)' = Elements(toDrain)
      /\ Elements(ambientQueue)' = Elements(ambientQueue)
  BY <1>2 DEF Handed, HeldHand, NoHand, Elements
<1>6. Relayed' = Relayed /\ Relayed \cup Handed \subseteq Shown
  BY <1>5, HandInStep DEF Relayed
<1>7. \/ latest' = latest /\ flushing' = flushing /\ passAt' = passAt
      \/ /\ recorded /\ ~ambientClosed /\ latest' = [latest EXCEPT ![source] = f]
         /\ flushing' = TRUE /\ passAt' = IF flushing THEN passAt ELSE "made"
  BY <1>1 DEF Frame, Stores, Flush
<1>8. keyframes' \in Seq(Shown') /\ \A k \in Elements(keyframes)' : shownFrames'[k].recorded
  <2>1. keyframes \in Seq(Shown') /\ Elements(keyframes) \subseteq Shown
    BY <1>3 DEF SightInv, SightTypes, Elements
  <2>2. \A k \in Elements(keyframes) : shownFrames'[k].recorded
    BY <1>3, <2>1 DEF SightInv, KeptWasRecorded
  <2>3. CASE keyframes' = keyframes
    BY <2>1, <2>2, <2>3 DEF Elements
  <2>4. CASE recorded /\ keyframes' = Last(HistoryMax, Append(keyframes, f))
    <3>1. PICK longer : longer = Append(keyframes, f)
      OBVIOUS
    <3>2. longer \in Seq(Shown') /\ Elements(longer) = Elements(keyframes) \cup {f}
      <4>1. /\ longer \in Seq(Shown') /\ DOMAIN longer = DOMAIN keyframes \cup {Len(keyframes) + 1}
            /\ \A i \in DOMAIN keyframes : longer[i] = keyframes[i]
            /\ longer[Len(keyframes) + 1] = f
        BY <1>3, <2>1, <3>1, JoinsLast
      <4> QED BY <4>1 DEF Elements
    <3>3. PICK kept : kept = Last(HistoryMax, longer)
      OBVIOUS
    <3>4. kept \in Seq(Shown') /\ Elements(kept) \subseteq Elements(longer)
      BY <3>2, <3>3, TurnKeepsLast, VisionAssumption DEF VisionAssumption
    <3>5. keyframes' = kept
      BY <2>4, <3>1, <3>3
    <3>6. Elements(keyframes)' = Elements(kept)
      BY <3>5 DEF Elements
    <3> QED BY <1>3, <2>2, <2>4, <3>2, <3>4, <3>5, <3>6
  <2> QED BY <1>2, <2>3, <2>4 DEF Keep, storeVars
<1>9. SightTypes'
  <2>1. latest' \in [Sources -> Shown' \cup {0}]
    BY <1>3, <1>7 DEF SightInv, SightTypes
  <2>2. /\ given \in Seq(Shown') /\ toDrain \in Seq(Shown') /\ ambientQueue \in Seq(Shown')
        /\ inHand \in [frame : Shown' \cup {0}, token : Nat]
    BY <1>3 DEF SightInv, SightTypes
  <2>3. passAt' \in {"idle", "made", "drain", "look", "deliver"}
    BY <1>7 DEF SightInv, SightTypes
  <2> QED BY <1>2, <1>3, <1>8, <2>1, <2>2, <2>3 DEF SightInv, SightTypes
<1>10. PassInStep'
  BY <1>2, <1>7 DEF SightInv, PassInStep, NoHand
<1>11. RelayedInTurn'
  <2>1. InTurn(toDrain)' /\ InTurn(given)' /\ InTurn(ambientQueue)'
    <3>1. ASSUME NEW q \in Seq(Shown), InTurn(q)
          PROVE  \A i, j \in DOMAIN q : i < j /\ SourceOf(q[i])' = SourceOf(q[j])' => q[i] < q[j]
      BY <1>4, <3>1 DEF InTurn
    <3>2. /\ InTurn(toDrain) /\ InTurn(given) /\ InTurn(ambientQueue)
          /\ toDrain \in Seq(Shown) /\ given \in Seq(Shown) /\ ambientQueue \in Seq(Shown)
      BY DEF SightInv, SightTypes, RelayedInTurn
    <3> QED BY <1>2, <3>1, <3>2 DEF InTurn
  <2>2. AllBefore(Elements(given), Elements(toDrain) \cup Elements(ambientQueue) \cup Handed)'
    <3>1. Elements(given) \cup Elements(toDrain) \cup Elements(ambientQueue) \cup Handed \subseteq Shown
      BY <1>6 DEF Relayed
    <3> QED BY <1>4, <1>5, <3>1 DEF SightInv, RelayedInTurn, AllBefore
  <2>3. AllBefore(Handed, Elements(toDrain))'
    <3>1. Elements(toDrain) \cup Handed \subseteq Shown
      BY <1>6 DEF Relayed
    <3> QED BY <1>4, <1>5, <3>1 DEF SightInv, RelayedInTurn, AllBefore
  <2> QED BY <2>1, <2>2, <2>3 DEF RelayedInTurn
<1>12. LatchKnowsTheNewest'
  <2>1. \A s \in Sources : \/ latest'[s] = latest[s]
                           \/ s = source /\ latest'[s] = f /\ ~ambientClosed
    BY <1>7 DEF SightInv, SightTypes
  <2>2. \A s \in Sources : latest'[s] # 0 => SourceOf(latest[s])' = s
    <3> SUFFICES ASSUME NEW s \in Sources, latest'[s] # 0 PROVE SourceOf(latest[s])' = s
      OBVIOUS
    <3>1. CASE latest'[s] = latest[s]
      BY <1>4, <3>1 DEF SightInv, SightTypes, LatchKnowsTheNewest, SourceOf
    <3>2. CASE s = source /\ latest'[s] = f
      BY <1>3, <3>2 DEF SourceOf
    <3> QED BY <2>1, <3>1, <3>2
  <2>3. \A k \in Relayed \cup Handed :
          /\ SourceOf(k) \in Sources /\ k < f
          /\ latest[SourceOf(k)] # 0 => k <= latest[SourceOf(k)]
          /\ k \in Relayed /\ latest[SourceOf(k)] = k => latched[SourceOf(k)] = ShowsNow(k)
    BY <1>3, <1>6, FrameOfCall DEF SightInv, LatchKnowsTheNewest
  <2>4. \A k \in Relayed \cup Handed :
          /\ latest'[SourceOf(k)] # 0 => k <= latest'[SourceOf(k)]
          /\ k \in Relayed /\ latest'[SourceOf(k)] = k => latched[SourceOf(k)] = ShowsNow(k)
    <3> SUFFICES ASSUME NEW k \in Relayed \cup Handed
                 PROVE  /\ latest'[SourceOf(k)] # 0 => k <= latest'[SourceOf(k)]
                        /\ k \in Relayed /\ latest'[SourceOf(k)] = k =>
                              latched[SourceOf(k)] = ShowsNow(k)
      OBVIOUS
    <3>1. CASE latest'[SourceOf(k)] = latest[SourceOf(k)]
      BY <2>3, <3>1
    <3>2. CASE latest'[SourceOf(k)] = f
      <4>1. k \in Nat /\ k < f /\ f \in Nat
        <5>1. f \in Nat
          BY <1>1 DEF SightInv, SightTypes
        <5> QED BY <1>6, <2>3, <5>1, FrameOfCall
      <4> QED BY <3>2, <4>1
    <3> QED BY <2>1, <2>3, <3>1, <3>2
  <2>5. (ambientClosed => \A s \in Sources : latest[s] = 0)'
    BY <1>2, <2>1 DEF SightInv, LatchKnowsTheNewest
  <2>6. \A k \in (Relayed \cup Handed)' : k \in Relayed \cup Handed /\ k \in Shown
    BY <1>5, <1>6
  <2> QED BY <1>2, <1>4, <1>6, <2>2, <2>4, <2>5, <2>6 DEF LatchKnowsTheNewest
<1>13. KeptWasRecorded'
  <2>1. \A k \in (Relayed \cup Handed)' : shownFrames'[k].recorded
    BY <1>3, <1>5, <1>6 DEF SightInv, KeptWasRecorded
  <2>2. \A s \in Sources : latest'[s] # 0 => shownFrames'[latest'[s]].recorded
    <3> SUFFICES ASSUME NEW s \in Sources, latest'[s] # 0 PROVE shownFrames'[latest'[s]].recorded
      OBVIOUS
    <3>1. CASE latest'[s] = latest[s]
      <4>1. latest[s] \in Shown /\ shownFrames[latest[s]].recorded
        BY <3>1 DEF SightInv, SightTypes, KeptWasRecorded
      <4> QED BY <1>3, <3>1, <4>1
    <3>2. CASE latest'[s] = f /\ recorded
      BY <1>3, <3>2
    <3> QED BY <1>7, <3>1, <3>2 DEF SightInv, SightTypes
  <2> QED BY <1>8, <2>1, <2>2 DEF KeptWasRecorded
<1> QED BY <1>9, <1>10, <1>11, <1>12, <1>13 DEF SightInv

\* The relay's invariant holds whatever the sink, the recording and the budget do.
THEOREM SightInvariant == VisionSpec => []SightInv
<1>1. VisionInit => SightInv
  <2> SUFFICES ASSUME VisionInit PROVE SightInv
    OBVIOUS
  <2>1. /\ given = <<>> /\ toDrain = <<>> /\ ambientQueue = <<>> /\ keyframes = <<>>
        /\ inHand = NoHand /\ passAt = "idle" /\ flushing = FALSE /\ ambientClosed = FALSE
        /\ latest = [s \in Sources |-> 0] /\ Handed = {}
    BY DEF VisionInit, Handed
  <2>2. Relayed = {} /\ Elements(keyframes) = {} /\ HeldHand = {}
    BY <2>1 DEF Relayed, Elements, HeldHand
  <2>3. SightTypes
    <3>1. /\ shownFrames = <<>> /\ payer = <<>> /\ recorded \in BOOLEAN /\ sinkReady \in BOOLEAN
          /\ latched = [s \in Sources |-> NoScreen] /\ toLook = 0 /\ passReady = FALSE
      BY DEF VisionInit
    <3>2. latest \in [Sources -> Shown \cup {0}] /\ latched \in [Sources -> Screens \cup {NoScreen}]
      BY <2>1, <3>1
    <3>3. inHand \in [frame : Shown \cup {0}, token : Nat]
      BY <2>1 DEF NoHand
    <3>4. \A S : <<>> \in Seq(S)
      OBVIOUS
    <3> QED BY <2>1, <3>1, <3>2, <3>3, <3>4 DEF SightTypes
  <2>4. PassInStep /\ RelayedInTurn
    <3>1. PassInStep
      BY <2>1 DEF PassInStep
    <3>2. Elements(given) = {} /\ InTurn(<<>>)
      BY <2>1 DEF Elements, InTurn
    <3> QED BY <2>1, <3>1, <3>2 DEF RelayedInTurn, AllBefore
  <2>5. LatchKnowsTheNewest /\ KeptWasRecorded
    BY <2>1, <2>2 DEF LatchKnowsTheNewest, KeptWasRecorded
  <2> QED BY <2>3, <2>4, <2>5 DEF SightInv
<1>2. SightInv /\ [VisionNext]_visionVars => SightInv'
  <2> SUFFICES ASSUME SightInv, [VisionNext]_visionVars PROVE SightInv'
    OBVIOUS
  <2>1. ASSUME UNCHANGED <<shownFrames, ambientVars, passVars, storeVars>>,
               recorded' \in BOOLEAN, sinkReady' \in BOOLEAN, payer' \in Seq({"ambient", "look"})
        PROVE  SightInv'
    <3>1. UNCHANGED <<shownFrames, given, toDrain, ambientQueue, inHand, keyframes, latest, latched,
                      ambientClosed, flushing, passAt, passReady, toLook>>
      BY <2>1 DEF ambientVars, passVars, storeVars
    <3>2. PassInStep'
      BY <3>1 DEF SightInv, PassInStep, NoHand
    <3>3. /\ passAt' \in {"idle", "made", "drain", "look", "deliver"}
          /\ toLook' \in Nat /\ passReady' \in BOOLEAN
      BY <3>1 DEF SightInv, SightTypes
    <3> QED BY <2>1, <3>1, <3>2, <3>3, StandingKeeps
  <2>2. recorded \in BOOLEAN /\ sinkReady \in BOOLEAN /\ payer \in Seq({"ambient", "look"})
    BY DEF SightInv, SightTypes
  <2>3. CASE BeginLook
    BY <2>1, <2>2, <2>3 DEF BeginLook, Charge, sightVars
  <2>4. CASE \E t \in looking : EndLook(t)
    BY <2>1, <2>2, <2>4 DEF EndLook, sightVars
  <2>5. CASE WindowMoves
    BY <2>1, <2>2, <2>5 DEF WindowMoves, sightVars
  <2>6. CASE RecordingTurns \/ SinkTurns
    BY <2>1, <2>2, <2>6 DEF RecordingTurns, SinkTurns, budgetVars
  <2>7. CASE UNCHANGED visionVars
    BY <2>1, <2>2, <2>7 DEF visionVars, sightVars, budgetVars
  <2>8. CASE NothingNew \/ PassEnds \/ BackstopTick
    <3>1. /\ UNCHANGED <<shownFrames, given, toDrain, ambientQueue, inHand, keyframes, latest, latched,
                         ambientClosed, recorded, sinkReady, payer, passReady>>
          /\ passAt' \in {"idle", "made", "look", passAt} /\ toLook' \in {toLook, toLook + 1}
      BY <2>8 DEF NothingNew, PassEnds, PassOver, BackstopTick, Flush, sightVars, ambientVars, storeVars,
                  budgetVars
    <3>2. PassInStep'
      <4>1. CASE NothingNew
        BY <3>1, <4>1 DEF NothingNew, ambientVars, SightInv, SightTypes, PassInStep, NoHand
      <4>2. CASE PassEnds
        BY <3>1, <4>2 DEF PassEnds, PassOver, SightInv, PassInStep, NoHand
      <4>3. CASE BackstopTick
        BY <3>1, <4>3 DEF BackstopTick, Flush, SightInv, PassInStep, NoHand
      <4> QED BY <2>8, <4>1, <4>2, <4>3
    <3>3. /\ passAt' \in {"idle", "made", "drain", "look", "deliver"}
          /\ toLook' \in Nat /\ passReady' \in BOOLEAN
      BY <3>1 DEF SightInv, SightTypes
    <3> QED BY <2>2, <3>1, <3>2, <3>3, StandingKeeps
  <2>9. CASE \E s \in Sources, x \in Screens : Frame(s, x)
    BY <2>9, FrameKeeps
  <2> QED BY <2>3, <2>4, <2>5, <2>6, <2>7, <2>8, <2>9, BeginPassKeeps, DrainKeeps, HoldKeeps,
             HandKeeps, DeliveredKeeps, FailedKeeps, CloseKeeps DEF VisionNext
<1> QED BY <1>1, <1>2, PTL DEF VisionSpec

\* The model sees no more than is paid for, in the order it happened, and only what
\* was shown while the call was recorded: for any number of sources, any ceiling, any
\* queue and history, and sinks that refuse, fail and come back (AmbientVision).
THEOREM SightIsPaidAndInOrder == VisionSpec => []SeesWhatItMay
<1>1. SightInv /\ BudgetInv => SeesWhatItMay
  <2> SUFFICES ASSUME SightInv, BudgetInv PROVE SeesWhatItMay
    OBVIOUS
  <2>1. NobodyLooksForFree
    BY BudgetCounts
  <2>2. ScreensInOrder
    BY DEF SightInv, RelayedInTurn, InTurn, ScreensInOrder
  <2>3. OnlyRecordedFrames
    BY DEF SightInv, KeptWasRecorded, Relayed, OnlyRecordedFrames
  <2> QED BY <2>1, <2>2, <2>3 DEF SeesWhatItMay
<1> QED BY <1>1, SightInvariant, BudgetInvariant, PTL

(***************************************************************************)
(* The slideshow (vision_tools.py), tool calls overlapping.                *)
(***************************************************************************)
Requests == [kind : Kinds, at : {"idle", "stopping", "working", "done"},
             left : Int, waitsFor : ShowCalls \cup {None}]
Pacers == [at : {"none", "made", "holding", "sending", "over"}, gen : Int, left : Int]

ShowTypes ==
    /\ request \in [ShowCalls -> Requests] /\ pacer \in [ShowCalls -> Pacers]
    /\ slideshow \in ShowCalls \cup {None} /\ lastShown \in ShowCalls \cup {None}
    /\ replaced \in [ShowCalls -> SUBSET ShowCalls]
    /\ generation \in Int

\* A pacer is made as its call answers, and bears the generation of that moment.
MadeByItsCall ==
    \A c \in ShowCalls :
        /\ request[c].at # "done" => pacer[c].at = "none"
        /\ pacer[c].at = "none" => replaced[c] = {}
        /\ pacer[c].gen <= generation

\* Whoever takes the tile raises the generation: a pacer that runs is outdated, ...
Outdated ==
    \A p \in ShowCalls : Runs(p) /\ replaced[p] # {} => pacer[p].gen < generation

\* ... and one that still sends was in hand, or is waited for.
WaitedForOrLeft ==
    \A p \in ShowCalls : pacer[p].at = "sending" /\ p \notin leftSending =>
        \A c \in replaced[p] : At(c, "stopping") /\ request[c].waitsFor = p

NothingShownYet == \A c \in ShowCalls : request[c].at \in {"idle", "stopping"} => lastShown # c

\* ReplacedStaysReplaced says nothing of the pacers that still run.
ShowInv ==
    /\ ShowTypes /\ MadeByItsCall /\ Outdated /\ WaitedForOrLeft
    /\ NothingShownYet /\ ReplacedStaysReplaced

\* A call takes the tile: it waits for the pacer that _slideshow names, if it runs
\* (_stop_slideshow), or it has shown its first picture (show_many).
LEMMA TakesOverKeeps ==
    ASSUME ShowInv, NEW c \in ShowCalls, NEW waited \in ShowCalls \cup {None},
           TakesOver(c, waited), generation' = generation + 1,
           NEW r \in Requests, request' = [request EXCEPT ![c] = r],
           \A p \in ShowCalls : request[p].at = "stopping" => p # c,
           waited # None => r.at = "stopping" /\ r.waitsFor = waited
    PROVE  /\ replaced' \in [ShowCalls -> SUBSET ShowCalls]
           /\ \A p \in ShowCalls : pacer[p].at = "none" => replaced'[p] = {}
           /\ \A p \in ShowCalls : Runs(p) => pacer[p].gen < generation'
           /\ \A p \in ShowCalls : pacer[p].at = "sending" /\ p \notin leftSending' =>
                  \A d \in replaced'[p] : At(d, "stopping")' /\ request'[d].waitsFor = p
<1>1. /\ replaced' \in [ShowCalls -> SUBSET ShowCalls]
      /\ \A p \in ShowCalls : replaced'[p] = IF Runs(p) THEN replaced[p] \cup {c} ELSE replaced[p]
  BY DEF TakesOver, ShowInv, ShowTypes
<1>2. \A p \in ShowCalls : pacer[p].at = "none" => replaced'[p] = {}
  BY <1>1 DEF ShowInv, MadeByItsCall, Runs
<1>3. \A p \in ShowCalls : pacer[p].gen < generation'
  BY DEF ShowInv, ShowTypes, Pacers, MadeByItsCall
<1>4. ASSUME NEW p \in ShowCalls, pacer[p].at = "sending", p \notin leftSending', NEW d \in replaced'[p]
      PROVE  At(d, "stopping")' /\ request'[d].waitsFor = p
  <2>1. p \notin leftSending /\ p = waited
    BY <1>4 DEF TakesOver
  <2>2. waited # None
    BY <2>1, ShowAssumption DEF ShowAssumption
  <2>3. request'[c] = r
    BY DEF ShowInv, ShowTypes
  <2>4. CASE d = c
    BY <2>1, <2>2, <2>3, <2>4 DEF At
  <2>5. CASE d # c
    <3>1. d \in replaced[p] /\ d \in ShowCalls
      BY <1>1, <1>4, <2>5 DEF ShowInv, ShowTypes
    <3>2. At(d, "stopping") /\ request[d].waitsFor = p
      BY <1>4, <2>1, <3>1 DEF ShowInv, WaitedForOrLeft
    <3> QED BY <2>5, <3>1, <3>2 DEF At, ShowInv, ShowTypes
  <2> QED BY <2>4, <2>5
<1> QED BY <1>1, <1>2, <1>3, <1>4

\* A call begins: the slideshow, if there is one, is told to stop (_stop_slideshow).
LEMMA BeginKeeps ==
    ASSUME ShowInv, NEW c \in ShowCalls, NEW kind \in Kinds \ {"one"}, NEW n \in Int,
           Begin(c, kind, n)
    PROVE  ShowInv'
<1>1. PICK r : r = [kind |-> kind, at |-> IF slideshow = None THEN "working" ELSE "stopping",
                    left |-> n, waitsFor |-> slideshow]
  OBVIOUS
<1>2. r \in Requests /\ slideshow \in ShowCalls \cup {None}
  BY <1>1 DEF ShowInv, ShowTypes, Requests
<1>3. /\ At(c, "idle") /\ slideshow' = None /\ TakesOver(c, slideshow)
      /\ UNCHANGED <<pacer, lastShown, overshown>> /\ generation' = generation + 1
      /\ request' = [request EXCEPT ![c] = r]
  BY <1>1 DEF Begin, WakeAndWait, Request
<1>4. /\ replaced' \in [ShowCalls -> SUBSET ShowCalls]
      /\ \A p \in ShowCalls : pacer[p].at = "none" => replaced'[p] = {}
      /\ \A p \in ShowCalls : Runs(p) => pacer[p].gen < generation'
      /\ \A p \in ShowCalls : pacer[p].at = "sending" /\ p \notin leftSending' =>
             \A d \in replaced'[p] : At(d, "stopping")' /\ request'[d].waitsFor = p
  <2>1. slideshow # None => r.at = "stopping" /\ r.waitsFor = slideshow
    BY <1>1
  <2>2. \A p \in ShowCalls : request[p].at = "stopping" => p # c
    BY <1>3 DEF At
  <2> QED BY <1>2, <1>3, <2>1, <2>2, TakesOverKeeps
<1>5. request'[c] = r /\ \A d \in ShowCalls : d # c => request'[d] = request[d]
  BY <1>3 DEF ShowInv, ShowTypes
<1>6. ShowTypes'
  <2>1. request' \in [ShowCalls -> Requests] /\ generation' \in Int
    BY <1>2, <1>3 DEF ShowInv, ShowTypes
  <2>2. slideshow' = None /\ pacer' = pacer /\ lastShown' = lastShown
    BY <1>3
  <2> QED BY <1>4, <2>1, <2>2 DEF ShowInv, ShowTypes
<1>7. MadeByItsCall'
  <2>1. \A d \in ShowCalls : pacer[d].gen <= generation'
    BY <1>3 DEF ShowInv, ShowTypes, Pacers, MadeByItsCall
  <2>2. \A d \in ShowCalls : request'[d].at # "done" => request[d].at # "done"
    BY <1>3, <1>5 DEF At
  <2> QED BY <1>3, <1>4, <2>1, <2>2 DEF ShowInv, MadeByItsCall
<1>8. Outdated' /\ WaitedForOrLeft'
  BY <1>3, <1>4 DEF Outdated, WaitedForOrLeft, Runs
<1>9. NothingShownYet' /\ ReplacedStaysReplaced'
  BY <1>3, <1>5 DEF ShowInv, NothingShownYet, ReplacedStaysReplaced, At
<1> QED BY <1>6, <1>7, <1>8, <1>9 DEF ShowInv

\* A call at work, or one that begins or may begin to work, goes on beside the pacers.
LEMMA WorksOn ==
    ASSUME ShowInv, NEW c \in ShowCalls, NEW r \in Requests,
           request' = [request EXCEPT ![c] = r],
           request[c].at # "done", r.at \in {"working", "done"},
           At(c, "stopping") => pacer[request[c].waitsFor].at = "over",
           UNCHANGED <<generation, slideshow, pacer, replaced, leftSending>>,
           lastShown' \in {lastShown, c, None}, ~overshown'
    PROVE  ShowInv'
<1>1. request'[c] = r /\ \A d \in ShowCalls : d # c => request'[d] = request[d]
  BY DEF ShowInv, ShowTypes
<1>2. ShowTypes'
  BY DEF ShowInv, ShowTypes
<1>3. MadeByItsCall'
  BY <1>1 DEF ShowInv, MadeByItsCall
<1>4. Outdated'
  BY DEF ShowInv, Outdated, Runs
<1>5. WaitedForOrLeft'
  <2> SUFFICES ASSUME NEW p \in ShowCalls, pacer[p].at = "sending", p \notin leftSending, NEW d \in replaced[p]
               PROVE  At(d, "stopping")' /\ request'[d].waitsFor = p
    BY DEF WaitedForOrLeft
  <2>1. d \in ShowCalls /\ At(d, "stopping") /\ request[d].waitsFor = p
    BY DEF ShowInv, ShowTypes, WaitedForOrLeft
  <2>2. d # c
    BY <2>1
  <2> QED BY <1>1, <2>1, <2>2 DEF At
<1>6. NothingShownYet' /\ ReplacedStaysReplaced'
  BY <1>1, ShowAssumption DEF ShowAssumption, ShowInv, NothingShownYet, ReplacedStaysReplaced
<1> QED BY <1>2, <1>3, <1>4, <1>5, <1>6 DEF ShowInv

\* show_many leaves the rest of its pictures to a pacer.
LEMMA PacerMade ==
    ASSUME ShowInv, NEW c \in ShowCalls, At(c, "working"),
           request' = [request EXCEPT ![c].at = "done"],
           generation' = generation + 1, slideshow' = c,
           pacer' = [pacer EXCEPT ![c] = [at |-> "made", gen |-> generation + 1,
                                          left |-> request[c].left - 1]],
           TakesOver(c, None), lastShown' \in {lastShown, c}, ~overshown'
    PROVE  ShowInv'
<1>1. PICK r \in Requests : r = [request[c] EXCEPT !.at = "done"]
  BY DEF ShowInv, ShowTypes, Requests
<1>2. /\ request' = [request EXCEPT ![c] = r] /\ request'[c].at = "done"
      /\ \A d \in ShowCalls : d # c => request'[d] = request[d]
  BY <1>1 DEF ShowInv, ShowTypes, Requests
<1>3. /\ replaced' \in [ShowCalls -> SUBSET ShowCalls]
      /\ \A p \in ShowCalls : pacer[p].at = "none" => replaced'[p] = {}
      /\ \A p \in ShowCalls : Runs(p) => pacer[p].gen < generation'
      /\ \A p \in ShowCalls : pacer[p].at = "sending" /\ p \notin leftSending' =>
             \A d \in replaced'[p] : At(d, "stopping")' /\ request'[d].waitsFor = p
  <2>1. \A p \in ShowCalls : request[p].at = "stopping" => p # c
    BY DEF At
  <2> QED BY <1>2, <2>1, TakesOverKeeps
<1>4. pacer[c].at = "none" /\ replaced'[c] = {}
  BY <1>3 DEF ShowInv, MadeByItsCall, At
<1>5. /\ pacer'[c] = [at |-> "made", gen |-> generation + 1, left |-> request[c].left - 1]
      /\ pacer'[c].at = "made" /\ pacer'[c].gen = generation + 1
      /\ \A d \in ShowCalls : d # c => pacer'[d] = pacer[d]
  BY DEF ShowInv, ShowTypes
<1>6. ShowTypes'
  <2>1. request[c].left \in Int /\ generation \in Int
    BY DEF ShowInv, ShowTypes, Requests
  <2>2. [at |-> "made", gen |-> generation + 1, left |-> request[c].left - 1] \in Pacers
    BY <2>1 DEF Pacers
  <2>3. request' \in [ShowCalls -> Requests] /\ pacer' \in [ShowCalls -> Pacers] /\ generation' \in Int
    BY <1>2, <2>1, <2>2 DEF ShowInv, ShowTypes
  <2>4. slideshow' \in ShowCalls \cup {None} /\ lastShown' \in ShowCalls \cup {None}
    BY DEF ShowInv, ShowTypes
  <2> QED BY <1>3, <2>3, <2>4 DEF ShowTypes
<1>7. MadeByItsCall'
  <2>1. \A d \in ShowCalls : pacer[d].gen <= generation /\ pacer[d].gen \in Int /\ generation \in Int
    BY DEF ShowInv, ShowTypes, Pacers, MadeByItsCall
  <2>2. \A d \in ShowCalls : pacer'[d].gen <= generation'
    BY <1>5, <2>1
  <2> QED BY <1>2, <1>3, <1>5, <2>2 DEF ShowInv, MadeByItsCall
<1>8. Outdated'
  BY <1>3, <1>4, <1>5 DEF Outdated, Runs
<1>9. WaitedForOrLeft'
  BY <1>3, <1>5 DEF WaitedForOrLeft
<1>10. NothingShownYet' /\ ReplacedStaysReplaced'
  BY <1>2 DEF ShowInv, NothingShownYet, ReplacedStaysReplaced
<1> QED BY <1>6, <1>7, <1>8, <1>9, <1>10 DEF ShowInv

\* A tool call begins with one picture, sends its pictures, makes its pacer or is cut
\* short (VisionTools).
LEMMA WorkKeeps ==
    ASSUME ShowInv, NEW c \in ShowCalls, BeginOne(c) \/ WorkSteps(c)
    PROVE  ShowInv'
<1>1. request[c] \in Requests /\ request \in [ShowCalls -> Requests] /\ ~overshown
  BY DEF ShowInv, ShowTypes, ReplacedStaysReplaced
<1>2. ASSUME At(c, "working"), request' = [request EXCEPT ![c].at = "done"],
             UNCHANGED <<generation, slideshow, pacer, replaced, leftSending>>,
             lastShown' \in {lastShown, c, None}, ~overshown'
      PROVE  ShowInv'
  <2>1. PICK r \in Requests : r = [request[c] EXCEPT !.at = "done"]
    BY <1>1 DEF Requests
  <2>2. r.at \in {"working", "done"} /\ request' = [request EXCEPT ![c] = r]
    BY <1>1, <1>2, <2>1 DEF Requests
  <2> QED BY <1>2, <2>2, WorksOn DEF At
<1>3. ASSUME At(c, "working"), ToTile(c) PROVE lastShown' = c /\ ~overshown'
  <2>1. pacer[c].at # "sending"
    BY <1>3 DEF ShowInv, MadeByItsCall, At
  <2> QED BY <1>1, <1>3, <2>1 DEF ToTile
<1>4. CASE Stopped(c)
  <2>1. PICK r \in Requests : r = [request[c] EXCEPT !.at = "working"]
    BY <1>1 DEF Requests
  <2>2. r.at = "working" /\ request' = [request EXCEPT ![c] = r]
    BY <1>1, <1>4, <2>1 DEF Stopped, Does, Requests
  <2> QED BY <1>1, <1>4, <2>2, WorksOn DEF Stopped, At
<1>5. CASE OneShown(c) \/ OneFails(c) \/ ResetDone(c) \/ FirstFails(c) \/ WalkStops(c)
  BY <1>1, <1>2, <1>3, <1>5 DEF OneShown, OneFails, ResetDone, FirstFails, WalkStops, Answers, Does
<1>6. CASE FirstShown(c) \/ FirstMisfits(c)
  <2>1. /\ At(c, "working") /\ LeaveTheRest(c)
        /\ request' = [request EXCEPT ![c].at = "done"]
        /\ lastShown' \in {lastShown, c} /\ ~overshown'
    BY <1>1, <1>3, <1>6 DEF FirstShown, FirstMisfits, Answers, Does
  <2>2. CASE request[c].left > 1
    BY <2>1, <2>2, PacerMade DEF LeaveTheRest
  <2>3. CASE ~(request[c].left > 1)
    BY <1>2, <2>1, <2>3 DEF LeaveTheRest
  <2> QED BY <2>2, <2>3
<1>7. CASE Beat(c)
  <2>1. /\ At(c, "working") /\ lastShown' \in {lastShown, c} /\ ~overshown'
        /\ UNCHANGED <<generation, slideshow, pacer, replaced, leftSending>> /\ NextBeat(c)
    BY <1>1, <1>3, <1>7 DEF Beat
  <2>2. CASE request[c].left = 1
    BY <1>2, <2>1, <2>2 DEF NextBeat, Answers, Does
  <2>3. CASE request[c].left # 1
    <3>1. PICK r \in Requests : r = [request[c] EXCEPT !.left = @ - 1]
      <4>1. request[c].left - 1 \in Int
        BY <1>1 DEF Requests
      <4> QED BY <1>1, <4>1 DEF Requests
    <3>2. r.at = "working"
      BY <1>1, <2>1, <3>1 DEF At, Requests
    <3>3. request' = [request EXCEPT ![c] = r]
      BY <1>1, <2>1, <2>3, <3>1 DEF NextBeat
    <3> QED BY <2>1, <3>2, <3>3, WorksOn DEF At
  <2> QED BY <2>2, <2>3
<1>8. CASE BeginOne(c)
  <2>3. [kind |-> "one", at |-> "working", left |-> 1, waitsFor |-> None] \in Requests
    BY DEF Requests, Kinds
  <2>1. PICK r \in Requests : r = [kind |-> "one", at |-> "working", left |-> 1, waitsFor |-> None]
    BY <2>3
  <2>2. r.at = "working" /\ request' = [request EXCEPT ![c] = r]
    BY <1>8, <2>1 DEF BeginOne, Request
  <2> QED BY <1>1, <1>8, <2>2, WorksOn DEF BeginOne, At
<1> QED BY <1>4, <1>5, <1>6, <1>7, <1>8 DEF WorkSteps

\* A pacer holds, shows, skips or ends, and an outdated one sends nothing more (_pace).
LEMMA PacerKeeps ==
    ASSUME ShowInv, NEW p \in ShowCalls, PacerSteps(p)
    PROVE  ShowInv'
<1>1. /\ Runs(p) /\ UNCHANGED <<generation, slideshow, request, replaced>>
      /\ pacer' \in [ShowCalls -> Pacers] /\ pacer'[p].gen = pacer[p].gen
      /\ pacer'[p].at \in {"holding", "sending", "over"}
      /\ pacer'[p].at = "sending" => pacer[p].gen = generation
      /\ \A q \in ShowCalls : q # p => pacer'[q] = pacer[q]
      /\ leftSending' \in {leftSending, leftSending \ {p}}
      /\ \/ UNCHANGED <<lastShown, overshown>>
         \/ ToTile(p) /\ pacer[p].at = "sending"
  <2> USE DEF ShowInv, ShowTypes, Pacers, PacerAt, Runs
  <2>1. ASSUME NEW here \in {"holding", "sending", "over"}, PacerGoes(p, here)
        PROVE  /\ pacer' \in [ShowCalls -> Pacers] /\ pacer'[p].at = here
               /\ pacer'[p].gen = pacer[p].gen
               /\ \A q \in ShowCalls : q # p => pacer'[q] = pacer[q]
    BY <2>1 DEF PacerGoes
  <2>2. ASSUME PacerNext(p)
        PROVE  /\ pacer' \in [ShowCalls -> Pacers] /\ pacer'[p].at \in {"holding", "over"}
               /\ pacer'[p].gen = pacer[p].gen
               /\ \A q \in ShowCalls : q # p => pacer'[q] = pacer[q]
    <3>1. CASE pacer[p].left = 1
      BY <2>1, <2>2, <3>1 DEF PacerNext
    <3>2. CASE pacer[p].left # 1
      BY <2>2, <3>2 DEF PacerNext
    <3> QED BY <3>1, <3>2
  <2>3. CASE HoldStarts(p)
    BY <2>1, <2>3 DEF HoldStarts
  <2>4. CASE HoldWoken(p) \/ HoldTimesOut(p)
    BY <2>1, <2>4 DEF HoldWoken, HoldTimesOut, AfterHold
  <2>5. CASE PictureShown(p) \/ PictureSkipped(p)
    BY <2>2, <2>5 DEF PictureShown, PictureSkipped
  <2> QED BY <2>3, <2>4, <2>5 DEF PacerSteps
<1>2. pacer[p].at # "none" /\ request[p].at = "done"
  BY <1>1 DEF Runs, ShowInv, MadeByItsCall
<1>3. ~overshown' /\ lastShown' \in {lastShown, p}
  <2>1. ~overshown
    BY DEF ShowInv, ReplacedStaysReplaced
  <2>2. CASE ToTile(p) /\ pacer[p].at = "sending"
    <3>1. ~(p \notin leftSending /\ lastShown \in replaced[p])
      BY <2>2 DEF ShowInv, ShowTypes, WaitedForOrLeft, NothingShownYet, At
    <3> QED BY <2>1, <2>2, <3>1 DEF ToTile
  <2>3. CASE UNCHANGED <<lastShown, overshown>>
    BY <2>1, <2>3
  <2> QED BY <1>1, <2>2, <2>3
<1>4. ShowTypes'
  BY <1>1, <1>3 DEF ShowInv, ShowTypes
<1>5. MadeByItsCall'
  BY <1>1, <1>2 DEF ShowInv, MadeByItsCall
<1>6. Outdated'
  BY <1>1 DEF ShowInv, Outdated, Runs
<1>7. WaitedForOrLeft'
  <2>1. pacer'[p].at = "sending" => replaced[p] = {}
    BY <1>1 DEF ShowInv, ShowTypes, Pacers, Outdated
  <2> QED BY <1>1, <2>1 DEF ShowInv, WaitedForOrLeft, At
<1>8. NothingShownYet' /\ ReplacedStaysReplaced'
  BY <1>1, <1>2, <1>3 DEF ShowInv, NothingShownYet, ReplacedStaysReplaced
<1> QED BY <1>4, <1>5, <1>6, <1>7, <1>8 DEF ShowInv

\* However tool calls overlap, no picture of a slideshow follows those of a call that
\* took the tile from it, but for one that was in hand and not waited for, for any
\* number of calls and pictures (VisionTools).
THEOREM TileIsHandedOver == ShowSpec => []ReplacedStaysReplaced
<1>1. ShowInit => ShowInv
  <2> SUFFICES ASSUME ShowInit PROVE ShowInv
    OBVIOUS
  <2>1. /\ \A c \in ShowCalls : request[c].at = "idle" /\ pacer[c] = NoPacer /\ replaced[c] = {}
        /\ generation = 0 /\ lastShown = None /\ overshown = FALSE
    BY DEF ShowInit, Idle, Request
  <2>2. ShowTypes
    BY DEF ShowInit, ShowTypes, Requests, Pacers, Idle, Request, NoPacer, Kinds
  <2> QED BY <2>1, <2>2, ShowAssumption
          DEF ShowAssumption, ShowInv, MadeByItsCall, Outdated, WaitedForOrLeft, Runs, NoPacer,
              NothingShownYet, ReplacedStaysReplaced
<1>2. ShowInv /\ [ShowNext]_showVars => ShowInv'
  <2> SUFFICES ASSUME ShowInv, [ShowNext]_showVars PROVE ShowInv'
    OBVIOUS
  <2>1. CASE ShowNext
    <3>1. \A n \in 1..Pictures : n \in Int
      OBVIOUS
    <3> QED BY <2>1, <3>1, BeginKeeps, WorkKeeps, PacerKeeps DEF ShowNext
  <2>2. CASE UNCHANGED showVars
    BY <2>2 DEF showVars, ShowInv, ShowTypes, MadeByItsCall, Outdated, WaitedForOrLeft, Runs,
                NothingShownYet, ReplacedStaysReplaced, At
  <2> QED BY <2>1, <2>2
<1>3. ShowInv => ReplacedStaysReplaced
  BY DEF ShowInv
<1> QED BY <1>1, <1>2, <1>3, PTL DEF ShowSpec
=============================================================================
