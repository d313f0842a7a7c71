------------------------ MODULE HandshakeGuardProofs ------------------------
(***************************************************************************)
(* A handshake is good for one session, for every window, sweep interval   *)
(* and set of callIds: an entry swept from the cache is one whose          *)
(* signature is no longer fresh, because both are aged from the timestamp. *)
(***************************************************************************)
EXTENDS HandshakeGuard, TLAPS

\* Every entry carries the timestamp that was signed.
AgedFromSigning == \A u \in used : u.at = u.fp.ts

\* What got past the guard is remembered for as long as it could pass again.
RememberedWhileFresh ==
    \A fp \in Fingerprints :
        \/ uses[fp] = 0
        \/ uses[fp] = 1 /\ (Known(fp) \/ fp.ts < now - Window)

SweptInThePast == lastPrune <= now

GuardInv == AgedFromSigning /\ RememberedWhileFresh /\ SweptInThePast

\* A fresh fingerprint that the cache does not know has never been used.
LEMMA UnknownIsUnused ==
    ASSUME TypeOK, GuardInv, NEW fp \in Fingerprints, Fresh(fp), ~Known(fp)
    PROVE  uses[fp] = 0
BY HandshakeGuardAssumption DEF HandshakeGuardAssumption, TypeOK, GuardInv,
   RememberedWhileFresh, Fresh, Fingerprints, Stamps

\* The cache after a handshake: the old entries and the new one, less what the
\* sweep finds older than the window.
LEMMA CacheAfterUse ==
    ASSUME TypeOK, NEW fp \in Fingerprints, Use(fp)
    PROVE  /\ lastPrune' \in {lastPrune, now} /\ now' = now
           /\ used' \subseteq used \cup {[fp |-> fp, at |-> fp.ts]}
           /\ \A u \in used \cup {[fp |-> fp, at |-> fp.ts]} :
                  u.at >= now - Window => u \in used'
           /\ lastPrune' = lastPrune \/ \A u \in used' : u.at >= now - Window
BY DEF Use, Sweep, Stamp

\* The guard's variables keep to their ranges; no entry and no sweep is stamped
\* outside the bounded time line.
THEOREM TypeCorrect == Spec => []TypeOK
<1> USE HandshakeGuardAssumption DEF HandshakeGuardAssumption
<1>1. Init => TypeOK
  BY DEF Init, TypeOK
<1>2. TypeOK /\ [Next]_vars => TypeOK'
  <2> SUFFICES ASSUME TypeOK, [Next]_vars PROVE TypeOK'
    OBVIOUS
  <2>1. CASE Tick
    BY <2>1 DEF Tick, TypeOK
  <2>2. ASSUME NEW fp \in Fingerprints, Use(fp) PROVE TypeOK'
    <3>1. [fp |-> fp, at |-> fp.ts] \in [fp : Fingerprints, at : Stamps]
      BY DEF Fingerprints
    <3>2. used' \subseteq [fp : Fingerprints, at : Stamps]
      BY <2>2, <3>1, CacheAfterUse DEF TypeOK
    <3>3. lastPrune' \in 0..MaxTime /\ now' \in 0..MaxTime
      BY <2>2, CacheAfterUse DEF TypeOK
    <3>4. uses' \in [Fingerprints -> Nat]
      BY <2>2 DEF Use, TypeOK
    <3> QED
      BY <3>2, <3>3, <3>4 DEF TypeOK
  <2>3. CASE UNCHANGED vars
    BY <2>3 DEF vars, TypeOK
  <2> QED
    BY <2>1, <2>2, <2>3 DEF Next
<1>3. QED
  BY <1>1, <1>2, PTL DEF Spec

\* The inductive invariant: a use is remembered until its timestamp is out of
\* the window, wherever the sweeps fall.
THEOREM UsesAreRemembered == Spec => []GuardInv
<1> USE HandshakeGuardAssumption DEF HandshakeGuardAssumption
<1>1. Init => GuardInv
  BY DEF Init, GuardInv, AgedFromSigning, RememberedWhileFresh, SweptInThePast
<1>2. TypeOK /\ GuardInv /\ [Next]_vars => GuardInv'
  <2> SUFFICES ASSUME TypeOK, GuardInv, [Next]_vars PROVE GuardInv'
    OBVIOUS
  <2>1. CASE Tick
    BY <2>1 DEF Tick, GuardInv, AgedFromSigning, RememberedWhileFresh,
                SweptInThePast, Known, TypeOK, Fingerprints, Stamps
  <2>2. ASSUME NEW fp \in Fingerprints, Use(fp) PROVE GuardInv'
    <3>1. AgedFromSigning'
      BY <2>2, CacheAfterUse DEF GuardInv, AgedFromSigning
    <3>2. SweptInThePast'
      BY <2>2, CacheAfterUse DEF GuardInv, SweptInThePast, TypeOK
    <3>3. ASSUME NEW other \in Fingerprints
          PROVE  \/ uses'[other] = 0
                 \/ uses'[other] = 1
                    /\ (Known(other)' \/ other.ts < now' - Window)
      <4>1. CASE other = fp
        <5>1. fp.ts >= now - Window
          BY <2>2 DEF Use, Fresh, TypeOK, Fingerprints, Stamps
        <5> DEFINE entry == [fp |-> fp, at |-> fp.ts]
        <5>2. entry \in used' /\ entry.fp = fp
          BY <2>2, <5>1, CacheAfterUse
        <5>3. uses'[fp] = 1
          BY <2>2, UnknownIsUnused DEF Use, TypeOK
        <5>4. Known(fp)'
          BY <5>2 DEF Known
        <5> QED
          BY <4>1, <5>3, <5>4
      <4>2. CASE other # fp
        <5>1. uses'[other] = uses[other] /\ now' = now
          BY <2>2, <4>2 DEF Use, TypeOK
        <5>2. ASSUME NEW u \in used, u.fp = other, other.ts >= now - Window
              PROVE  Known(other)'
          BY <2>2, <5>2, CacheAfterUse DEF GuardInv, AgedFromSigning, Known
        <5>3. other.ts >= now - Window \/ other.ts < now - Window
          BY DEF TypeOK, Fingerprints, Stamps
        <5> QED
          BY <5>1, <5>2, <5>3 DEF GuardInv, RememberedWhileFresh, Known
      <4> QED
        BY <4>1, <4>2
    <3>4. RememberedWhileFresh'
      BY <3>3 DEF RememberedWhileFresh
    <3> QED
      BY <3>1, <3>2, <3>4 DEF GuardInv
  <2>3. CASE UNCHANGED vars
    BY <2>3 DEF vars, GuardInv, AgedFromSigning, RememberedWhileFresh,
                SweptInThePast, Known
  <2> QED
    BY <2>1, <2>2, <2>3 DEF Next
<1>3. QED
  BY <1>1, <1>2, TypeCorrect, PTL DEF Spec

\* No handshake gets past the guard twice (the single-use check of _upgrade).
THEOREM UsedOnce == Spec => []SingleUse
<1>1. GuardInv => SingleUse
  BY DEF GuardInv, RememberedWhileFresh, SingleUse
<1> QED
  BY <1>1, UsesAreRemembered, PTL

\* The cache never holds more than what was signed around the last sweep and
\* since: it is bounded by the window and the sweep interval.
THEOREM CacheStaysRecent == Spec => []CacheIsRecent
<1> USE HandshakeGuardAssumption DEF HandshakeGuardAssumption
<1>1. Init => CacheIsRecent
  BY DEF Init, CacheIsRecent
<1>2. TypeOK /\ GuardInv /\ CacheIsRecent /\ [Next]_vars => CacheIsRecent'
  <2> SUFFICES ASSUME TypeOK, GuardInv, CacheIsRecent, [Next]_vars
               PROVE  CacheIsRecent'
    OBVIOUS
  <2>1. CASE Tick
    BY <2>1 DEF Tick, CacheIsRecent, TypeOK, Stamps
  <2>2. ASSUME NEW fp \in Fingerprints, Use(fp) PROVE CacheIsRecent'
    <3>1. fp.ts >= now - Window /\ fp.ts <= now + Window
      BY <2>2 DEF Use, Fresh, TypeOK, Fingerprints, Stamps
    <3> QED
      BY <2>2, <3>1, CacheAfterUse
         DEF CacheIsRecent, GuardInv, SweptInThePast, TypeOK, Fingerprints, Stamps
  <2>3. CASE UNCHANGED vars
    BY <2>3 DEF vars, CacheIsRecent
  <2> QED
    BY <2>1, <2>2, <2>3 DEF Next
<1>3. QED
  BY <1>1, <1>2, TypeCorrect, UsesAreRemembered, PTL DEF Spec
=============================================================================
