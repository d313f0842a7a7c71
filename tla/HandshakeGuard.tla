--------------------------- MODULE HandshakeGuard ---------------------------
(***************************************************************************)
(* The single-use guard on the upgrade StandIn signs: verify_handshake's   *)
(* freshness window and the cache _used_signatures of CallServer._upgrade. *)
(* A signature is determined by its timestamp and the callId it signs, so  *)
(* a fingerprint is that pair.  Time is in ticks of the wall clock, which  *)
(* is taken to run forward.                                                *)
(***************************************************************************)
EXTENDS Integers

CONSTANTS
    CallIds,     \* the callIds in the signed path
    Window,      \* REPLAY_WINDOW_MS, in ticks
    PruneEvery,  \* _PRUNE_INTERVAL_MS, in ticks
    MaxTime      \* bound: the last tick

ASSUME HandshakeGuardAssumption ==
    /\ Window \in Nat
    /\ PruneEvery \in Nat
    /\ MaxTime \in Nat

Stamps == -Window..(MaxTime + Window)
Fingerprints == [ts : Stamps, id : CallIds]

VARIABLES
    now,        \* now_ms()
    used,       \* _used_signatures: the fingerprints, each with its stamp
    lastPrune,  \* _last_prune
    uses        \* history: how often each fingerprint got past the guard

vars == <<now, used, lastPrune, uses>>

TypeOK ==
    /\ now \in 0..MaxTime
    /\ used \subseteq [fp : Fingerprints, at : Stamps]
    /\ lastPrune \in 0..MaxTime
    /\ uses \in [Fingerprints -> Nat]

Init ==
    /\ now = 0
    /\ used = {}
    /\ lastPrune = 0
    /\ uses = [fp \in Fingerprints |-> 0]

\* Correctly signed, and signed no further than the window from now.
Fresh(fp) == now - fp.ts <= Window /\ fp.ts - now <= Window

Known(fp) == \E u \in used : u.fp = fp

\* Mutant: an entry is aged from its arrival.
ArrivalStamp(fp) == now

\* An entry is aged from its signing time, so it lives as long as the
\* signature does.
Stamp(fp) == fp.ts

Sweep(entries) == {u \in entries : u.at >= now - Window}

\* The guarded part of _upgrade: a fresh and unknown handshake is recorded,
\* and the cache is swept if a sweep is due.
Use(fp) ==
    /\ Fresh(fp)
    /\ ~Known(fp)
    /\ LET entries == used \cup {[fp |-> fp, at |-> Stamp(fp)]}
           due == now - lastPrune >= PruneEvery
       IN  /\ used' = IF due THEN Sweep(entries) ELSE entries
           /\ lastPrune' = IF due THEN now ELSE lastPrune
    /\ uses' = [uses EXCEPT ![fp] = @ + 1]
    /\ UNCHANGED now

Tick ==
    /\ now < MaxTime
    /\ now' = now + 1
    /\ UNCHANGED <<used, lastPrune, uses>>

Next == Tick \/ \E fp \in Fingerprints : Use(fp)

Spec == Init /\ [][Next]_vars

\* A captured handshake opens nothing a second time, however the sweeps fall
\* and however far ahead of our clock it was signed.
SingleUse == \A fp \in Fingerprints : uses[fp] <= 1

\* The cache is bounded by the window: a sweep leaves nothing behind that can
\* no longer be replayed, and nothing is entered that is not fresh.
CacheIsRecent ==
    \A u \in used : u.at >= lastPrune - Window /\ u.at <= now + Window
=============================================================================
