------------------------------- MODULE TalkProofs -------------------------------
(***************************************************************************)
(* Theorems about a conversation by voice: who may speak, what is heard of *)
(* the first words, and that what was stopped stays silent                 *)
(* (voice.py, group_gate.py, startup_buffer.py, realtime.py, hermes_agent).  *)
(***************************************************************************)
EXTENDS VoiceLane, RealtimeTurns, GroupGate, StartupBuffer, SpokenTurn, Visemes,
        FiniteSetTheorems, SequenceTheorems, TLAPS

(***************************************************************************)
(* The turn-based lane.                                                    *)
(***************************************************************************)
Stages == {"idle", "hearing", "answering", "voicing", "playing"}

\* Who was stopped is on the way out: its task is cancelled, or it is the one that
\* plays and finds the flag before its next frame.  One buffer plays at a time,
\* so whoever clears the flag clears it for nobody else.
SilenceInv ==
    /\ voice \in [Voices -> Stages]
    /\ cut \subseteq Voices /\ dying \subseteq Voices /\ muted \in BOOLEAN
    /\ \A s \in cut \cup dying : Active(s)
    /\ \A s \in cut : s \in dying \/ (voice[s] = "playing" /\ muted)
    /\ \A s, t \in Playing : s = t
    /\ "turn" \in dying => laneClosed
    /\ StoppedIsSilent

\* Steps that a speaker takes before it plays, or when it ends.
LEMMA QuietStepKeeps ==
    ASSUME SilenceInv, NEW s \in Voices, voice[s] # "playing", s \notin dying,
           NEW to \in Stages \ {"playing"}, Goes(s, to), cut' \in {cut, cut \ {s}},
           UNCHANGED <<dying, muted, laneClosed, overrun>>
    PROVE  SilenceInv'
<1>1. s \notin cut
  BY DEF SilenceInv
<1>2. /\ voice' \in [Voices -> Stages] /\ voice'[s] = to
      /\ \A t \in Voices : t # s => voice'[t] = voice[t]
  BY DEF SilenceInv, Goes
<1>3. \A t \in Voices : Active(t) /\ t # s => Active(t)'
  BY <1>2 DEF Active
<1>4. Playing' \subseteq Playing
  BY <1>2 DEF Playing
<1> QED BY <1>1, <1>2, <1>3, <1>4 DEF SilenceInv, StoppedIsSilent

\* Nothing of an answer reaches the caller after a barge-in on a piece of it that
\* played, a newer turn or the end of the lane, however these and the lines of others
\* fall (VoiceLane, PacedPlayback): a flag set while a buffer plays is only ever
\* cleared by that buffer.  One set between two buffers is not spoken of.
THEOREM StoppedStaysSilent == VoiceSpec => []StoppedIsSilent
<1>1. VoiceInit => SilenceInv
  BY DEF VoiceInit, SilenceInv, StoppedIsSilent, Active, Playing, Stages, Voices
<1>2. SilenceInv /\ [VoiceNext]_voiceVars => SilenceInv'
  <2> SUFFICES ASSUME SilenceInv, [VoiceNext]_voiceVars PROVE SilenceInv'
    OBVIOUS
  <2>1. ASSUME UNCHANGED <<voice, dying, muted, laneClosed, cut, overrun>>
        PROVE  SilenceInv'
    BY <2>1 DEF SilenceInv, StoppedIsSilent, Active, Playing
  <2>2. CASE QuietBefore
    BY <2>1, <2>2 DEF QuietBefore, sayVars, heardVars
  <2>3. CASE GateOpens \/ BargedIn
    <3>1. UNCHANGED <<voice, dying, laneClosed, overrun>> /\ cut' = cut \cup Playing
      BY <2>3 DEF GateOpens, BargedIn
    <3>2. muted' \in BOOLEAN /\ (muted \/ Playing # {} => muted')
      BY <2>3 DEF GateOpens, BargedIn, BargeIn, SilenceInv
    <3> QED BY <3>1, <3>2 DEF SilenceInv, StoppedIsSilent, Active, Playing
  <2>4. ASSUME NEW loud \in BOOLEAN, CallerFrame(loud) PROVE SilenceInv'
    <3>1. CASE \E wanted : EndUtterance(wanted) /\ ~laneClosed
      <4>1. CASE UNCHANGED <<voice, dying, more, cut>>
        BY <2>1, <3>1, <4>1 DEF EndUtterance
      <4>2. CASE ~Active("old") /\ BeginTurn
                 /\ cut' = Superseded(cut) \cup (IF Active("turn") THEN {"old"} ELSE {})
        <5>1. UNCHANGED <<muted, laneClosed, overrun>> /\ ~laneClosed
          BY <3>1 DEF EndUtterance
        <5>2. /\ voice' \in [Voices -> Stages] /\ voice'["turn"] = "hearing"
              /\ voice'["old"] = voice["turn"] /\ voice'["line"] = voice["line"]
          BY <4>2 DEF BeginTurn, SilenceInv, Voices, Stages
        <5>3. "turn" \notin dying /\ "old" \notin cut \cup dying
          BY <4>2, <5>1 DEF SilenceInv
        <5>4. /\ cut' = (cut \ {"turn"}) \cup (IF Active("turn") THEN {"old"} ELSE {})
              /\ dying' = dying \cup (IF Active("turn") THEN {"old"} ELSE {})
          BY <4>2, <5>3 DEF BeginTurn, Superseded, SilenceInv
        <5>5. \A s, t \in Playing' : s = t
          BY <4>2, <5>2 DEF SilenceInv, Playing, Voices, Active
        <5>6. \A s \in cut' \cup dying' : Active(s)'
          BY <5>2, <5>3, <5>4 DEF SilenceInv, Active, Voices
        <5>7. \A s \in cut' : s \in dying' \/ (voice'[s] = "playing" /\ muted')
          BY <5>1, <5>2, <5>3, <5>4 DEF SilenceInv, Voices
        <5> QED BY <5>1, <5>2, <5>3, <5>4, <5>5, <5>6, <5>7
                DEF SilenceInv, StoppedIsSilent, Voices
      <4> QED BY <3>1, <4>1, <4>2 DEF EndUtterance
    <3>2. CASE UNCHANGED <<ring, sayVars, laneClosed, heardVars>>
      BY <2>1, <3>2 DEF sayVars, heardVars
    <3> QED BY <2>4, <3>1, <3>2 DEF CallerFrame
  <2>5. CASE Say
    <3>1. "line" \in Voices /\ voice["line"] # "playing" /\ "line" \notin dying
      BY <2>5 DEF Say, Active, Voices, SilenceInv
    <3>2. Goes("line", "voicing") /\ UNCHANGED <<dying, muted, laneClosed, cut, overrun>>
      BY <2>5 DEF Say, heardVars
    <3> QED BY <3>1, <3>2, QuietStepKeeps DEF Stages
  <2>6. CASE CloseLane
    <3>1. /\ UNCHANGED <<voice, overrun>> /\ muted' = TRUE /\ laneClosed' = TRUE
          /\ dying' = IF Active("turn") THEN dying \cup {"turn"} ELSE dying
          /\ cut' = cut \cup Playing \cup {s \in {"turn"} : Active(s)}
      BY <2>6 DEF CloseLane
    <3> QED BY <3>1 DEF SilenceInv, StoppedIsSilent, Active, Playing, Voices
  <2>7. ASSUME NEW s \in Voices, Transcribed(s) \/ PieceWritten(s) \/ Trouble(s)
        PROVE  SilenceInv'
    BY <2>7, QuietStepKeeps
       DEF Transcribed, PieceWritten, Trouble, Runs, OnlyVoice, heardVars, Stages
  <2>8. ASSUME NEW s \in Voices, TurnEnds(s) \/ CannotSpeak(s) PROVE SilenceInv'
    BY <2>8, QuietStepKeeps DEF TurnEnds, CannotSpeak, Forgotten, Runs, Stages
  <2>9. ASSUME NEW s \in Voices, BufferStarts(s) PROVE SilenceInv'
    <3>1. /\ voice[s] = "voicing" /\ s \notin dying /\ Playing = {}
          /\ muted' = FALSE /\ UNCHANGED <<dying, laneClosed, cut, overrun>>
      BY <2>9 DEF BufferStarts, Runs, OnlyVoice, heardVars
    <3>2. /\ voice' \in [Voices -> Stages] /\ voice'[s] = "playing"
          /\ \A t \in Voices : t # s => voice'[t] = voice[t]
      BY <2>9 DEF BufferStarts, Goes, SilenceInv, Stages
    <3>3. s \notin cut /\ \A t \in cut : t \in dying
      BY <3>1 DEF SilenceInv, Playing
    <3>4. Playing' = {s}
      BY <3>1, <3>2 DEF Playing
    <3> QED BY <3>1, <3>2, <3>3, <3>4 DEF SilenceInv, StoppedIsSilent, Active
  <2>10. ASSUME NEW s \in Voices, WireFrameSent(s) PROVE SilenceInv'
    <3>1. s \notin cut
      BY <2>10 DEF WireFrameSent, Runs, SilenceInv
    <3>2. UNCHANGED <<voice, dying, muted, laneClosed, cut>> /\ (overrun' <=> overrun)
      BY <2>10, <3>1 DEF WireFrameSent, sayVars
    <3> QED BY <3>2 DEF SilenceInv, StoppedIsSilent, Active, Playing
  <2>11. ASSUME NEW s \in Voices, NextChunk(s) PROVE SilenceInv'
    <3>1. /\ s \notin cut /\ s \notin dying
          /\ UNCHANGED <<dying, muted, laneClosed, cut, overrun>>
      BY <2>11 DEF NextChunk, Runs, Interrupted, OnlyVoice, heardVars, SilenceInv
    <3>2. /\ voice' \in [Voices -> Stages] /\ voice'[s] = "voicing"
          /\ \A t \in Voices : t # s => voice'[t] = voice[t]
      BY <2>11 DEF NextChunk, Goes, SilenceInv, Stages
    <3> QED BY <3>1, <3>2 DEF SilenceInv, StoppedIsSilent, Active, Playing
  <2>12. ASSUME NEW s \in Voices, BufferEnds(s) \/ Unwinds(s) PROVE SilenceInv'
    <3>1. PICK to \in {"idle", "answering"} : Goes(s, to)
      BY <2>12 DEF BufferEnds, Unwinds
    <3>2. /\ voice' \in [Voices -> Stages] /\ voice'[s] = to
          /\ \A t \in Voices : t # s => voice'[t] = voice[t]
      BY <3>1 DEF Goes, SilenceInv, Stages
    <3>3. /\ muted' \in BOOLEAN /\ UNCHANGED <<laneClosed, overrun>>
          /\ dying' = dying \ {s} /\ cut' = cut \ {s}
      BY <2>12 DEF BufferEnds, Unwinds, Runs, Forgotten, Interrupted, SilenceInv
    <3>4. \A t \in cut' : t \in dying' \/ (voice'[t] = "playing" /\ muted')
      <4> SUFFICES ASSUME NEW t \in cut, t # s, t \notin dying
                   PROVE  voice'[t] = "playing" /\ muted'
        BY <3>3
      <4>1. voice[t] = "playing" /\ muted /\ t \in Voices
        BY DEF SilenceInv
      <4>2. voice[s] # "playing"
        BY <4>1 DEF SilenceInv, Playing
      <4> QED BY <2>12, <3>2, <4>1, <4>2 DEF BufferEnds, Unwinds, Runs
    <3> QED BY <3>2, <3>3, <3>4 DEF SilenceInv, StoppedIsSilent, Active, Playing
  <2>13. CASE UNCHANGED voiceVars
    BY <2>1, <2>13 DEF voiceVars, sayVars, heardVars
  <2> QED BY <2>2, <2>3, <2>4, <2>5, <2>6, <2>7, <2>8, <2>9, <2>10, <2>11, <2>12, <2>13
          DEF VoiceNext
<1>3. SilenceInv => StoppedIsSilent
  BY DEF SilenceInv
<1> QED BY <1>1, <1>2, <1>3, PTL DEF VoiceSpec

(***************************************************************************)
(* The realtime session.                                                   *)
(***************************************************************************)
Asking == {"create", "cancel"}
Events == {"created", "done", "calls", "audio", "error"}

\* An ask or an event under way answers for the latch; the news that a response
\* began is followed by its end, or the response still runs.
BackedInv ==
    /\ toProvider \in Seq(Asking) /\ toPlugin \in Seq(Events)
    /\ \A i \in DOMAIN toPlugin : toPlugin[i] = "created" =>
          speakingNow \/ \E k \in DOMAIN toPlugin : k > i /\ toPlugin[k] \in {"done", "calls"}
    /\ LatchIsBacked

\* What a queue holds after an element joins it or leaves it.
LEMMA QueueJoins ==
    ASSUME NEW T, NEW q \in Seq(T), NEW e \in T
    PROVE  /\ Append(q, e) \in Seq(T)
           /\ DOMAIN Append(q, e) = DOMAIN q \cup {Len(q) + 1}
           /\ \A i \in DOMAIN q : Append(q, e)[i] = q[i] /\ i < Len(q) + 1
           /\ Append(q, e)[Len(q) + 1] = e
OBVIOUS

\* What leaves a queue is its head, and nothing else is lost.
LEMMA QueueLeaves ==
    ASSUME NEW T, NEW q \in Seq(T), q # <<>>
    PROVE  /\ Tail(q) \in Seq(T) /\ Head(q) = q[1] /\ 1 \in DOMAIN q
           /\ \A i \in DOMAIN Tail(q) : i + 1 \in DOMAIN q /\ Tail(q)[i] = q[i + 1]
           /\ \A i \in DOMAIN q : i # 1 => i - 1 \in DOMAIN Tail(q) /\ Tail(q)[i - 1] = q[i]
OBVIOUS

\* The plugin asks, or takes an ask back.
LEMMA AskKeeps ==
    ASSUME BackedInv, UNCHANGED <<speakingNow, toPlugin>>,
           \/ CreateResponse
           \/ CancelResponse
           \/ /\ toProvider' = toProvider \o (IF latch THEN <<"cancel">> ELSE <<>>) \o <<"create">>
              /\ latch' = TRUE
           \/ UNCHANGED <<toProvider, latch>>
    PROVE  BackedInv'
<1>1. CASE UNCHANGED <<toProvider, latch>>
  BY <1>1 DEF BackedInv, LatchIsBacked
<1>2. CASE CancelResponse
  BY <1>2, QueueJoins DEF CancelResponse, BackedInv, LatchIsBacked, Asking
<1>3. CASE CreateResponse
  <2>1. CASE latch
    BY <1>3, <2>1 DEF CreateResponse, BackedInv, LatchIsBacked
  <2>2. CASE ~latch
    <3>1. toProvider' = Append(toProvider, "create")
      BY <1>3, <2>2 DEF CreateResponse
    <3>2. toProvider' \in Seq(Asking) /\ \E i \in DOMAIN toProvider' : toProvider'[i] = "create"
      BY <3>1, QueueJoins DEF BackedInv, Asking
    <3> QED BY <3>2 DEF BackedInv, LatchIsBacked
  <2> QED BY <2>1, <2>2
<1>4. CASE toProvider' = toProvider \o (IF latch THEN <<"cancel">> ELSE <<>>) \o <<"create">>
  <2>1. PICK front \in Seq(Asking) : toProvider' = Append(front, "create")
    <3>1. CASE latch
      <4>1. Append(toProvider, "cancel") = toProvider \o <<"cancel">>
        BY AppendIsConcat DEF BackedInv, Asking
      <4>2. \A q \in Seq(Asking) : Append(q, "create") = q \o <<"create">>
        BY AppendIsConcat DEF Asking
      <4>3. Append(toProvider, "cancel") \in Seq(Asking)
        BY AppendProperties DEF BackedInv, Asking
      <4> QED BY <1>4, <3>1, <4>1, <4>2, <4>3
    <3>2. CASE ~latch
      <4>1. Append(toProvider, "create") = toProvider \o <<"create">>
        BY AppendIsConcat DEF BackedInv, Asking
      <4>2. toProvider \o <<>> = toProvider
        BY ConcatEmptySeq DEF BackedInv
      <4> QED BY <1>4, <3>2, <4>1, <4>2 DEF BackedInv
    <3> QED BY <3>1, <3>2
  <2>2. toProvider' \in Seq(Asking) /\ \E i \in DOMAIN toProvider' : toProvider'[i] = "create"
    BY <2>1, QueueJoins DEF Asking
  <2> QED BY <2>2 DEF BackedInv, LatchIsBacked
<1> QED BY <1>1, <1>2, <1>3, <1>4

\* The provider tells the plugin something, having read an ask or not.
LEMMA ProviderKeeps ==
    ASSUME BackedInv, NEW e \in Events, Sends(e), UNCHANGED latch,
           \/ UNCHANGED toProvider
           \/ toProvider # <<>> /\ toProvider' = Tail(toProvider) /\ e # "audio",
           speakingNow => speakingNow' \/ e \in {"done", "calls"},
           e = "created" => speakingNow'
    PROVE  BackedInv'
<1>1. /\ toPlugin' \in Seq(Events)
      /\ DOMAIN toPlugin' = DOMAIN toPlugin \cup {Len(toPlugin) + 1}
      /\ \A i \in DOMAIN toPlugin : toPlugin'[i] = toPlugin[i] /\ i < Len(toPlugin) + 1
      /\ toPlugin'[Len(toPlugin) + 1] = e
  BY QueueJoins DEF Sends, BackedInv
<1>2. toProvider' \in Seq(Asking)
  BY QueueLeaves DEF BackedInv
<1>3. \A i \in DOMAIN toPlugin' : toPlugin'[i] = "created" =>
          speakingNow' \/ \E k \in DOMAIN toPlugin' : k > i /\ toPlugin'[k] \in {"done", "calls"}
  <2> SUFFICES ASSUME NEW i \in DOMAIN toPlugin', toPlugin'[i] = "created", ~speakingNow'
               PROVE  \E k \in DOMAIN toPlugin' : k > i /\ toPlugin'[k] \in {"done", "calls"}
    OBVIOUS
  <2>1. i \in DOMAIN toPlugin /\ toPlugin[i] = "created" /\ i < Len(toPlugin) + 1
    BY <1>1
  <2>2. CASE speakingNow
    BY <1>1, <2>1, <2>2
  <2>3. CASE ~speakingNow
    BY <1>1, <2>1, <2>3 DEF BackedInv
  <2> QED BY <2>2, <2>3
<1>4. LatchIsBacked'
  <2> SUFFICES ASSUME latch, ~speakingNow', e = "audio"
               PROVE  LatchIsBacked'
    BY <1>1 DEF LatchIsBacked
  <2>1. ~speakingNow /\ UNCHANGED toProvider
    OBVIOUS
  <2> QED BY <1>1, <2>1 DEF BackedInv, LatchIsBacked
<1> QED BY <1>1, <1>2, <1>3, <1>4 DEF BackedInv

\* The plugin reads an event: what clears the latch, or what leaves another behind.
LEMMA EventKeeps ==
    ASSUME BackedInv, toPlugin # <<>>, toPlugin' = Tail(toPlugin),
           UNCHANGED <<toProvider, speakingNow>>,
           \/ latch' = FALSE
           \/ Head(toPlugin) = "created" /\ latch' = TRUE
           \/ Head(toPlugin) = "audio" /\ UNCHANGED latch
    PROVE  BackedInv'
<1>1. /\ toPlugin' \in Seq(Events) /\ Head(toPlugin) = toPlugin[1] /\ 1 \in DOMAIN toPlugin
      /\ \A i \in DOMAIN toPlugin' : i + 1 \in DOMAIN toPlugin /\ toPlugin'[i] = toPlugin[i + 1]
      /\ \A i \in DOMAIN toPlugin : i # 1 =>
            i - 1 \in DOMAIN toPlugin' /\ toPlugin'[i - 1] = toPlugin[i]
  BY QueueLeaves DEF BackedInv
<1>2. /\ \A i \in DOMAIN toPlugin : i \in Nat /\ i >= 1
      /\ \A i \in DOMAIN toPlugin' : i \in Nat /\ i >= 1
  BY <1>1 DEF BackedInv
<1>3. \A i \in DOMAIN toPlugin' : toPlugin'[i] = "created" =>
          speakingNow \/ \E k \in DOMAIN toPlugin' : k > i /\ toPlugin'[k] \in {"done", "calls"}
  <2> SUFFICES ASSUME NEW i \in DOMAIN toPlugin', toPlugin'[i] = "created", ~speakingNow
               PROVE  \E k \in DOMAIN toPlugin' : k > i /\ toPlugin'[k] \in {"done", "calls"}
    OBVIOUS
  <2>1. PICK k \in DOMAIN toPlugin : k > i + 1 /\ toPlugin[k] \in {"done", "calls"}
    BY <1>1 DEF BackedInv
  <2>2. k - 1 \in DOMAIN toPlugin' /\ k - 1 > i /\ toPlugin'[k - 1] = toPlugin[k]
    BY <1>1, <1>2, <2>1
  <2> QED BY <2>1, <2>2
<1>4. LatchIsBacked'
  <2>1. CASE Head(toPlugin) = "created"
    <3>1. speakingNow \/ \E k \in DOMAIN toPlugin : k > 1 /\ toPlugin[k] \in {"done", "calls"}
      BY <1>1, <2>1 DEF BackedInv
    <3> QED BY <1>1, <1>2, <3>1 DEF LatchIsBacked
  <2>2. CASE Head(toPlugin) = "audio" /\ UNCHANGED latch
    <3>1. \A i \in DOMAIN toPlugin : toPlugin[i] # "audio" =>
              \E k \in DOMAIN toPlugin' : toPlugin'[k] # "audio"
      BY <1>1, <1>2, <2>2
    <3> QED BY <2>2, <3>1 DEF BackedInv, LatchIsBacked
  <2> QED BY <2>1, <2>2 DEF LatchIsBacked
<1> QED BY <1>1, <1>3, <1>4 DEF BackedInv

\* The assistant is not muted for good by a race of asks and events, for any
\* number of them under way in either direction (RealtimeSession): a latch that is
\* set has something to clear it.
THEOREM LatchStaysBacked == TurnsSpec => []LatchIsBacked
<1>1. TurnsInit => BackedInv
  BY DEF TurnsInit, BackedInv, LatchIsBacked
<1>2. BackedInv /\ [TurnsNext]_turnVars => BackedInv'
  <2> SUFFICES ASSUME BackedInv, [TurnsNext]_turnVars PROVE BackedInv'
    OBVIOUS
  <2>1. CASE SendUserText \/ InterruptAndSay \/ BargesIn \/ TurnRefused
    BY <2>1, AskKeeps DEF SendUserText, InterruptAndSay, BargesIn, TurnRefused
  <2>2. CASE TurnAnswered \/ BatchReturns
    BY <2>2, AskKeeps DEF TurnAnswered, BatchReturns
  <2>3. CASE TakesAsk \/ RejectsAsk
    BY <2>3, ProviderKeeps DEF TakesAsk, RejectsAsk, Reads, Provider, Events
  <2>4. CASE TakesCancel
    BY <2>4, ProviderKeeps DEF TakesCancel, Reads, Provider, Events
  <2>5. CASE AnswersByItself \/ Speaks \/ Finishes
    BY <2>5, ProviderKeeps DEF AnswersByItself, Speaks, Finishes, Provider, Events
  <2>6. CASE HearsCreated \/ ReadsAudio \/ HearsDone \/ HearsError
    BY <2>6, EventKeeps DEF HearsCreated, ReadsAudio, HearsDone, HearsError, ErrorClears, Hears
  <2>7. CASE UNCHANGED turnVars
    BY <2>7 DEF turnVars, BackedInv, LatchIsBacked
  <2> QED BY <2>1, <2>2, <2>3, <2>4, <2>5, <2>6, <2>7 DEF TurnsNext
<1>3. BackedInv => LatchIsBacked
  BY DEF BackedInv
<1> QED BY <1>1, <1>2, <1>3, PTL DEF TurnsSpec

(***************************************************************************)
(* The group gate.                                                         *)
(***************************************************************************)
HeardTurns == [kind : TurnKinds, at : Nat, gated : BOOLEAN, answered : BOOLEAN]

\* Whoever has the floor was named for it, and nobody has asked for silence since.
FloorInv ==
    /\ gateClock \in Nat /\ lastAddressed \in Nat \cup {Never}
    /\ heard \in Seq(HeardTurns)
    /\ lastAddressed # Never =>
         \E j \in DOMAIN heard :
            /\ heard[j].kind = "named" /\ heard[j].gated /\ heard[j].at = lastAddressed
            /\ \A k \in j..Len(heard) : heard[k].kind # "quiet"
    /\ QuietMeansQuiet

\* A turn is judged: the rest of the meeting is as it was.
LEMMA HeardKeeps ==
    ASSUME FloorInv, NEW kind \in TurnKinds, NEW answered \in BOOLEAN,
           TurnHeard(kind, answered),
           GateActive \in BOOLEAN,
           kind = "quiet" => lastAddressed' = Never /\ ~answered,
           kind # "quiet" => lastAddressed' \in {lastAddressed, gateClock},
           kind # "quiet" /\ lastAddressed' # lastAddressed => kind = "named" /\ GateActive,
           GateActive /\ answered => kind = "named" \/ InWindow
    PROVE  FloorInv'
<1> DEFINE n == Len(heard) + 1
          e == [kind |-> kind, at |-> gateClock, gated |-> GateActive, answered |-> answered]
<1>1. /\ heard' \in Seq(HeardTurns) /\ Len(heard') = n /\ gateClock' = gateClock
      /\ DOMAIN heard' = 1..n /\ DOMAIN heard = 1..Len(heard) /\ Len(heard) \in Nat
      /\ heard'[n] = e /\ \A i \in 1..Len(heard) : heard'[i] = heard[i]
  <2>1. e \in HeardTurns
    BY DEF FloorInv, HeardTurns
  <2> QED BY <2>1, AppendProperties DEF TurnHeard, FloorInv
<1>2. gateClock \in Nat /\ lastAddressed' \in Nat \cup {Never}
  BY DEF FloorInv
<1> DEFINE Floor(j, i, at) ==
              /\ heard'[j].kind = "named" /\ heard'[j].gated /\ heard'[j].at = at
              /\ \A k \in j..i : heard'[k].kind # "quiet"
<1>3. kind # "quiet" /\ lastAddressed # Never =>
        \E j \in 1..Len(heard) : Floor(j, n, lastAddressed)
  <2> SUFFICES ASSUME kind # "quiet", lastAddressed # Never
               PROVE  \E j \in 1..Len(heard) : Floor(j, n, lastAddressed)
    OBVIOUS
  <2>1. PICK j \in 1..Len(heard) :
            /\ heard[j].kind = "named" /\ heard[j].gated /\ heard[j].at = lastAddressed
            /\ \A k \in j..Len(heard) : heard[k].kind # "quiet"
    BY <1>1 DEF FloorInv
  <2>2. \A k \in j..n : heard'[k].kind # "quiet"
    BY <1>1, <2>1
  <2> QED BY <1>1, <2>1, <2>2
<1>4. GateActive /\ kind = "named" => Floor(n, n, gateClock)
  BY <1>1
<1>5. lastAddressed' # Never => \E j \in 1..n : Floor(j, n, lastAddressed')
  <2>1. CASE kind = "quiet"
    BY <2>1
  <2>2. CASE kind # "quiet" /\ lastAddressed' = lastAddressed
    BY <1>1, <1>3, <2>2
  <2>3. CASE kind # "quiet" /\ lastAddressed' # lastAddressed
    BY <1>1, <1>4, <2>3
  <2> QED BY <2>1, <2>2, <2>3
<1>6. GateActive /\ answered =>
        \E j \in 1..n : \E at \in Nat : gateClock - at <= FollowUp /\ Floor(j, n, at)
  <2> SUFFICES ASSUME GateActive, answered
               PROVE  \E j \in 1..n : \E at \in Nat : gateClock - at <= FollowUp /\ Floor(j, n, at)
    OBVIOUS
  <2>1. CASE kind = "named"
    BY <1>1, <1>2, <1>4, <2>1, GateAssumption DEF GateAssumption
  <2>2. CASE kind # "named"
    <3>1. InWindow /\ kind # "quiet"
      BY <2>2
    <3>2. lastAddressed # Never /\ lastAddressed \in Nat /\ gateClock - lastAddressed <= FollowUp
      BY <1>2, <3>1, GateAssumption DEF InWindow, Never, GateAssumption, FloorInv
    <3> QED BY <1>1, <1>3, <3>1, <3>2
  <2> QED BY <2>1, <2>2
<1>7. QuietMeansQuiet'
  <2> SUFFICES ASSUME NEW i \in 1..n, heard'[i].gated, heard'[i].answered
               PROVE  \E j \in 1..i :
                        /\ heard'[j].kind = "named" /\ heard'[j].gated
                        /\ heard'[i].at - heard'[j].at <= FollowUp
                        /\ \A k \in j..i : heard'[k].kind # "quiet"
    BY <1>1 DEF QuietMeansQuiet
  <2>1. CASE i = n
    BY <1>1, <1>6, <2>1
  <2>2. CASE i \in 1..Len(heard)
    <3>1. PICK j \in 1..i :
            /\ heard[j].kind = "named" /\ heard[j].gated
            /\ heard[i].at - heard[j].at <= FollowUp
            /\ \A k \in j..i : heard[k].kind # "quiet"
      BY <1>1, <2>2 DEF FloorInv, QuietMeansQuiet
    <3>2. \A k \in j..i : heard'[k] = heard[k]
      BY <1>1, <2>2
    <3> QED BY <1>1, <2>2, <3>1, <3>2
  <2> QED BY <1>1, <2>1, <2>2
<1> QED BY <1>1, <1>2, <1>5, <1>7 DEF FloorInv, Never

\* In a meeting the assistant speaks to who has the floor and to nobody else, for
\* any window and any number of turns (GroupGate.decide, GroupGate.dismiss).
THEOREM QuietStaysQuiet == GateSpec => []QuietMeansQuiet
<1> DEFINE Switches == meetingThread \in BOOLEAN /\ wakePhrases \in BOOLEAN
<1>1. GateInit => FloorInv /\ Switches
  BY DEF GateInit, FloorInv, QuietMeansQuiet
<1>2. FloorInv /\ Switches /\ [GateNext]_gateVars => FloorInv' /\ Switches'
  <2> SUFFICES ASSUME FloorInv, Switches, [GateNext]_gateVars PROVE FloorInv' /\ Switches'
    OBVIOUS
  <2>1. ASSUME UNCHANGED <<meetingThread, wakePhrases, lastAddressed, heard>>,
               gateClock' \in {gateClock, gateClock + 1}
        PROVE  FloorInv' /\ Switches'
    BY <2>1 DEF FloorInv, QuietMeansQuiet, Never
  <2>2. ASSUME NEW m \in 1..2, NoteParticipants(m) PROVE FloorInv' /\ Switches'
    BY <2>1, <2>2 DEF NoteParticipants
  <2>3. CASE AutoSynced \/ GateTick
    BY <2>1, <2>3 DEF AutoSynced, GateTick
  <2>4. GateActive \in BOOLEAN
    BY DEF GateActive, IsGroup
  <2>5. ASSUME NEW kind \in TurnKinds, TurnInterrupts(kind) PROVE FloorInv' /\ Switches'
    <3>1. TurnHeard(kind, FALSE) /\ Switches'
      BY <2>5 DEF TurnInterrupts, TurnHeard
    <3> QED BY <2>4, <2>5, <3>1, HeardKeeps DEF TurnInterrupts, CloseWindow
  <2>6. ASSUME NEW kind \in TurnKinds, Decide(kind) PROVE FloorInv' /\ Switches'
    <3>1. /\ TurnHeard(kind, GateActive => kind = "named" \/ InWindow) /\ Switches'
          /\ kind # "quiet"
      BY <2>6 DEF Decide, TurnHeard, Interrupts
    <3> QED BY <2>4, <2>6, <3>1, HeardKeeps DEF Decide
  <2>7. CASE UNCHANGED gateVars
    BY <2>1, <2>7 DEF gateVars
  <2> QED BY <2>2, <2>3, <2>5, <2>6, <2>7 DEF GateNext
<1>3. FloorInv => QuietMeansQuiet
  BY DEF FloorInv
<1> QED BY <1>1, <1>2, <1>3, PTL DEF GateSpec

(***************************************************************************)
(* The startup buffer.                                                     *)
(***************************************************************************)
Handed == [lane : {"audio", "context"}, number : Nat, held : BOOLEAN]

Rising(lane) == \A i, j \in DOMAIN lane : i < j => lane[i] < lane[j]

\* The numbers of the frames that the agent was sent.
SentFrames == {i \in DOMAIN toAgent : toAgent[i].lane = "audio"}
HeardFrames == {toAgent[i].number : i \in SentFrames}

BufferTypes ==
    /\ spoken \in Nat /\ noted \in Nat /\ lost \subseteq 1..spoken
    /\ audioLane \in Seq(Nat) /\ noteLane \in Seq(Nat)
    /\ toAgent \in Seq(Handed)
    /\ holding \in BOOLEAN /\ releasing \in {"no", "audio", "context", "over"}

\* While it holds, the agent has nothing.
BufferStages ==
    /\ holding => toAgent = <<>> /\ releasing = "no"
    /\ ~holding => releasing # "no"

\* What is in a lane has arrived, and stands in its order.
LanesAreInOrder ==
    /\ Rising(audioLane) /\ Frames(audioLane) \subseteq 1..spoken
    /\ Rising(noteLane) /\ Frames(noteLane) \subseteq 1..noted

\* What comes out of a lane is older than what is left in it; notes come out only
\* once the frames are through, or have been left where they are.
HandedInTurn ==
    /\ \A i \in DOMAIN toAgent :
          toAgent[i].number \in 1..(IF toAgent[i].lane = "audio" THEN spoken ELSE noted)
    /\ \A i \in DOMAIN toAgent : toAgent[i].held =>
          IF toAgent[i].lane = "audio" THEN \A n \in Frames(audioLane) : toAgent[i].number < n
                                       ELSE \A n \in Frames(noteLane) : toAgent[i].number < n
    /\ \A i \in DOMAIN toAgent : toAgent[i].held /\ releasing = "audio" =>
          toAgent[i].lane = "audio"
    /\ HeardFrames \cap Frames(audioLane) = {}

\* The parts of FirstWordsAreHeard.
NoneVanishes == HeardFrames \cup Frames(audioLane) \cup lost = 1..spoken
NoneTwice == \A i, j \in SentFrames : i # j => toAgent[i].number # toAgent[j].number
StalestLost == \A l \in lost, n \in HeardFrames \cup Frames(audioLane) : l < n
HeldInOrder ==
    \A i, j \in DOMAIN toAgent :
        i < j /\ toAgent[i].held /\ toAgent[j].held =>
          IF toAgent[i].lane = toAgent[j].lane
            THEN toAgent[i].number < toAgent[j].number
            ELSE toAgent[i].lane = "audio"

BufferInv ==
    /\ BufferTypes /\ BufferStages /\ LanesAreInOrder /\ HandedInTurn
    /\ NoneVanishes /\ NoneTwice /\ StalestLost /\ HeldInOrder

\* A send is awaited only in a release, and the one a release stops in is the last.
BrokenInv ==
    /\ awaited # 0 => releasing \in {"audio", "context"} /\ brokenOff = {}
    /\ awaited # 0 /\ releasing = "audio" => awaited \in HeardFrames
    /\ brokenOff \subseteq HeardFrames
    /\ brokenOff # {} => releasing = "over" /\ \A m, n \in brokenOff : m = n

\* The promise has four parts, of which each step disturbs only a few.
LEMMA WordsInParts ==
    ASSUME BrokenInv, NoneVanishes, NoneTwice, StalestLost, HeldInOrder
    PROVE  FirstWordsAreHeard
<1> DEFINE sent == {i \in DOMAIN toAgent : toAgent[i].lane = "audio"}
           reachedAgent == {toAgent[i].number : i \in sent} \ brokenOff
<1>1. sent = SentFrames /\ {toAgent[i].number : i \in sent} = HeardFrames
  BY DEF SentFrames, HeardFrames
<1>2. reachedAgent \cup brokenOff = HeardFrames /\ reachedAgent \subseteq HeardFrames
  BY <1>1 DEF BrokenInv
<1> HIDE DEF reachedAgent
<1>3. reachedAgent \cup brokenOff \cup Frames(audioLane) \cup lost = 1..spoken
  BY <1>2 DEF NoneVanishes
<1>4. \A i, j \in sent : i # j => toAgent[i].number # toAgent[j].number
  BY <1>1 DEF NoneTwice
<1>5. \A l \in lost, n \in reachedAgent \cup Frames(audioLane) : l < n
  BY <1>2 DEF StalestLost
<1> QED BY <1>3, <1>4, <1>5 DEF reachedAgent, BrokenInv, HeldInOrder, FirstWordsAreHeard

\* A lane that takes one in keeps the newest, in their order.
LEMMA LaneGrows ==
    ASSUME NEW lane \in Seq(Nat), Rising(lane), NEW n \in Nat, \A k \in Frames(lane) : k < n
    PROVE  /\ Append(lane, n) \in Seq(Nat) /\ Rising(Append(lane, n))
           /\ Frames(Append(lane, n)) = Frames(lane) \cup {n}
<1> DEFINE out == Append(lane, n)
<1>1. /\ out \in Seq(Nat) /\ DOMAIN out = DOMAIN lane \cup {Len(lane) + 1}
      /\ \A i \in DOMAIN lane : out[i] = lane[i] /\ i < Len(lane) + 1
      /\ out[Len(lane) + 1] = n
  BY QueueJoins
<1>2. \A i \in DOMAIN lane : i \in Nat /\ lane[i] \in Frames(lane)
  BY DEF Frames
<1> HIDE DEF out
<1>3. Frames(out) = Frames(lane) \cup {n}
  BY <1>1 DEF Frames
<1>4. Rising(out)
  <2> SUFFICES ASSUME NEW i \in DOMAIN out, NEW j \in DOMAIN out, i < j PROVE out[i] < out[j]
    BY DEF Rising
  <2>1. i \in DOMAIN lane
    BY <1>1, <1>2
  <2>2. CASE j \in DOMAIN lane
    BY <1>1, <2>1, <2>2 DEF Rising
  <2>3. CASE j = Len(lane) + 1
    BY <1>1, <1>2, <2>1, <2>3
  <2> QED BY <1>1, <2>2, <2>3
<1> QED BY <1>1, <1>3, <1>4 DEF out

\* What a lane hands over is its oldest.
LEMMA LaneGivesOldest ==
    ASSUME NEW lane \in Seq(Nat), Rising(lane), lane # <<>>
    PROVE  /\ Tail(lane) \in Seq(Nat) /\ Rising(Tail(lane)) /\ Head(lane) \in Nat
           /\ Frames(lane) = Frames(Tail(lane)) \cup {Head(lane)}
           /\ \A n \in Frames(Tail(lane)) : Head(lane) < n
<1>1. /\ Tail(lane) \in Seq(Nat) /\ Head(lane) = lane[1] /\ 1 \in DOMAIN lane
      /\ \A i \in DOMAIN Tail(lane) : i + 1 \in DOMAIN lane /\ Tail(lane)[i] = lane[i + 1]
      /\ \A i \in DOMAIN lane : i # 1 => i - 1 \in DOMAIN Tail(lane) /\ Tail(lane)[i - 1] = lane[i]
  BY QueueLeaves
<1>2. \A i \in DOMAIN Tail(lane) : i \in Nat /\ i > 0
  BY <1>1
<1>3. Rising(Tail(lane)) /\ Head(lane) \in Nat
  <2>1. \A i, j \in DOMAIN Tail(lane) : i < j => i + 1 < j + 1
    BY <1>2
  <2> QED BY <1>1, <2>1 DEF Rising
<1>4. Frames(lane) = Frames(Tail(lane)) \cup {Head(lane)}
  <2>1. Frames(Tail(lane)) \cup {Head(lane)} \subseteq Frames(lane)
    BY <1>1 DEF Frames
  <2>2. \A i \in DOMAIN lane : lane[i] \in Frames(Tail(lane)) \cup {Head(lane)}
    <3> SUFFICES ASSUME NEW i \in DOMAIN lane, i # 1 PROVE lane[i] \in Frames(Tail(lane))
      BY <1>1
    <3>1. i - 1 \in DOMAIN Tail(lane) /\ Tail(lane)[i - 1] = lane[i]
      BY <1>1
    <3> QED BY <3>1 DEF Frames
  <2>3. Frames(lane) \subseteq Frames(Tail(lane)) \cup {Head(lane)}
    BY <2>2 DEF Frames
  <2> QED BY <2>1, <2>3
<1>5. \A n \in Frames(Tail(lane)) : Head(lane) < n
  BY <1>1, <1>2 DEF Frames, Rising
<1> QED BY <1>1, <1>3, <1>4, <1>5

\* A lane at its bound drops its oldest frames.
LEMMA LaneKeepsNewest ==
    ASSUME NEW lane \in Seq(Nat), Rising(lane), NEW n \in Nat, \A k \in Frames(lane) : k < n,
           NEW bound \in Nat \ {0}
    PROVE  LET out == DropsOldest(lane, n, bound)
           IN  /\ out \in Seq(Nat) /\ Rising(out)
               /\ Frames(out) \subseteq Frames(lane) \cup {n}
               /\ \A l \in (Frames(lane) \cup {n}) \ Frames(out), k \in Frames(out) : l < k
<1>1. CASE Len(lane) = bound
  <2>1. lane # <<>> /\ DropsOldest(lane, n, bound) = Append(Tail(lane), n)
    BY <1>1 DEF DropsOldest
  <2>2. /\ Tail(lane) \in Seq(Nat) /\ Rising(Tail(lane)) /\ Head(lane) \in Nat
        /\ Frames(lane) = Frames(Tail(lane)) \cup {Head(lane)}
        /\ \A k \in Frames(Tail(lane)) : Head(lane) < k
    BY <2>1, LaneGivesOldest
  <2>3. /\ Append(Tail(lane), n) \in Seq(Nat) /\ Rising(Append(Tail(lane), n))
        /\ Frames(Append(Tail(lane), n)) = Frames(Tail(lane)) \cup {n}
    BY <2>2, LaneGrows
  <2> QED BY <2>1, <2>2, <2>3
<1>2. CASE Len(lane) # bound
  BY <1>2, LaneGrows DEF DropsOldest
<1> QED BY <1>1, <1>2

\* A frame or a line goes to the agent.
LEMMA HandsOver ==
    ASSUME toAgent \in Seq(Handed), NEW lane \in {"audio", "context"}, NEW n \in Nat,
           NEW wasHeld \in BOOLEAN, toAgent' = Hands(lane, n, wasHeld)
    PROVE  /\ toAgent' \in Seq(Handed)
           /\ \A i \in DOMAIN toAgent' :
                \/ i \in DOMAIN toAgent /\ toAgent'[i] = toAgent[i]
                \/ /\ i = Len(toAgent) + 1 /\ toAgent'[i].lane = lane
                   /\ toAgent'[i].number = n /\ toAgent'[i].held = wasHeld
           /\ \A i \in DOMAIN toAgent : i \in DOMAIN toAgent' /\ i \in Nat /\ i < Len(toAgent) + 1
           /\ Len(toAgent) + 1 \in Nat
           /\ SentFrames' = SentFrames \cup (IF lane = "audio" THEN {Len(toAgent) + 1} ELSE {})
           /\ HeardFrames' = HeardFrames \cup (IF lane = "audio" THEN {n} ELSE {})
<1>1. /\ toAgent' \in Seq(Handed) /\ Len(toAgent) + 1 \in Nat
      /\ DOMAIN toAgent' = DOMAIN toAgent \cup {Len(toAgent) + 1}
      /\ \A i \in DOMAIN toAgent : toAgent'[i] = toAgent[i] /\ i \in Nat /\ i < Len(toAgent) + 1
      /\ toAgent'[Len(toAgent) + 1] = [lane |-> lane, number |-> n, held |-> wasHeld]
  <2>1. [lane |-> lane, number |-> n, held |-> wasHeld] \in Handed
    BY DEF Handed
  <2> QED BY <2>1, QueueJoins DEF Hands
<1>2. SentFrames' = SentFrames \cup (IF lane = "audio" THEN {Len(toAgent) + 1} ELSE {})
  BY <1>1 DEF SentFrames
<1>3. HeardFrames' = HeardFrames \cup (IF lane = "audio" THEN {n} ELSE {})
  <2>1. \A i \in SentFrames : i \in DOMAIN toAgent
    BY DEF SentFrames
  <2>2. HeardFrames' \subseteq HeardFrames \cup (IF lane = "audio" THEN {n} ELSE {})
    BY <1>1, <1>2, <2>1 DEF HeardFrames
  <2>3. HeardFrames \cup (IF lane = "audio" THEN {n} ELSE {}) \subseteq HeardFrames'
    BY <1>1, <1>2, <2>1 DEF HeardFrames
  <2> QED BY <2>2, <2>3
<1> QED BY <1>1, <1>2, <1>3

\* A frame or a line that arrives while the buffer holds is held.
LEMMA HeldKeeps ==
    ASSUME BufferInv, holding, CallerSpeaks \/ ContextArrives
    PROVE  BufferInv'
<1>1. /\ toAgent = <<>> /\ toAgent' = <<>> /\ UNCHANGED <<holding, releasing>>
      /\ releasing = "no"
  BY DEF BufferInv, BufferStages, CallerSpeaks, ContextArrives
<1>2. SentFrames = {} /\ HeardFrames = {} /\ SentFrames' = {} /\ HeardFrames' = {}
  BY <1>1 DEF SentFrames, HeardFrames
<1>3. /\ spoken \in Nat /\ noted \in Nat /\ lost \subseteq 1..spoken
      /\ audioLane \in Seq(Nat) /\ noteLane \in Seq(Nat)
      /\ Rising(audioLane) /\ Rising(noteLane)
      /\ Frames(audioLane) \subseteq 1..spoken /\ Frames(noteLane) \subseteq 1..noted
  BY DEF BufferInv, BufferTypes, LanesAreInOrder
<1>4. BufferStages' /\ NoneTwice' /\ HeldInOrder' /\ HandedInTurn'
  BY <1>1, <1>2 DEF BufferStages, NoneTwice, HeldInOrder, HandedInTurn
<1>5. /\ toAgent' \in Seq(Handed) /\ holding' \in BOOLEAN
      /\ releasing' \in {"no", "audio", "context", "over"}
  BY <1>1 DEF BufferInv, BufferTypes
<1>6. CASE CallerSpeaks
  <2>1. PICK n \in Nat : n = spoken + 1
    BY <1>3
  <2>2. PICK out : out = DropsOldest(audioLane, n, MaxAudio)
    OBVIOUS
  <2>3. /\ spoken' = n /\ audioLane' = out /\ UNCHANGED <<noteLane, noted>>
        /\ lost' = lost \cup ((Frames(audioLane) \cup {n}) \ Frames(out))
    BY <1>6, <2>1, <2>2 DEF CallerSpeaks, Frames
  <2>4. \A k \in Frames(audioLane) \cup lost : k \in Nat /\ k < n
    <3>1. \A k \in 1..spoken : k \in Nat /\ k < n
      BY <1>3, <2>1
    <3> QED BY <1>3, <3>1
  <2>5. /\ out \in Seq(Nat) /\ Rising(out) /\ Frames(out) \subseteq Frames(audioLane) \cup {n}
        /\ \A l \in (Frames(audioLane) \cup {n}) \ Frames(out), k \in Frames(out) : l < k
    BY <1>3, <2>2, <2>4, LaneKeepsNewest, StartupAssumption DEF StartupAssumption
  <2>6. Frames(audioLane) \cup lost = 1..spoken /\ \A l \in lost, k \in Frames(audioLane) : l < k
    BY <1>2 DEF BufferInv, NoneVanishes, StalestLost
  <2>7. 1..n = 1..spoken \cup {n}
    BY <1>3, <2>1
  <2>8. Frames(out) \cup lost' = 1..n
    BY <2>3, <2>5, <2>6, <2>7
  <2>9. NoneVanishes' /\ StalestLost'
    <3>1. \A l \in lost', k \in Frames(out) : l < k
      BY <2>3, <2>4, <2>5, <2>6
    <3>2. Frames(audioLane)' = Frames(out)
      BY <2>3 DEF Frames
    <3> QED BY <1>2, <2>3, <2>8, <3>1, <3>2 DEF NoneVanishes, StalestLost
  <2>10. LanesAreInOrder'
    <3>1. Frames(out) \subseteq 1..n
      BY <2>8
    <3> QED BY <1>3, <2>3, <2>5, <3>1 DEF LanesAreInOrder, Rising, Frames
  <2>11. BufferTypes'
    BY <1>3, <1>5, <2>3, <2>5, <2>8 DEF BufferTypes
  <2> QED BY <1>4, <2>9, <2>10, <2>11 DEF BufferInv
<1>7. CASE ContextArrives
  <2>1. PICK n \in Nat : n = noted + 1
    BY <1>3
  <2>2. PICK out : out = DropsOldest(noteLane, n, MaxNotes)
    OBVIOUS
  <2>3. noted' = n /\ noteLane' = out /\ UNCHANGED <<audioLane, spoken, lost>>
    BY <1>7, <2>1, <2>2 DEF ContextArrives
  <2>4. \A k \in Frames(noteLane) : k < n
    BY <1>3, <2>1
  <2>5. out \in Seq(Nat) /\ Rising(out) /\ Frames(out) \subseteq Frames(noteLane) \cup {n}
    BY <1>3, <2>2, <2>4, LaneKeepsNewest, StartupAssumption DEF StartupAssumption
  <2>6. NoneVanishes' /\ StalestLost'
    <3>1. Frames(audioLane)' = Frames(audioLane) /\ HeardFrames' = HeardFrames
      BY <1>2, <2>3 DEF Frames
    <3> QED BY <2>3, <3>1 DEF BufferInv, NoneVanishes, StalestLost
  <2>7. Frames(out) \subseteq 1..n
    <3>1. 1..n = 1..noted \cup {n}
      BY <1>3, <2>1
    <3> QED BY <1>3, <2>5, <3>1
  <2>8. LanesAreInOrder'
    BY <1>3, <2>3, <2>5, <2>7 DEF LanesAreInOrder, Rising, Frames
  <2>9. BufferTypes'
    BY <1>3, <1>5, <2>3, <2>5 DEF BufferTypes
  <2> QED BY <1>4, <2>6, <2>8, <2>9 DEF BufferInv
<1> QED BY <1>6, <1>7

\* What goes to the agent is new to it, and newer than what was lost; what had been
\* held is newer than all that was held before it.
LEMMA SendKeepsWords ==
    ASSUME BufferInv, NEW lane \in {"audio", "context"}, NEW n \in Nat, NEW wasHeld \in BOOLEAN,
           toAgent' = Hands(lane, n, wasHeld),
           lane = "audio" => n \notin HeardFrames /\ \A l \in lost : l < n,
           lane = "audio" => HeardFrames' \cup Frames(audioLane)' = 1..spoken' \ lost,
           lane # "audio" => UNCHANGED <<spoken, Frames(audioLane)>>,
           Frames(audioLane)' \subseteq Frames(audioLane),
           wasHeld => \A i \in DOMAIN toAgent : toAgent[i].held =>
             IF toAgent[i].lane = lane THEN toAgent[i].number < n ELSE toAgent[i].lane = "audio",
           UNCHANGED lost, lost \subseteq 1..spoken'
    PROVE  NoneVanishes' /\ NoneTwice' /\ StalestLost' /\ HeldInOrder'
<1> DEFINE m == Len(toAgent) + 1
<1>0. toAgent \in Seq(Handed)
  BY DEF BufferInv, BufferTypes
<1>1. /\ \A i \in DOMAIN toAgent' :
            \/ i \in DOMAIN toAgent /\ toAgent'[i] = toAgent[i]
            \/ i = m /\ toAgent'[i].lane = lane /\ toAgent'[i].number = n /\ toAgent'[i].held = wasHeld
      /\ \A i \in DOMAIN toAgent : i \in DOMAIN toAgent' /\ i \in Nat /\ i < m
      /\ m \in Nat
      /\ SentFrames' = SentFrames \cup (IF lane = "audio" THEN {m} ELSE {})
      /\ HeardFrames' = HeardFrames \cup (IF lane = "audio" THEN {n} ELSE {})
  BY <1>0, HandsOver
<1> HIDE DEF m
<1>2. NoneVanishes'
  BY <1>1 DEF BufferInv, NoneVanishes
<1>3. NoneTwice'
  <2>1. \A i \in SentFrames : i \in DOMAIN toAgent /\ toAgent[i].number \in HeardFrames
    BY DEF SentFrames, HeardFrames
  <2>2. \A i \in SentFrames' : i \in DOMAIN toAgent'
    BY DEF SentFrames
  <2>3. \A i : i \in SentFrames' =>
          \/ i \in SentFrames /\ toAgent'[i].number = toAgent[i].number
          \/ i = m /\ lane = "audio" /\ toAgent'[i].number = n
    <3> TAKE i
    <3> HAVE i \in SentFrames'
    <3>1. CASE i \in SentFrames
      <4>1. i \in DOMAIN toAgent' /\ i # m
        BY <1>1, <2>1, <3>1
      <4> QED BY <1>1, <3>1, <4>1
    <3>2. CASE i = m /\ lane = "audio"
      <4>1. i \notin DOMAIN toAgent
        BY <1>1, <3>2
      <4> QED BY <1>1, <2>2, <3>2, <4>1
    <3> QED BY <1>1, <3>1, <3>2
  <2> QED BY <2>1, <2>3 DEF BufferInv, NoneTwice
<1>4. StalestLost'
  BY <1>1 DEF BufferInv, StalestLost
<1>5. HeldInOrder'
  <2> SUFFICES ASSUME NEW i \in DOMAIN toAgent', NEW j \in DOMAIN toAgent', i < j,
                      toAgent'[i].held, toAgent'[j].held
               PROVE  IF toAgent'[i].lane = toAgent'[j].lane
                        THEN toAgent'[i].number < toAgent'[j].number
                        ELSE toAgent'[i].lane = "audio"
    BY DEF HeldInOrder
  <2>1. i \in DOMAIN toAgent /\ toAgent'[i] = toAgent[i]
    BY <1>1
  <2>2. CASE j \in DOMAIN toAgent /\ toAgent'[j] = toAgent[j]
    BY <2>1, <2>2 DEF BufferInv, HeldInOrder
  <2>3. CASE toAgent'[j].lane = lane /\ toAgent'[j].number = n /\ toAgent'[j].held = wasHeld
    BY <2>1, <2>3
  <2> QED BY <1>1, <2>2, <2>3
<1> QED BY <1>2, <1>3, <1>4, <1>5

\* What arrives later goes straight to the agent, beside what is still handed over.
LEMMA StraightKeeps ==
    ASSUME BufferInv, ~holding, NEW lane \in {"audio", "context"}, NEW n \in Nat,
           n = (IF lane = "audio" THEN spoken ELSE noted) + 1,
           toAgent' = Hands(lane, n, FALSE),
           spoken' = IF lane = "audio" THEN n ELSE spoken,
           noted' = IF lane = "audio" THEN noted ELSE n,
           UNCHANGED <<holding, audioLane, noteLane, releasing, lost>>
    PROVE  BufferInv'
<1>1. /\ spoken \in Nat /\ noted \in Nat /\ toAgent \in Seq(Handed) /\ lost \subseteq 1..spoken
      /\ Frames(audioLane) \subseteq 1..spoken /\ Frames(noteLane) \subseteq 1..noted
      /\ HeardFrames \cup Frames(audioLane) \cup lost = 1..spoken
      /\ HeardFrames \cap Frames(audioLane) = {}
      /\ \A l \in lost, k \in HeardFrames \cup Frames(audioLane) : l < k
  BY DEF BufferInv, BufferTypes, LanesAreInOrder, HandedInTurn, NoneVanishes, StalestLost
<1>2. /\ toAgent' \in Seq(Handed)
      /\ \A i \in DOMAIN toAgent' :
            \/ i \in DOMAIN toAgent /\ toAgent'[i] = toAgent[i]
            \/ /\ i = Len(toAgent) + 1 /\ toAgent'[i].lane = lane
               /\ toAgent'[i].number = n /\ toAgent'[i].held = FALSE
      /\ HeardFrames' = HeardFrames \cup (IF lane = "audio" THEN {n} ELSE {})
  <2>1. toAgent \in Seq(Handed) /\ toAgent' = Hands(lane, n, FALSE)
    BY <1>1
  <2>2. FALSE \in BOOLEAN
    OBVIOUS
  <2> QED BY ZenonT(30), <2>1, <2>2, HandsOver
<1>3. Frames(audioLane)' = Frames(audioLane) /\ Frames(noteLane)' = Frames(noteLane)
  BY DEF Frames
<1>4. lane = "audio" => 1..spoken' = 1..spoken \cup {n} /\ n \notin 1..spoken
  BY <1>1
<1>5. 1..spoken \subseteq 1..spoken' /\ 1..noted \subseteq 1..noted'
  BY <1>1
<1>6. NoneVanishes' /\ NoneTwice' /\ StalestLost' /\ HeldInOrder'
  <2>1. lane = "audio" => n \notin HeardFrames /\ \A l \in lost : l < n
    BY <1>1
  <2>2. lane = "audio" => HeardFrames' \cup Frames(audioLane)' = 1..spoken' \ lost
    <3>1. \A l \in lost : l \notin HeardFrames \cup Frames(audioLane)
      <4>1. \A l \in lost : l \in Nat /\ ~(l < l)
        BY <1>1
      <4> QED BY <1>1, <4>1
    <3> QED BY <1>1, <1>2, <1>3, <1>4, <3>1
  <2>3. lane # "audio" => UNCHANGED <<spoken, Frames(audioLane)>>
    BY <1>3
  <2> QED BY <1>1, <1>3, <1>5, <2>1, <2>2, <2>3, SendKeepsWords
<1>7. BufferTypes'
  BY <1>1, <1>2, <1>5 DEF BufferInv, BufferTypes
<1>8. LanesAreInOrder'
  BY <1>1, <1>3, <1>5 DEF BufferInv, LanesAreInOrder, Rising
<1>9. HandedInTurn'
  <2>1. n \in 1..(IF lane = "audio" THEN spoken' ELSE noted')
    BY <1>1
  <2>2. \A i \in DOMAIN toAgent :
          toAgent[i].number \in 1..(IF toAgent[i].lane = "audio" THEN spoken' ELSE noted')
    BY <1>5 DEF BufferInv, HandedInTurn
  <2>3. HeardFrames' \cap Frames(audioLane)' = {}
    BY <1>1, <1>2, <1>3, <1>4
  <2>4. \A i \in DOMAIN toAgent' :
          toAgent'[i].number \in 1..(IF toAgent'[i].lane = "audio" THEN spoken' ELSE noted')
    <3> SUFFICES ASSUME NEW i \in DOMAIN toAgent'
                 PROVE  toAgent'[i].number \in
                          1..(IF toAgent'[i].lane = "audio" THEN spoken' ELSE noted')
      OBVIOUS
    <3>1. CASE i \in DOMAIN toAgent /\ toAgent'[i] = toAgent[i]
      BY <2>2, <3>1
    <3>2. CASE toAgent'[i].lane = lane /\ toAgent'[i].number = n
      BY <2>1, <3>2
    <3> QED BY <1>2, <3>1, <3>2
  <2>5. \A i \in DOMAIN toAgent' : toAgent'[i].held => i \in DOMAIN toAgent /\ toAgent'[i] = toAgent[i]
    BY <1>2
  <2>6. \A i \in DOMAIN toAgent : toAgent[i].held =>
          IF toAgent[i].lane = "audio" THEN \A k \in Frames(audioLane) : toAgent[i].number < k
                                       ELSE \A k \in Frames(noteLane) : toAgent[i].number < k
    BY DEF BufferInv, HandedInTurn
  <2>7. \A i \in DOMAIN toAgent : toAgent[i].held /\ releasing = "audio" => toAgent[i].lane = "audio"
    BY DEF BufferInv, HandedInTurn
  <2>8. \A i \in DOMAIN toAgent' : toAgent'[i].held =>
          IF toAgent'[i].lane = "audio" THEN \A k \in Frames(audioLane)' : toAgent'[i].number < k
                                        ELSE \A k \in Frames(noteLane)' : toAgent'[i].number < k
    <3> TAKE i \in DOMAIN toAgent'
    <3> HAVE toAgent'[i].held
    <3>1. i \in DOMAIN toAgent /\ toAgent'[i] = toAgent[i]
      BY <2>5
    <3> QED BY <1>3, <2>6, <3>1
  <2>9. \A i \in DOMAIN toAgent' :
          toAgent'[i].held /\ releasing' = "audio" => toAgent'[i].lane = "audio"
    BY ZenonT(30), <2>5, <2>7
  <2> QED BY <2>3, <2>4, <2>8, <2>9 DEF HandedInTurn
<1> QED BY <1>6, <1>7, <1>8, <1>9 DEF BufferInv, BufferStages

\* The next thing that was held is handed over, after all that came out before it.
LEMMA HandingKeeps ==
    ASSUME BufferInv, NEW lane \in {"audio", "context"}, releasing = lane,
           NEW from \in Seq(Nat), from # <<>>,
           from = IF lane = "audio" THEN audioLane ELSE noteLane,
           toAgent' = Hands(lane, Head(from), TRUE),
           audioLane' = IF lane = "audio" THEN Tail(from) ELSE audioLane,
           noteLane' = IF lane = "audio" THEN noteLane ELSE Tail(from),
           UNCHANGED <<holding, releasing, spoken, noted, lost>>
    PROVE  BufferInv'
<1>1. /\ spoken \in Nat /\ noted \in Nat /\ toAgent \in Seq(Handed) /\ lost \subseteq 1..spoken
      /\ Frames(audioLane) \subseteq 1..spoken /\ Frames(noteLane) \subseteq 1..noted
      /\ HeardFrames \cup Frames(audioLane) \cup lost = 1..spoken
      /\ HeardFrames \cap Frames(audioLane) = {}
      /\ \A l \in lost, k \in HeardFrames \cup Frames(audioLane) : l < k
      /\ Rising(audioLane) /\ Rising(noteLane)
  BY DEF BufferInv, BufferTypes, LanesAreInOrder, HandedInTurn, NoneVanishes, StalestLost
<1>2. PICK n \in Nat : n = Head(from)
  OBVIOUS
<1>3. /\ Tail(from) \in Seq(Nat) /\ Rising(Tail(from))
      /\ Frames(from) = Frames(Tail(from)) \cup {n}
      /\ \A k \in Frames(Tail(from)) : n < k
  BY <1>1, <1>2, LaneGivesOldest
<1>4. /\ toAgent' \in Seq(Handed)
      /\ \A i \in DOMAIN toAgent' :
            \/ i \in DOMAIN toAgent /\ toAgent'[i] = toAgent[i]
            \/ /\ i = Len(toAgent) + 1 /\ toAgent'[i].lane = lane
               /\ toAgent'[i].number = n /\ toAgent'[i].held = TRUE
      /\ HeardFrames' = HeardFrames \cup (IF lane = "audio" THEN {n} ELSE {})
  <2>1. toAgent \in Seq(Handed) /\ toAgent' = Hands(lane, n, TRUE)
    BY <1>1, <1>2
  <2>2. TRUE \in BOOLEAN
    OBVIOUS
  <2> QED BY ZenonT(30), <2>1, <2>2, HandsOver
<1>5. CASE lane = "audio"
  <2>1. /\ Frames(audioLane) = Frames(audioLane)' \cup {n} /\ Frames(noteLane)' = Frames(noteLane)
        /\ \A k \in Frames(audioLane)' : n < k
    <3>1. Frames(audioLane)' = Frames(Tail(from)) /\ Frames(noteLane)' = Frames(noteLane)
      BY <1>5 DEF Frames
    <3> QED BY <1>3, <1>5, <3>1
  <2>2. n \notin Frames(audioLane)'
    BY <1>1, <2>1
  <2>3. LanesAreInOrder'
    BY <1>1, <1>3, <1>5, <2>1 DEF LanesAreInOrder, Rising
  <2>4. NoneVanishes' /\ NoneTwice' /\ StalestLost' /\ HeldInOrder'
    <3>1. n \notin HeardFrames /\ \A l \in lost : l < n
      BY <1>1, <2>1
    <3>2. HeardFrames' \cup Frames(audioLane)' = 1..spoken' \ lost
      <4>1. \A l \in lost : l \in Nat /\ ~(l < l)
        BY <1>1
      <4> QED BY <1>1, <1>4, <1>5, <2>1, <4>1
    <3>3. \A i \in DOMAIN toAgent : toAgent[i].held =>
             IF toAgent[i].lane = lane THEN toAgent[i].number < n ELSE toAgent[i].lane = "audio"
      BY <1>5, <2>1 DEF BufferInv, HandedInTurn
    <3> QED BY <1>1, <1>2, <1>5, <2>1, <3>1, <3>2, <3>3, SendKeepsWords
  <2>5. HandedInTurn'
    <3>1. HeardFrames' \cap Frames(audioLane)' = {}
      BY <1>1, <1>4, <2>1, <2>2
    <3>2. n \in 1..spoken
      BY <1>1, <2>1
    <3>3. \A i \in DOMAIN toAgent' :
            toAgent'[i].number \in 1..(IF toAgent'[i].lane = "audio" THEN spoken' ELSE noted')
      <4>1. \A i \in DOMAIN toAgent :
              toAgent[i].number \in 1..(IF toAgent[i].lane = "audio" THEN spoken' ELSE noted')
        BY DEF BufferInv, HandedInTurn
      <4> SUFFICES ASSUME NEW i \in DOMAIN toAgent'
                   PROVE  toAgent'[i].number \in
                            1..(IF toAgent'[i].lane = "audio" THEN spoken' ELSE noted')
        OBVIOUS
      <4>2. CASE i \in DOMAIN toAgent /\ toAgent'[i] = toAgent[i]
        BY <4>1, <4>2
      <4>3. CASE toAgent'[i].lane = lane /\ toAgent'[i].number = n
        BY <1>5, <3>2, <4>3
      <4> QED BY <1>4, <4>2, <4>3
    <3>4. \A i \in DOMAIN toAgent' : toAgent'[i].held =>
            IF toAgent'[i].lane = "audio" THEN \A k \in Frames(audioLane)' : toAgent'[i].number < k
                                          ELSE \A k \in Frames(noteLane)' : toAgent'[i].number < k
      <4>1. \A i \in DOMAIN toAgent : toAgent[i].held =>
              IF toAgent[i].lane = "audio" THEN \A k \in Frames(audioLane)' : toAgent[i].number < k
                                           ELSE \A k \in Frames(noteLane)' : toAgent[i].number < k
        BY <2>1 DEF BufferInv, HandedInTurn
      <4> SUFFICES ASSUME NEW i \in DOMAIN toAgent', toAgent'[i].held
                   PROVE  IF toAgent'[i].lane = "audio"
                            THEN \A k \in Frames(audioLane)' : toAgent'[i].number < k
                            ELSE \A k \in Frames(noteLane)' : toAgent'[i].number < k
        OBVIOUS
      <4>2. CASE i \in DOMAIN toAgent /\ toAgent'[i] = toAgent[i]
        BY <4>1, <4>2
      <4>3. CASE toAgent'[i].lane = lane /\ toAgent'[i].number = n
        BY <1>5, <2>1, <4>3
      <4> QED BY <1>4, <4>2, <4>3
    <3>5. \A i \in DOMAIN toAgent' : toAgent'[i].held /\ releasing' = "audio" =>
            toAgent'[i].lane = "audio"
      <4>1. \A i \in DOMAIN toAgent : toAgent[i].held => toAgent[i].lane = "audio"
        BY <1>5 DEF BufferInv, HandedInTurn
      <4> SUFFICES ASSUME NEW i \in DOMAIN toAgent', toAgent'[i].held
                   PROVE  toAgent'[i].lane = "audio"
        OBVIOUS
      <4> QED BY <1>4, <1>5, <4>1
    <3> QED BY <3>1, <3>3, <3>4, <3>5 DEF HandedInTurn
  <2>6. BufferTypes' /\ BufferStages'
    BY <1>3, <1>4, <1>5 DEF BufferInv, BufferTypes, BufferStages
  <2> QED BY <2>3, <2>4, <2>5, <2>6 DEF BufferInv
<1>6. CASE lane = "context"
  <2>1. /\ Frames(noteLane) = Frames(noteLane)' \cup {n} /\ Frames(audioLane)' = Frames(audioLane)
        /\ \A k \in Frames(noteLane)' : n < k
    <3>1. Frames(noteLane)' = Frames(Tail(from)) /\ Frames(audioLane)' = Frames(audioLane)
      BY <1>6 DEF Frames
    <3> QED BY <1>3, <1>6, <3>1
  <2>2. HeardFrames' = HeardFrames
    BY <1>4, <1>6
  <2>3. LanesAreInOrder'
    BY <1>1, <1>3, <1>6, <2>1 DEF LanesAreInOrder, Rising
  <2>4. NoneVanishes' /\ NoneTwice' /\ StalestLost' /\ HeldInOrder'
    <3>1. \A i \in DOMAIN toAgent : toAgent[i].held =>
             IF toAgent[i].lane = lane THEN toAgent[i].number < n ELSE toAgent[i].lane = "audio"
      <4>1. \A i \in DOMAIN toAgent : toAgent[i] \in Handed
        BY <1>1
      <4>2. \A e \in Handed : e.lane \in {"audio", "context"}
        BY DEF Handed
      <4> QED BY <4>2, <1>6, <2>1, <4>1 DEF BufferInv, HandedInTurn
    <3> QED BY <1>1, <1>2, <1>6, <2>1, <3>1, SendKeepsWords
  <2>5. HandedInTurn'
    <3>1. n \in 1..noted
      BY <1>1, <2>1
    <3>2. \A i \in DOMAIN toAgent' :
            toAgent'[i].number \in 1..(IF toAgent'[i].lane = "audio" THEN spoken' ELSE noted')
      <4>1. \A i \in DOMAIN toAgent :
              toAgent[i].number \in 1..(IF toAgent[i].lane = "audio" THEN spoken' ELSE noted')
        BY DEF BufferInv, HandedInTurn
      <4> SUFFICES ASSUME NEW i \in DOMAIN toAgent'
                   PROVE  toAgent'[i].number \in
                            1..(IF toAgent'[i].lane = "audio" THEN spoken' ELSE noted')
        OBVIOUS
      <4>2. CASE i \in DOMAIN toAgent /\ toAgent'[i] = toAgent[i]
        BY <4>1, <4>2
      <4>3. CASE toAgent'[i].lane = lane /\ toAgent'[i].number = n
        BY <1>6, <3>1, <4>3
      <4> QED BY <1>4, <4>2, <4>3
    <3>3. \A i \in DOMAIN toAgent' : toAgent'[i].held =>
            IF toAgent'[i].lane = "audio" THEN \A k \in Frames(audioLane)' : toAgent'[i].number < k
                                          ELSE \A k \in Frames(noteLane)' : toAgent'[i].number < k
      <4>1. \A i \in DOMAIN toAgent : toAgent[i].held =>
              IF toAgent[i].lane = "audio" THEN \A k \in Frames(audioLane)' : toAgent[i].number < k
                                           ELSE \A k \in Frames(noteLane)' : toAgent[i].number < k
        BY <2>1 DEF BufferInv, HandedInTurn
      <4> SUFFICES ASSUME NEW i \in DOMAIN toAgent', toAgent'[i].held
                   PROVE  IF toAgent'[i].lane = "audio"
                            THEN \A k \in Frames(audioLane)' : toAgent'[i].number < k
                            ELSE \A k \in Frames(noteLane)' : toAgent'[i].number < k
        OBVIOUS
      <4>2. CASE i \in DOMAIN toAgent /\ toAgent'[i] = toAgent[i]
        BY <4>1, <4>2
      <4>3. CASE toAgent'[i].lane = lane /\ toAgent'[i].number = n
        BY <1>6, <2>1, <4>3
      <4> QED BY <1>4, <4>2, <4>3
    <3> QED BY <1>1, <1>6, <2>1, <2>2, <3>2, <3>3 DEF HandedInTurn
  <2>6. BufferTypes' /\ BufferStages'
    BY <1>3, <1>4, <1>6 DEF BufferInv, BufferTypes, BufferStages
  <2> QED BY <2>3, <2>4, <2>5, <2>6 DEF BufferInv
<1> QED BY <1>5, <1>6

\* The caller's first words reach the agent, whatever the bounds of the lanes and
\* however many frames there are (StartupBuffer): none twice, none lost but the
\* stalest and the one a release that is cut short was sending, the held in order.
THEOREM FirstWordsStayHeard == StartupSpec => []FirstWordsAreHeard
<1>1. StartupInit => BufferInv
  <2> SUFFICES ASSUME StartupInit PROVE BufferInv
    OBVIOUS
  <2>1. /\ toAgent = <<>> /\ audioLane = <<>> /\ noteLane = <<>> /\ spoken = 0 /\ noted = 0
        /\ lost = {} /\ holding = TRUE /\ releasing = "no"
    BY DEF StartupInit
  <2>2. SentFrames = {} /\ HeardFrames = {} /\ Frames(audioLane) = {} /\ Frames(noteLane) = {}
    BY <2>1 DEF SentFrames, HeardFrames, Frames
  <2>3. BufferTypes /\ BufferStages
    BY <2>1 DEF BufferTypes, BufferStages
  <2>4. LanesAreInOrder /\ HandedInTurn
    BY <2>1, <2>2 DEF LanesAreInOrder, Rising, HandedInTurn
  <2>5. NoneVanishes /\ NoneTwice /\ StalestLost /\ HeldInOrder
    BY <2>1, <2>2 DEF NoneVanishes, NoneTwice, StalestLost, HeldInOrder
  <2> QED BY <2>3, <2>4, <2>5 DEF BufferInv
<1>2. BufferInv /\ BrokenInv /\ [StartupNext]_startupVars => BufferInv'
  <2> SUFFICES ASSUME BufferInv, BrokenInv, [StartupNext]_startupVars PROVE BufferInv'
    OBVIOUS
  <2>1. /\ holding \in BOOLEAN /\ spoken + 1 \in Nat /\ noted + 1 \in Nat
        /\ audioLane \in Seq(Nat) /\ noteLane \in Seq(Nat)
        /\ releasing \in {"audio", "context"} => ~holding
    BY DEF BufferInv, BufferTypes, BufferStages
  <2>2. CASE CallerSpeaks
    <3>1. CASE holding
      BY <2>2, <3>1, HeldKeeps
    <3>2. CASE ~holding
      <4>1. /\ spoken' = spoken + 1 /\ toAgent' = Hands("audio", spoken + 1, FALSE)
            /\ UNCHANGED <<holding, audioLane, noteLane, releasing, noted, lost>>
        BY <2>2, <3>2 DEF CallerSpeaks
      <4> QED BY <2>1, <3>2, <4>1, StraightKeeps
    <3> QED BY <3>1, <3>2
  <2>3. CASE ContextArrives
    <3>1. CASE holding
      BY <2>3, <3>1, HeldKeeps
    <3>2. CASE ~holding
      <4>1. /\ noted' = noted + 1 /\ toAgent' = Hands("context", noted + 1, FALSE)
            /\ UNCHANGED <<holding, audioLane, noteLane, releasing, spoken, lost>>
        BY <2>3, <3>2 DEF ContextArrives
      <4> QED BY <2>1, <3>2, <4>1, StraightKeeps
    <3> QED BY <3>1, <3>2
  <2>4. ASSUME UNCHANGED <<audioLane, noteLane, spoken, noted, lost, toAgent>>,
               \/ UNCHANGED <<holding, releasing>>
               \/ /\ holding' = FALSE /\ releasing' \in {"audio", "context", "over"}
                  /\ releasing' = "audio" => holding
        PROVE  BufferInv'
    <3>1. UNCHANGED <<SentFrames, HeardFrames, Frames(audioLane), Frames(noteLane)>>
      BY <2>4 DEF SentFrames, HeardFrames, Frames
    <3>2. LanesAreInOrder' /\ NoneVanishes' /\ NoneTwice' /\ StalestLost' /\ HeldInOrder'
      BY <2>4, <3>1
         DEF BufferInv, LanesAreInOrder, Rising, NoneVanishes, NoneTwice, StalestLost, HeldInOrder
    <3>3. BufferTypes' /\ BufferStages'
      <4>1. BufferTypes'
        BY <2>4 DEF BufferInv, BufferTypes
      <4>2. BufferStages'
        BY <2>4 DEF BufferInv, BufferTypes, BufferStages
      <4> QED BY <4>1, <4>2
    <3>4. HandedInTurn'
      BY <2>4, <3>1 DEF BufferInv, BufferStages, HandedInTurn
    <3> QED BY <3>2, <3>3, <3>4 DEF BufferInv
  <2>5. CASE BeginRelease \/ SendReturns \/ ReleaseStops
    BY <2>1, <2>4, <2>5 DEF BeginRelease, SendReturns, ReleaseStops, BrokenInv
  <2>6. CASE ReleaseFrame
    <3>1. CASE audioLane = <<>>
      BY <2>1, <2>4, <2>6, <3>1 DEF ReleaseFrame
    <3>2. CASE audioLane # <<>>
      <4>1. /\ releasing = "audio" /\ toAgent' = Hands("audio", Head(audioLane), TRUE)
            /\ audioLane' = Tail(audioLane)
            /\ UNCHANGED <<noteLane, holding, releasing, spoken, noted, lost>>
        BY <2>6, <3>2 DEF ReleaseFrame
      <4> QED BY <2>1, <3>2, <4>1, HandingKeeps
    <3> QED BY <3>1, <3>2
  <2>7. CASE ReleaseLine
    <3>1. CASE noteLane = <<>>
      BY <2>1, <2>4, <2>7, <3>1 DEF ReleaseLine
    <3>2. CASE noteLane # <<>>
      <4>1. /\ releasing = "context" /\ toAgent' = Hands("context", Head(noteLane), TRUE)
            /\ noteLane' = Tail(noteLane)
            /\ UNCHANGED <<audioLane, holding, releasing, spoken, noted, lost>>
        BY <2>7, <3>2 DEF ReleaseLine
      <4> QED BY <2>1, <3>2, <4>1, HandingKeeps
    <3> QED BY <3>1, <3>2
  <2>8. CASE UNCHANGED startupVars
    BY <2>4, <2>8 DEF startupVars
  <2> QED BY <2>2, <2>3, <2>5, <2>6, <2>7, <2>8 DEF StartupNext
<1>3. StartupInit => BrokenInv
  BY DEF StartupInit, BrokenInv
<1>4. BufferInv /\ BrokenInv /\ [StartupNext]_startupVars => BrokenInv'
  <2> SUFFICES ASSUME BufferInv, BrokenInv, [StartupNext]_startupVars PROVE BrokenInv'
    OBVIOUS
  <2>1. toAgent \in Seq(Handed) /\ (holding => releasing = "no")
    BY DEF BufferInv, BufferTypes, BufferStages
  <2>2. ASSUME NEW lane \in {"audio", "context"}, NEW n \in Nat, NEW wasHeld \in BOOLEAN,
               toAgent' = Hands(lane, n, wasHeld)
        PROVE  HeardFrames' = HeardFrames \cup (IF lane = "audio" THEN {n} ELSE {})
    BY <2>1, <2>2, HandsOver
  <2>3. UNCHANGED toAgent => UNCHANGED HeardFrames
    BY DEF HeardFrames, SentFrames
  <2>4. CASE CallerSpeaks \/ ContextArrives
    <3>1. spoken + 1 \in Nat /\ noted + 1 \in Nat
      BY DEF BufferInv, BufferTypes
    <3>2. HeardFrames \subseteq HeardFrames'
      <4>1. CASE UNCHANGED toAgent
        BY <2>3, <4>1
      <4>2. CASE toAgent' = Hands("audio", spoken + 1, FALSE)
        BY <2>2, <3>1, <4>2
      <4>3. CASE toAgent' = Hands("context", noted + 1, FALSE)
        BY <2>2, <3>1, <4>3
      <4> QED BY <2>4, <4>1, <4>2, <4>3 DEF CallerSpeaks, ContextArrives
    <3>3. UNCHANGED <<releasing, awaited, brokenOff>>
      BY <2>4 DEF CallerSpeaks, ContextArrives, handVars
    <3> QED BY <3>2, <3>3 DEF BrokenInv
  <2>5. CASE BeginRelease \/ SendReturns \/ ReleaseStops
    BY <2>1, <2>3, <2>5 DEF BeginRelease, SendReturns, ReleaseStops, handVars, BrokenInv
  <2>6. CASE ReleaseFrame
    <3>1. CASE audioLane = <<>>
      BY <2>3, <2>6, <3>1 DEF ReleaseFrame, BrokenInv
    <3>2. CASE audioLane # <<>>
      <4>1. /\ releasing = "audio" /\ releasing' = "audio" /\ brokenOff' = brokenOff
            /\ awaited' = Head(audioLane) /\ toAgent' = Hands("audio", Head(audioLane), TRUE)
        BY <2>6, <3>2 DEF ReleaseFrame
      <4>2. Head(audioLane) \in Nat
        BY <3>2, LaneGivesOldest DEF BufferInv, BufferTypes, LanesAreInOrder
      <4>3. HeardFrames' = HeardFrames \cup {Head(audioLane)}
        BY <2>2, <4>1, <4>2
      <4> QED BY <4>1, <4>3 DEF BrokenInv
    <3> QED BY <3>1, <3>2
  <2>7. CASE ReleaseLine
    <3>1. CASE noteLane = <<>>
      BY <2>3, <2>7, <3>1 DEF ReleaseLine, BrokenInv
    <3>2. CASE noteLane # <<>>
      <4>1. /\ releasing = "context" /\ releasing' = "context" /\ brokenOff' = brokenOff
            /\ toAgent' = Hands("context", Head(noteLane), TRUE)
        BY <2>7, <3>2 DEF ReleaseLine
      <4>2. Head(noteLane) \in Nat
        BY <3>2, LaneGivesOldest DEF BufferInv, BufferTypes, LanesAreInOrder
      <4>3. HeardFrames' = HeardFrames
        BY <2>2, <4>1, <4>2
      <4> QED BY <4>1, <4>3 DEF BrokenInv
    <3> QED BY <3>1, <3>2
  <2>8. CASE UNCHANGED startupVars
    BY <2>3, <2>8 DEF startupVars, handVars, BrokenInv
  <2> QED BY <2>4, <2>5, <2>6, <2>7, <2>8 DEF StartupNext
<1>5. BufferInv /\ BrokenInv => FirstWordsAreHeard
  BY WordsInParts DEF BufferInv
<1> QED BY <1>1, <1>2, <1>3, <1>4, <1>5, PTL DEF StartupSpec


(***************************************************************************)
(* An answer on its way to the caller's ear.                               *)
(***************************************************************************)

\* A frame of ours is being sent: it may play already and is not timed yet.
UnderWay == loop \in {"sending", "flushing"}

SpokenTypes ==
    /\ answerNo \in Nat /\ put \in Nat /\ mouth \in Nat
    /\ residual \in Seq({answerNo}) /\ toSend \in Seq({{answerNo}})
    /\ replyText \subseteq {answerNo}
    /\ playing \in Nat /\ ringing \in 0..TailWindow
    /\ playTime \in Int /\ playoutEnd \in Int
    /\ slipped \in BOOLEAN /\ cutTail \in BOOLEAN

\* NothingCarriedOver leaves out why the next answer finds everything empty: by the
\* time it begins the aligner was flushed and the mouth was given its timeline.
CleanAtTheMark ==
    /\ loop = "sending" <=> toSend # <<>>
    /\ loop \in {"flushing", "marking"} => residual = <<>>
    /\ loop = "marking" => mouth = 0 /\ replyText = {}
    /\ mouth <= put /\ (UnderWay => mouth < put)

\* EchoIsCovered leaves out by how much: the horizon is past the end of what StandIn
\* plays, but for the frame under way; a cut leaves nothing to play but its tail.
HorizonIsFar ==
    /\ loop = "cutting" => playing = 0 /\ (ringing > 0 => cutTail)
    /\ goodbye = "cancelling" /\ ~slipped => playing = 0 /\ (ringing > 0 => cutTail)
    /\ ~slipped =>
           IF UnderWay THEN playing > 1 => playTime + playing - 1 <= playoutEnd
           ELSE /\ playing > 0 => playTime + playing <= playoutEnd
                /\ playing = 0 /\ ringing > 0 /\ ~cutTail =>
                       playTime + ringing <= playoutEnd + TailWindow

SpokenInv == SpokenTypes /\ CleanAtTheMark /\ HorizonIsFar

\* The aligner cuts an answer's audio into frames of that answer alone.
LEMMA PushKeeps ==
    ASSUME answerNo \in Nat, residual \in Seq({answerNo}), NEW n \in Nat, Push(n)
    PROVE  residual' \in Seq({answerNo}) /\ toSend' \in Seq({{answerNo}})
<1>1. PICK new : new = [i \in 1..n |-> answerNo]
  OBVIOUS
<1>2. new \in Seq({answerNo})
  BY <1>1
<1>3. PICK joined : joined = residual \o new
  OBVIOUS
<1>4. joined \in Seq({answerNo})
  BY <1>2, <1>3
<1>5. PICK size \in Nat : size = Len(joined)
  BY <1>4
<1>6. \A k \in 1..size : joined[k] = answerNo
  BY <1>4, <1>5
<1>7. PICK whole : whole = size \div 2
  OBVIOUS
<1>8. whole \in Nat /\ 2 * whole <= size
  BY <1>5, <1>7
<1>9. toSend' = [k \in 1..whole |-> {joined[2 * k - 1], joined[2 * k]}]
  BY <1>1, <1>3, <1>5, <1>7 DEF Push
<1>10. residual' = SubSeq(joined, 2 * whole + 1, Len(joined))
  BY <1>1, <1>3, <1>5, <1>7 DEF Push
<1>11. \A k \in 1..whole : {joined[2 * k - 1], joined[2 * k]} = {answerNo}
  <2> SUFFICES ASSUME NEW k \in 1..whole PROVE {joined[2 * k - 1], joined[2 * k]} = {answerNo}
    OBVIOUS
  <2>1. 2 * k - 1 \in 1..size /\ 2 * k \in 1..size
    BY <1>5, <1>8
  <2> QED BY <1>6, <2>1
<1>12. toSend' \in Seq({{answerNo}})
  <2>1. toSend' = [k \in 1..whole |-> {answerNo}]
    BY <1>9, <1>11, Zenon
  <2> QED BY <1>8, <2>1
<1>13. residual' \in Seq({answerNo})
  BY <1>4, <1>5, <1>8, <1>10
<1> QED BY <1>12, <1>13

\* A frame goes out or is shed; one that goes out during a goodbye's cut slips past it.
LEMMA PutFacts ==
    ASSUME Put, slipped \in BOOLEAN
    PROVE  /\ put' = put + 1 /\ ringing' = ringing /\ cutTail' = cutTail /\ slipped' \in BOOLEAN
           /\ slipped => slipped'
           /\ playing' = playing \/ (playing' = playing + 1 /\ (goodbye = "cancelling" => slipped'))
<1>1. put' = put + 1 /\ ringing' = ringing /\ cutTail' = cutTail
  BY DEF Put
<1>2. CASE playing' = playing /\ slipped' = slipped
  BY <1>1, <1>2
<1>3. CASE playing' = playing + 1 /\ slipped' = (slipped \/ goodbye = "cancelling")
  <2>1. slipped' \in BOOLEAN /\ (slipped => slipped') /\ (goodbye = "cancelling" => slipped')
    BY <1>3, Zenon
  <2> QED BY <1>1, <1>3, <2>1
<1> QED BY <1>2, <1>3 DEF Put

\* A frame is put, the first of a delta or the next one.
LEMMA NextFrameIsCovered ==
    ASSUME SpokenTypes, HorizonIsFar, Put, UnderWay', playTime' = playTime,
           loop # "cutting", goodbye' = goodbye, playoutEnd' \in Int,
           IF UnderWay THEN playTime + 1 <= playoutEnd' /\ playoutEnd + 1 <= playoutEnd'
           ELSE playoutEnd' = playoutEnd
    PROVE  HorizonIsFar' /\ playing' \in Nat /\ ringing' \in 0..TailWindow
             /\ slipped' \in BOOLEAN /\ cutTail' \in BOOLEAN
<1>1. /\ ringing' = ringing /\ cutTail' = cutTail /\ slipped' \in BOOLEAN /\ (slipped => slipped')
      /\ playing' = playing \/ (playing' = playing + 1 /\ (goodbye = "cancelling" => slipped'))
  BY PutFacts DEF SpokenTypes
<1>2. playing' \in Nat /\ ringing' \in 0..TailWindow /\ cutTail' \in BOOLEAN
  BY <1>1 DEF SpokenTypes
<1>3. /\ ~slipped' => ~slipped
      /\ loop' # "cutting" /\ goodbye' = goodbye /\ UnderWay'
      /\ playing \in Nat /\ playTime \in Int /\ playoutEnd \in Int
  BY <1>1 DEF SpokenTypes, UnderWay
<1>4. ASSUME ~slipped', playing' > 1 PROVE playTime' + playing' - 1 <= playoutEnd'
  <2>1. playing > 0
    BY <1>1, <1>3, <1>4
  <2>2. CASE UnderWay
    <3>1. playing > 1 => playTime + playing - 1 <= playoutEnd
      BY <1>3, <1>4, <2>2 DEF HorizonIsFar
    <3> QED BY <1>1, <1>3, <2>1, <2>2, <3>1
  <2>3. CASE ~UnderWay
    <3>1. playTime + playing <= playoutEnd
      BY <1>3, <1>4, <2>1, <2>3 DEF HorizonIsFar
    <3> QED BY <1>1, <1>3, <2>3, <3>1
  <2> QED BY <2>2, <2>3
<1>5. goodbye' = "cancelling" /\ ~slipped' => playing' = 0 /\ (ringing' > 0 => cutTail')
  <2>1. goodbye = "cancelling" /\ ~slipped => playing = 0 /\ (ringing > 0 => cutTail)
    BY DEF HorizonIsFar
  <2>2. ringing' > 0 /\ (ringing > 0 => cutTail) => cutTail'
    BY <1>1, Zenon
  <2> QED BY <1>1, <1>3, <2>1, <2>2
<1> QED BY <1>1, <1>2, <1>3, <1>4, <1>5 DEF HorizonIsFar

\* A frame is timed, and none follows.
LEMMA TimedFrameIsCovered ==
    ASSUME SpokenTypes, HorizonIsFar, UnderWay, ~UnderWay', loop' # "cutting",
           UNCHANGED <<playing, ringing, cutTail, slipped, playTime, goodbye>>,
           playoutEnd' \in Int, playTime + 1 <= playoutEnd', playoutEnd + 1 <= playoutEnd'
    PROVE  HorizonIsFar'
<1>1. /\ playing \in Nat /\ playTime \in Int /\ playoutEnd \in Int /\ ringing \in Int
      /\ ringing <= TailWindow /\ TailWindow \in Nat
  BY SpokenAssumption DEF SpokenTypes, SpokenAssumption
<1>2. ASSUME ~slipped, playing > 0 PROVE playTime + playing <= playoutEnd'
  <2>1. playing > 1 => playTime + playing - 1 <= playoutEnd
    BY <1>2 DEF HorizonIsFar
  <2> QED BY <1>1, <1>2, <2>1
<1>3. playTime + ringing <= playoutEnd' + TailWindow
  <2>1. PICK end \in Int : end = playoutEnd'
    OBVIOUS
  <2>2. playTime <= end
    BY <1>1, <2>1
  <2>3. playTime + ringing <= end + TailWindow
    BY <1>1, <2>2
  <2> QED BY <2>1, <2>3
<1>4. goodbye' = "cancelling" /\ ~slipped' => playing' = 0 /\ (ringing' > 0 => cutTail')
  <2>1. goodbye = "cancelling" /\ ~slipped => playing = 0 /\ (ringing > 0 => cutTail)
    BY DEF HorizonIsFar
  <2>2. ringing' > 0 /\ (ringing > 0 => cutTail) => cutTail'
    BY Zenon
  <2>3. ~slipped' => ~slipped
    BY Zenon
  <2> QED BY <2>1, <2>2, <2>3
<1>5. playing' = playing /\ ringing' = ringing /\ cutTail' = cutTail /\ playTime' = playTime /\ (~slipped' => ~slipped)
  BY Zenon
<1> QED BY <1>2, <1>3, <1>4, <1>5 DEF HorizonIsFar

\* StandIn is told to drop what it has not played.
LEMMA NothingLeftToPlay ==
    ASSUME SpokenTypes, CancelPlayback
    PROVE  /\ playing' \in Nat /\ ringing' \in 0..TailWindow
           /\ slipped' \in BOOLEAN /\ cutTail' \in BOOLEAN /\ HorizonIsFar'
<1>1. playing' = 0 /\ slipped' \in BOOLEAN /\ cutTail' \in BOOLEAN
  <2>1. cutTail' \in BOOLEAN
    <3>1. PICK rings : rings = (ringing' > 0)
      OBVIOUS
    <3>2. rings \in BOOLEAN
      BY <3>1
    <3>3. cutTail' = rings
      BY <3>1, Zenon DEF CancelPlayback
    <3> QED BY <3>2, <3>3
  <2> QED BY <2>1 DEF CancelPlayback
<1>2. playing' \in Nat /\ ringing' \in 0..TailWindow
  BY <1>1, SpokenAssumption DEF CancelPlayback, SpokenTypes, SpokenAssumption
<1>3. ~(playing' > 1) /\ ~(playing' > 0)
  BY <1>1
<1>4. ringing' > 0 => cutTail'
  BY Zenon DEF CancelPlayback
<1> QED BY <1>1, <1>2, <1>3, <1>4 DEF HorizonIsFar

\* The guard and the mouth keep up with every frame, whatever cuts in between two of
\* them (hermes_agent/handler.py, echo_guard.py, audio.py, lipsync.py).
THEOREM SpeechInvariant == SpokenSpec => []SpokenInv
<1>1. SpokenInit => SpokenInv
  <2> SUFFICES ASSUME SpokenInit PROVE SpokenInv
    OBVIOUS
  <2>1. slipped \in BOOLEAN /\ cutTail \in BOOLEAN /\ playing \in Nat /\ ringing \in 0..TailWindow
    <3>1. playing = 0 /\ ringing = 0
      BY DEF SpokenInit
    <3>2. slipped \in BOOLEAN /\ cutTail \in BOOLEAN
      BY DEF SpokenInit
    <3> QED BY <3>1, <3>2, SpokenAssumption DEF SpokenAssumption
  <2>2. SpokenTypes
    BY <2>1, SpokenAssumption DEF SpokenInit, SpokenTypes, SpokenAssumption
  <2>3. CleanAtTheMark
    BY DEF SpokenInit, CleanAtTheMark, UnderWay
  <2>4. HorizonIsFar
    <3>1. playing = 0 /\ ringing = 0
      BY DEF SpokenInit
    <3>2. ~(playing > 1) /\ ~(playing > 0) /\ ~(ringing > 0)
      BY <3>1
    <3> QED BY <3>1, <3>2 DEF HorizonIsFar
  <2> QED BY <2>2, <2>3, <2>4 DEF SpokenInv
<1>2. SpokenInv /\ [SpokenNext]_spokenVars => SpokenInv'
  <2> SUFFICES ASSUME SpokenInv, [SpokenNext]_spokenVars PROVE SpokenInv'
    OBVIOUS
  <2> USE SpokenAssumption DEF SpokenAssumption
  <2>1. ASSUME NEW n \in 1..MaxDelta, ModelAudio(n) PROVE SpokenInv'
    <3>1. residual' \in Seq({answerNo}) /\ toSend' \in Seq({{answerNo}}) /\ answerNo' = answerNo
      BY <2>1, PushKeeps DEF ModelAudio, SpokenInv, SpokenTypes
    <3>2. CASE toSend' = <<>>
      BY <2>1, <3>1, <3>2 DEF ModelAudio, Listening, SpokenInv, SpokenTypes, CleanAtTheMark,
         HorizonIsFar, UnderWay, mouthVars, playerVars, guardVars
    <3>3. CASE toSend' # <<>>
      <4>1. Put /\ loop = "idle" /\ loop' = "sending" /\ UNCHANGED <<mouthVars, playTime, guardVars, goodbye>>
        BY <2>1, <3>3 DEF ModelAudio, Listening
      <4>2. HorizonIsFar' /\ playing' \in Nat /\ ringing' \in 0..TailWindow
             /\ slipped' \in BOOLEAN /\ cutTail' \in BOOLEAN
        BY <4>1, NextFrameIsCovered DEF SpokenInv, SpokenTypes, UnderWay, guardVars
      <4>3. put' = put + 1
        BY <4>1 DEF Put
      <4> QED BY <3>1, <3>3, <4>1, <4>2, <4>3 DEF SpokenInv, SpokenTypes, CleanAtTheMark,
                 UnderWay, mouthVars, guardVars
    <3> QED BY <3>2, <3>3
  <2>2. CASE DropsAudio
    BY <2>2 DEF DropsAudio, Listening, ResetAligner, SpokenInv, SpokenTypes, CleanAtTheMark,
       HorizonIsFar, UnderWay, mouthVars, playerVars, guardVars
  <2>3. CASE FrameSent
    <3>1. /\ answerNo' = answerNo /\ residual' = residual /\ replyText' = replyText /\ mouth' = mouth + 1
          /\ playTime' = playTime /\ goodbye' = goodbye /\ loop = "sending" /\ toSend' = Tail(toSend)
      BY <2>3 DEF FrameSent, AudioSent
    <3>2. toSend' \in Seq({{answerNo}})
      BY <3>1 DEF SpokenInv, SpokenTypes, CleanAtTheMark
    <3>3. /\ playoutEnd' \in Int
          /\ playTime + 1 <= playoutEnd' /\ playoutEnd + 1 <= playoutEnd'
      BY <2>3 DEF FrameSent, NoteOutput, SpokenInv, SpokenTypes
    <3>4. CASE toSend' = <<>>
      <4>1. loop' = "idle" /\ UNCHANGED <<put, playing, ringing, cutTail, slipped>>
        BY <2>3, <3>4 DEF FrameSent, playerVars
      <4>2. HorizonIsFar'
        BY <3>1, <3>3, <4>1, TimedFrameIsCovered DEF SpokenInv, UnderWay
      <4> QED BY <3>1, <3>2, <3>3, <3>4, <4>1, <4>2 DEF SpokenInv, SpokenTypes, CleanAtTheMark, UnderWay
    <3>5. CASE toSend' # <<>>
      <4>1. Put /\ loop' = "sending"
        BY <2>3, <3>1, <3>5 DEF FrameSent
      <4>2. HorizonIsFar' /\ playing' \in Nat /\ ringing' \in 0..TailWindow
             /\ slipped' \in BOOLEAN /\ cutTail' \in BOOLEAN
        BY <3>1, <3>3, <4>1, NextFrameIsCovered DEF SpokenInv, UnderWay
      <4>3. put' = put + 1
        BY <4>1 DEF Put
      <4> QED BY <3>1, <3>2, <3>3, <3>5, <4>1, <4>2, <4>3 DEF SpokenInv, SpokenTypes, CleanAtTheMark, UnderWay
    <3> QED BY <3>4, <3>5
  <2>4. CASE TailSent
    <3>1. /\ loop = "flushing" /\ loop' = "marking" /\ mouth' = 0 /\ replyText' = {}
          /\ UNCHANGED <<answerNo, toSend, residual, put, playing, ringing, cutTail, slipped, playTime, goodbye>>
      BY <2>4 DEF TailSent, SendVisemes, Finish, wireVars, playerVars
    <3>2. playoutEnd' \in Int /\ playTime + 1 <= playoutEnd' /\ playoutEnd + 1 <= playoutEnd'
      BY <2>4 DEF TailSent, NoteOutput, SpokenInv, SpokenTypes
    <3>3. HorizonIsFar'
      BY <3>1, <3>2, TimedFrameIsCovered DEF SpokenInv, UnderWay
    <3> QED BY <3>1, <3>2, <3>3 DEF SpokenInv, SpokenTypes, CleanAtTheMark, UnderWay
  <2>5. CASE Done
    <3>1. /\ loop = "idle" /\ residual' = <<>>
          /\ UNCHANGED <<answerNo, toSend, playTime, playoutEnd, goodbye>>
      BY <2>5 DEF Done, Listening, FlushAligner, guardVars
    <3>2. residual' \in Seq({answerNo})
      BY <3>1
    <3>3. CASE residual # <<>> /\ ~dropping
      <4>1. Put /\ loop' = "flushing" /\ UNCHANGED <<mouth, replyText>>
        BY <2>5, <3>3 DEF Done, mouthVars
      <4>2. HorizonIsFar' /\ playing' \in Nat /\ ringing' \in 0..TailWindow
             /\ slipped' \in BOOLEAN /\ cutTail' \in BOOLEAN
        BY <3>1, <4>1, NextFrameIsCovered DEF SpokenInv, SpokenTypes, UnderWay
      <4>3. put' = put + 1
        BY <4>1 DEF Put
      <4> QED BY <3>1, <3>2, <4>1, <4>2, <4>3 DEF SpokenInv, SpokenTypes, CleanAtTheMark, UnderWay
    <3>4. CASE ~(residual # <<>> /\ ~dropping)
      <4>1. /\ loop' = "marking" /\ mouth' = 0 /\ replyText' = {}
            /\ UNCHANGED <<put, playing, ringing, cutTail, slipped>>
        BY <2>5, <3>4 DEF Done, SendVisemes, Finish, playerVars
      <4> QED BY <3>1, <3>2, <4>1 DEF SpokenInv, SpokenTypes, CleanAtTheMark, HorizonIsFar, UnderWay
    <3> QED BY <3>3, <3>4
  <2>6. CASE MarksSent
    <3>1. /\ loop = "marking" /\ loop' = "idle" /\ answerNo' = answerNo + 1 /\ put' = 0
          /\ UNCHANGED <<toSend, residual, mouth, replyText, playing, ringing, cutTail, slipped, playTime, playoutEnd, goodbye>>
      BY <2>6 DEF MarksSent, mouthVars, playerVars, guardVars
    <3>2. toSend = <<>> /\ residual = <<>> /\ mouth = 0 /\ replyText = {}
      BY <3>1 DEF SpokenInv, CleanAtTheMark
    <3>3. residual' \in Seq({answerNo'}) /\ toSend' \in Seq({{answerNo'}})
      BY <3>1, <3>2
    <3> QED BY <3>1, <3>2, <3>3 DEF SpokenInv, SpokenTypes, CleanAtTheMark, HorizonIsFar, UnderWay
  <2>7. ASSUME NEW emotion, HearsWords(emotion) PROVE SpokenInv'
    BY <2>7 DEF HearsWords, Listening, SpokenInv, SpokenTypes, CleanAtTheMark, HorizonIsFar, UnderWay,
       wireVars, playerVars, guardVars
  <2>8. CASE CallerCutsIn
    <3>1. /\ loop = "idle" /\ loop' = "cutting" /\ CancelPlayback
          /\ UNCHANGED <<answerNo, toSend, residual, put, mouth, replyText, playTime, playoutEnd>>
      BY <2>8 DEF CallerCutsIn, Listening, wireVars, mouthVars
    <3>2. playing' \in Nat /\ ringing' \in 0..TailWindow /\ slipped' \in BOOLEAN
          /\ cutTail' \in BOOLEAN /\ HorizonIsFar'
      BY <3>1, NothingLeftToPlay DEF SpokenInv
    <3> QED BY <3>1, <3>2 DEF SpokenInv, SpokenTypes, CleanAtTheMark, UnderWay
  <2>9. CASE Cut
    <3>1. residual' \in Seq({answerNo})
      BY <2>9 DEF Cut, ResetAligner
    <3> QED BY <2>9, <3>1 DEF Cut, ResetAligner, Collapse, SpokenInv, SpokenTypes, CleanAtTheMark,
               HorizonIsFar, UnderWay, playerVars
  <2>10. ASSUME NEW respond, Decides(respond) PROVE SpokenInv'
    BY <2>10 DEF Decides, Listening, SpokenInv, SpokenTypes, CleanAtTheMark, HorizonIsFar, UnderWay,
       wireVars, mouthVars, playerVars
  <2>11. CASE Goodbye
    <3>1. /\ CancelPlayback
          /\ UNCHANGED <<answerNo, loop, toSend, residual, put, mouth, replyText, playTime, playoutEnd>>
      BY <2>11 DEF Goodbye, wireVars, mouthVars, guardVars
    <3>2. playing' \in Nat /\ ringing' \in 0..TailWindow /\ slipped' \in BOOLEAN
          /\ cutTail' \in BOOLEAN /\ HorizonIsFar'
      BY <3>1, NothingLeftToPlay DEF SpokenInv
    <3> QED BY <3>1, <3>2 DEF SpokenInv, SpokenTypes, CleanAtTheMark, UnderWay
  <2>12. CASE GoodbyeCut
    <3>1. residual' \in Seq({answerNo})
      BY <2>12 DEF GoodbyeCut, ResetAligner
    <3> QED BY <2>12, <3>1 DEF GoodbyeCut, ResetAligner, Collapse, SpokenInv, SpokenTypes, CleanAtTheMark,
               HorizonIsFar, UnderWay, mouthVars, playerVars
  <2>13. CASE ToolStarts \/ ToolEnds \/ HandlerCloses
    BY <2>13 DEF ToolStarts, ToolEnds, HandlerCloses, SpokenInv, SpokenTypes, CleanAtTheMark, HorizonIsFar,
       UnderWay, wireVars, mouthVars, playerVars, guardVars
  <2>14. CASE Plays
    <3>1. /\ UNCHANGED <<answerNo, loop, toSend, residual, put, mouth, replyText, playoutEnd, goodbye>>
          /\ playTime' = playTime + 1
      BY <2>14 DEF Plays, wireVars, mouthVars, guardVars
    <3>2. /\ playing' \in Nat /\ ringing' \in 0..TailWindow
          /\ playing' = IF playing > 0 THEN playing - 1 ELSE 0
          /\ ringing' = IF playing = 1 THEN TailWindow ELSE IF ringing > 0 THEN ringing - 1 ELSE 0
      BY <2>14 DEF Plays, SpokenInv, SpokenTypes
    <3>3. slipped' = (slipped /\ playing' + ringing' > 0)
      BY <2>14 DEF Plays
    <3>4. slipped' \in BOOLEAN /\ (~slipped' => ~slipped \/ ~(playing' + ringing' > 0))
      BY <3>3 DEF SpokenInv, SpokenTypes
    <3>5. ~(playing' + ringing' > 0) => playing' = 0 /\ ringing' = 0
      <4>1. PICK frames \in Nat : frames = playing'
        BY <3>2
      <4>2. PICK ticks \in Nat : ticks = ringing'
        BY <3>2
      <4>3. ~(frames + ticks > 0) => frames = 0 /\ ticks = 0
        OBVIOUS
      <4> QED BY <4>1, <4>2, <4>3
    <3>7. cutTail' \in BOOLEAN /\ (cutTail' <=> cutTail /\ playing # 1 /\ ringing' > 0)
      <4>1. cutTail' = (cutTail /\ playing # 1 /\ ringing' > 0)
        BY <2>14 DEF Plays
      <4> QED BY <4>1, Zenon
    <3>6. HorizonIsFar'
      BY <3>1, <3>2, <3>4, <3>5, <3>7 DEF HorizonIsFar, SpokenInv, SpokenTypes, UnderWay
    <3> QED BY <3>1, <3>2, <3>4, <3>6, <3>7 DEF SpokenInv, SpokenTypes, CleanAtTheMark, UnderWay
  <2>15. CASE UNCHANGED spokenVars
    BY <2>15 DEF spokenVars, SpokenInv, SpokenTypes, CleanAtTheMark, HorizonIsFar, UnderWay,
       wireVars, mouthVars, playerVars, guardVars
  <2> QED BY <2>1, <2>2, <2>3, <2>4, <2>5, <2>6, <2>7, <2>8, <2>9, <2>10, <2>11, <2>12, <2>13, <2>14,
             <2>15 DEF SpokenNext
<1> QED BY <1>1, <1>2, PTL DEF SpokenSpec

\* The face is changed by the words and the tools in whatever order they come.
FaceInv == toolRuns \in BOOLEAN /\ FaceFits

\* Speech, marks and the ends of tools may come in any order (hermes_agent/handler.py).
THEOREM FaceInvariant == SpokenSpec => []FaceInv
<1>1. SpokenInit => FaceInv
  BY DEF SpokenInit, FaceInv, FaceFits
<1>2. FaceInv /\ [SpokenNext]_spokenVars => FaceInv'
  <2> SUFFICES ASSUME FaceInv, [SpokenNext]_spokenVars PROVE FaceInv'
    OBVIOUS
  <2>1. ASSUME UNCHANGED faceVars PROVE FaceInv'
    BY <2>1 DEF faceVars, FaceInv, FaceFits
  <2>2. ASSUME NEW n \in 1..MaxDelta, ModelAudio(n) PROVE FaceInv'
    BY <2>1, <2>2 DEF ModelAudio
  <2>3. CASE DropsAudio \/ FrameSent \/ TailSent \/ Done \/ MarksSent \/ CallerCutsIn \/ Cut
             \/ Goodbye \/ GoodbyeCut \/ HandlerCloses \/ Plays \/ UNCHANGED spokenVars
    BY <2>1, <2>3 DEF DropsAudio, FrameSent, TailSent, Done, MarksSent, CallerCutsIn, Cut,
       Goodbye, GoodbyeCut, HandlerCloses, Plays, spokenVars
  <2>4. ASSUME NEW respond \in BOOLEAN, Decides(respond) PROVE FaceInv'
    BY <2>1, <2>4 DEF Decides
  <2>5. ASSUME NEW emotion \in {"neutral", "happy"}, HearsWords(emotion) PROVE FaceInv'
    BY <2>5 DEF HearsWords, Cue, FaceInv, FaceFits
  <2>6. CASE ToolStarts \/ ToolEnds
    BY <2>6 DEF ToolStarts, ToolEnds, Thinking, FaceInv, FaceFits
  <2> QED BY <2>2, <2>3, <2>4, <2>5, <2>6 DEF SpokenNext
<1> QED BY <1>1, <1>2, PTL DEF SpokenSpec

\* The model never hears itself, no answer carries a piece of another, and the face
\* is that of somebody at work while a tool runs, for any length of answer and any
\* tail window (hermes_agent/handler.py).
THEOREM SpeechStaysInStep == SpokenSpec => []SpeechKeepsStep
<1>1. SpokenInv => EchoIsCovered
  BY SpokenAssumption DEF SpokenInv, SpokenTypes, HorizonIsFar, EchoIsCovered, AllowInput, Speaking, UnderWay,
     SpokenAssumption
<1>2. SpokenInv => NothingCarriedOver
  BY DEF SpokenInv, SpokenTypes, CleanAtTheMark, NothingCarriedOver
<1>3. SpokenInv /\ FaceInv => SpeechKeepsStep
  BY <1>1, <1>2 DEF FaceInv, SpeechKeepsStep
<1> QED BY <1>3, SpeechInvariant, FaceInvariant, PTL

(***************************************************************************)
(* The mouth of the avatar.                                                *)
(***************************************************************************)

\* Shares of the time are whole milliseconds, and a later share begins no earlier.
LEMMA RoundIsNat ==
    ASSUME NEW a \in Nat, NEW b \in Nat \ {0}
    PROVE  RoundHalfUp(a, b) \in Nat
BY DEF RoundHalfUp

\* Rounding half up keeps an order.
LEMMA RoundKeepsOrder ==
    ASSUME NEW a \in Nat, NEW c \in Nat, NEW b \in Nat \ {0}, a <= c
    PROVE  RoundHalfUp(a, b) <= RoundHalfUp(c, b)
<1>1. PICK m \in Nat \ {0} : m = 2 * b
  OBVIOUS
<1>2. PICK x \in Nat : x = 2 * a + b
  OBVIOUS
<1>3. PICK y \in Nat : y = 2 * c + b
  OBVIOUS
<1>4. x <= y
  BY <1>2, <1>3
<1>5. x \div m <= y \div m
  <2>1. PICK q \in Nat : q = x \div m
    OBVIOUS
  <2>2. PICK r \in Nat : r = y \div m
    OBVIOUS
  <2>3. m * q <= x /\ y < m * (r + 1)
    BY <2>1, <2>2
  <2>4. m * q < m * (r + 1)
    <3>1. m * q \in Int /\ m * (r + 1) \in Int
      OBVIOUS
    <3> QED BY <1>4, <2>3, <3>1
  <2>5. q < r + 1
    <3> SUFFICES ASSUME q >= r + 1 PROVE FALSE
      OBVIOUS
    <3>1. m * q >= m * (r + 1)
      OBVIOUS
    <3> QED BY <2>4, <3>1
  <2> QED BY <2>1, <2>2, <2>5
<1> QED BY <1>1, <1>2, <1>3, <1>5 DEF RoundHalfUp

\* Every character's time is a number, and shares of a text come in its order.
LEMMA SharesAreInOrder ==
    ASSUME NEW n \in Nat, NEW text \in [1..n -> Characters], NEW ms \in Nat,
           \E i \in DOMAIN text : text[i] \in Shapes
    PROVE  \A i \in DOMAIN text :
               /\ RoundHalfUp(Cardinality(Before(text, i)) * ms, Cardinality(Mapped(text))) \in Nat
               /\ \A j \in DOMAIN text : i <= j =>
                      RoundHalfUp(Cardinality(Before(text, i)) * ms, Cardinality(Mapped(text)))
                        <= RoundHalfUp(Cardinality(Before(text, j)) * ms, Cardinality(Mapped(text)))
<1>1. IsFiniteSet(1..n) /\ DOMAIN text = 1..n
  BY FS_Interval
<1>2. IsFiniteSet(Mapped(text)) /\ \A i \in 1..n : IsFiniteSet(Before(text, i))
  <2>1. Mapped(text) \subseteq 1..n /\ \A i \in 1..n : Before(text, i) \subseteq 1..n
    BY <1>1 DEF Mapped, Before
  <2> QED BY <1>1, <2>1, FS_Subset
<1>3. Mapped(text) # {}
  BY <1>1, LipAssumption DEF Mapped, None, LipAssumption
<1>4. PICK b \in Nat \ {0} : b = Cardinality(Mapped(text))
  <2>1. Cardinality(Mapped(text)) \in Nat /\ Cardinality(Mapped(text)) # 0
    BY <1>2, <1>3, FS_CardinalityType, FS_EmptySet
  <2> QED BY <2>1
<1>5. ASSUME NEW i \in 1..n, NEW j \in 1..n, i <= j
      PROVE  /\ Cardinality(Before(text, i)) \in Nat /\ Cardinality(Before(text, j)) \in Nat
             /\ Cardinality(Before(text, i)) <= Cardinality(Before(text, j))
  <2>1. Before(text, i) \subseteq Before(text, j)
    BY <1>1, <1>5 DEF Before, Mapped
  <2> QED BY <1>2, <2>1, FS_Subset, FS_CardinalityType
<1>6. ASSUME NEW x \in Nat, NEW y \in Nat, x <= y
      PROVE  x * ms \in Nat /\ y * ms \in Nat /\ x * ms <= y * ms
  <2>1. x * ms \in Nat /\ y * ms \in Nat
    OBVIOUS
  <2>2. x * ms <= y * ms
    BY <1>6
  <2> QED BY <2>1, <2>2
<1>7. ASSUME NEW i \in 1..n, NEW j \in 1..n, i <= j
      PROVE  /\ RoundHalfUp(Cardinality(Before(text, i)) * ms, b) \in Nat
             /\ RoundHalfUp(Cardinality(Before(text, i)) * ms, b)
                  <= RoundHalfUp(Cardinality(Before(text, j)) * ms, b)
  <2>1. PICK x \in Nat : x = Cardinality(Before(text, i))
    BY <1>5, <1>7
  <2>2. PICK y \in Nat : y = Cardinality(Before(text, j))
    BY <1>5, <1>7
  <2>3. x <= y
    BY <1>5, <1>7, <2>1, <2>2
  <2>4. x * ms \in Nat /\ y * ms \in Nat /\ x * ms <= y * ms
    BY <1>6, <2>3
  <2> QED BY <2>1, <2>2, <2>4, RoundIsNat, RoundKeepsOrder
<1>8. \A i \in 1..n : i <= i
  OBVIOUS
<1> QED BY <1>1, <1>4, <1>7, <1>8

Marks == [ms : Nat, shape : Characters]

LipTypes ==
    /\ characters \in Seq(Characters) /\ startMs \in [1..Len(characters) -> Nat]
    /\ walked \in 0..Len(characters) /\ previous \in Characters
    /\ kept \in Seq(Marks)

Sound(i) == characters[i] # None

\* The choices of Worn and Spoken, as facts.
IsWorn(k, t) == kept[k].ms <= t /\ \A l \in DOMAIN kept : kept[l].ms <= t => l <= k
IsSpoken(b, t) ==
    /\ Sound(b) /\ startMs[b] <= t
    /\ \A l \in 1..walked : Sound(l) /\ startMs[l] <= t => l <= b

\* FollowsTheText leaves out what the walk carries along: the last mark is the shape of
\* the last sound, and no mark is later than a character still to come.
WalkInv ==
    /\ LipTypes /\ StrictlyIncreasing
    /\ IF kept = <<>> THEN previous = None /\ \A i \in 1..walked : ~Sound(i)
       ELSE previous # None /\ kept[Len(kept)].shape = previous
    /\ InOrder =>
           /\ \A k \in DOMAIN kept, i \in (walked + 1)..Len(characters) : kept[k].ms <= startMs[i]
           /\ \A i \in 1..walked : Sound(i) =>
                  \E k \in DOMAIN kept, b \in 1..walked :
                      /\ IsWorn(k, startMs[i]) /\ IsSpoken(b, startMs[i])
                      /\ kept[k].shape = characters[b]

\* No marks, for whatever text.
LEMMA LipsBegin == LipInit => WalkInv
<1> SUFFICES ASSUME LipInit PROVE WalkInv
  OBVIOUS
<1>1. characters \in Seq(Characters) /\ startMs \in [1..Len(characters) -> Nat]
  <2>1. CASE Estimate
    <3>1. PICK n \in 1..MaxChars : \E text \in [1..n -> Characters] : \E ms \in 1..MaxMs :
              /\ \E i \in DOMAIN text : text[i] \in Shapes
              /\ characters = text
              /\ startMs = [i \in DOMAIN text |->
                     RoundHalfUp(Cardinality(Before(text, i)) * ms, Cardinality(Mapped(text)))]
      BY <2>1 DEF Estimate
    <3>2. PICK text \in [1..n -> Characters], ms \in 1..MaxMs :
              /\ \E i \in DOMAIN text : text[i] \in Shapes
              /\ characters = text
              /\ startMs = [i \in DOMAIN text |->
                     RoundHalfUp(Cardinality(Before(text, i)) * ms, Cardinality(Mapped(text)))]
      BY <3>1
    <3>3. n \in Nat /\ ms \in Nat
      BY LipAssumption DEF LipAssumption
    <3>4. \A i \in DOMAIN text :
              RoundHalfUp(Cardinality(Before(text, i)) * ms, Cardinality(Mapped(text))) \in Nat
      BY <3>2, <3>3, SharesAreInOrder
    <3>5. characters \in Seq(Characters) /\ Len(characters) = n /\ DOMAIN text = 1..n
      BY <3>2, <3>3
    <3> QED BY <3>2, <3>4, <3>5
  <2>2. CASE Alignment
    <3>1. PICK n \in 1..MaxChars : characters \in [1..n -> Characters] /\ startMs \in [1..n -> 0..MaxMs]
      BY <2>2 DEF Alignment
    <3>2. characters \in Seq(Characters) /\ Len(characters) = n
      BY <3>1, LipAssumption DEF LipAssumption
    <3>3. 0..MaxMs \subseteq Nat
      BY LipAssumption DEF LipAssumption
    <3> QED BY <3>1, <3>2, <3>3
  <2> QED BY <2>1, <2>2 DEF LipInit
<1>2. walked = 0 /\ previous = None /\ kept = <<>>
  BY DEF LipInit
<1>3. LipTypes
  BY <1>1, <1>2 DEF LipTypes, Characters
<1>4. DOMAIN kept = {} /\ 1..walked = {} /\ 1..(Len(kept) - 1) = {}
  BY <1>2
<1> QED BY <1>2, <1>3, <1>4 DEF WalkInv, StrictlyIncreasing

\* A shape adds a mark, or takes the place of the last, or is worn already.
LEMMA LipsWalk == WalkInv /\ Walk => WalkInv'
<1> SUFFICES ASSUME WalkInv, Walk PROVE WalkInv'
  OBVIOUS
<1>1. PICK j \in Nat : j = walked + 1 /\ j \in 1..Len(characters) /\ walked' = j
  BY DEF Walk, WalkInv, LipTypes
<1>2. PICK c \in Characters : c = characters[j]
  BY <1>1 DEF WalkInv, LipTypes
<1>3. PICK ms \in Nat : ms = startMs[j]
  BY <1>1 DEF WalkInv, LipTypes
<1>4. UNCHANGED <<characters, startMs>> /\ walked \in Nat /\ Len(characters) \in Nat
  BY DEF Walk, WalkInv, LipTypes
<1>5. InOrder' = InOrder
  BY <1>4 DEF InOrder
<1>6. \A i \in 1..j : i \in 1..walked \/ i = j
  BY <1>1, <1>4
<1>7. CASE c = None
  <2>1. UNCHANGED <<previous, kept>>
    BY <1>1, <1>2, <1>7 DEF Walk
  <2>2. \A i \in 1..j : Sound(i)' => i \in 1..walked /\ Sound(i)
    BY <1>2, <1>4, <1>6, <1>7 DEF Sound
  <2>3. LipTypes' /\ StrictlyIncreasing'
    BY <1>1, <1>4, <2>1 DEF WalkInv, LipTypes, StrictlyIncreasing
  <2>4. \A i \in (j + 1)..Len(characters) : i \in (walked + 1)..Len(characters)
    BY <1>1, <1>4
  <2>5. \A b \in 1..walked, t \in Nat : IsSpoken(b, t) => IsSpoken(b, t)'
    BY <1>1, <1>4, <2>2 DEF IsSpoken, Sound
  <2>6. \A i \in 1..walked : startMs[i] \in Nat /\ i \in 1..j
    BY <1>1, <1>4 DEF WalkInv, LipTypes
  <2>7. \A k, t : IsWorn(k, t)' <=> IsWorn(k, t)
    BY <2>1 DEF IsWorn
  <2>8. ASSUME InOrder, NEW i \in 1..j, Sound(i)'
        PROVE  \E k \in DOMAIN kept, b \in 1..j :
                   /\ IsWorn(k, startMs[i])' /\ IsSpoken(b, startMs[i])'
                   /\ kept'[k].shape = characters'[b]
    <3>1. i \in 1..walked /\ Sound(i)
      BY <2>2, <2>8
    <3>2. PICK k \in DOMAIN kept, b \in 1..walked :
              IsWorn(k, startMs[i]) /\ IsSpoken(b, startMs[i]) /\ kept[k].shape = characters[b]
      BY <2>8, <3>1 DEF WalkInv
    <3>3. PICK t \in Nat : t = startMs[i] /\ startMs'[i] = t
      BY <1>4, <2>6, <3>1
    <3>4. IsWorn(k, t)' /\ IsSpoken(b, t)'
      BY <2>5, <2>7, <3>2, <3>3
    <3> QED BY <1>4, <2>1, <2>6, <3>2, <3>3, <3>4
  <2> QED BY <1>1, <1>4, <1>5, <2>1, <2>2, <2>3, <2>4, <2>8 DEF WalkInv
<1>8. CASE c # None
  <2>1. PICK n \in Nat : n = Len(kept) /\ DOMAIN kept = 1..n
    BY DEF WalkInv, LipTypes
  <2>2. /\ \A k \in 1..n : kept[k].ms \in Nat /\ kept[k].shape \in Characters
        /\ \A k \in 1..(n - 1) : kept[k].ms < kept[k + 1].ms
    <3>1. \A k \in 1..n : kept[k] \in Marks
      BY <2>1 DEF WalkInv, LipTypes
    <3>2. \A k \in 1..n : kept[k].ms \in Nat /\ kept[k].shape \in Characters
      BY <3>1 DEF Marks
    <3>3. \A k \in 1..(n - 1) : kept[k].ms < kept[k + 1].ms
      BY <2>1 DEF WalkInv, StrictlyIncreasing
    <3> QED BY <3>2, <3>3
  \* The row of marks after the step: longer, its last one changed, or as it was.
  <2>3. \/ c = previous /\ UNCHANGED <<previous, kept>> /\ n >= 1
        \/ \E mark \in Marks :
               /\ mark.shape = c /\ previous' = c
               /\ \/ n >= 1 /\ ms <= kept[n].ms /\ mark.ms = kept[n].ms /\ c # previous
                     /\ kept' = [kept EXCEPT ![n] = mark]
                  \/ mark.ms = ms /\ kept' = Append(kept, mark) /\ (n >= 1 => kept[n].ms < ms)
    <3>1. n >= 1 <=> kept # <<>>
      BY <2>1 DEF WalkInv, LipTypes
    <3>2. CASE c = previous
      BY <1>1, <1>2, <1>8, <3>1, <3>2 DEF Walk, WalkInv
    <3>3. CASE c # previous /\ n >= 1 /\ ms <= kept[n].ms
      <4>1. kept' = LaterWins(c) /\ previous' = c
        BY <1>1, <1>2, <1>3, <1>8, <2>1, <3>1, <3>3 DEF Walk
      <4>2. kept[n] \in Marks
        BY <2>1, <3>3 DEF WalkInv, LipTypes
      <4>3. kept' = [kept EXCEPT ![n] = [kept[n] EXCEPT !.shape = c]]
        BY <2>1, <4>1 DEF LaterWins
      <4>4. [kept[n] EXCEPT !.shape = c] = [ms |-> kept[n].ms, shape |-> c]
        BY <4>2 DEF Marks
      <4>5. [ms |-> kept[n].ms, shape |-> c] \in Marks
        BY <2>2, <3>3 DEF Marks
      <4>6. PICK mark \in Marks : mark = [ms |-> kept[n].ms, shape |-> c]
        BY <4>5
      <4> QED BY <3>3, <4>1, <4>3, <4>4, <4>6
    <3>4. CASE c # previous /\ ~(n >= 1 /\ ms <= kept[n].ms)
      <4>1. PICK mark \in Marks : mark = [ms |-> ms, shape |-> c]
        BY DEF Marks
      <4>2. kept' = Append(kept, mark) /\ previous' = c
        BY <1>1, <1>2, <1>3, <1>8, <2>1, <3>1, <3>4, <4>1 DEF Walk
      <4>3. n >= 1 => kept[n].ms < ms
        BY <2>2, <3>4
      <4> QED BY <4>1, <4>2, <4>3
    <3> QED BY <3>2, <3>3, <3>4
  <2>4. PICK size \in Nat :
        /\ size = Len(kept') /\ DOMAIN kept' = 1..size
        /\ kept' \in Seq(Marks) /\ previous' = c
        /\ size >= 1 /\ kept'[size].shape = c
        /\ \A k \in 1..(size - 1) : k \in 1..n /\ kept'[k] = kept[k]
        /\ \/ size = n /\ kept'[n].ms = kept[n].ms
           \/ size = n + 1 /\ kept'[size].ms = ms /\ (n >= 1 => kept[n].ms < ms)
    <3>1. CASE c = previous /\ UNCHANGED <<previous, kept>> /\ n >= 1
      <4>1. kept[n].shape = c
        BY <2>1, <3>1 DEF WalkInv
      <4> QED BY <2>1, <3>1, <4>1 DEF WalkInv, LipTypes
    <3>2. ASSUME NEW mark \in Marks, mark.shape = c, previous' = c, n >= 1,
                 mark.ms = kept[n].ms, kept' = [kept EXCEPT ![n] = mark]
          PROVE  /\ n = Len(kept') /\ DOMAIN kept' = 1..n
                 /\ kept' \in Seq(Marks) /\ previous' = c
                 /\ kept'[n].shape = c /\ kept'[n].ms = kept[n].ms
                 /\ \A k \in 1..(n - 1) : k \in 1..n /\ kept'[k] = kept[k]
      BY <2>1, <3>2 DEF WalkInv, LipTypes
    <3>3. ASSUME NEW mark \in Marks, mark.shape = c, previous' = c, mark.ms = ms,
                 kept' = Append(kept, mark), n >= 1 => kept[n].ms < ms
          PROVE  /\ n + 1 = Len(kept') /\ DOMAIN kept' = 1..(n + 1)
                 /\ kept' \in Seq(Marks) /\ previous' = c
                 /\ kept'[n + 1].shape = c /\ kept'[n + 1].ms = ms
                 /\ \A k \in 1..n : kept'[k] = kept[k]
      BY <2>1, <3>3 DEF WalkInv, LipTypes
    <3>4. n + 1 \in Nat /\ n + 1 >= 1 /\ n + 1 - 1 = n
      OBVIOUS
    <3> QED BY <2>3, <3>1, <3>2, <3>3, <3>4
  <2>5. /\ kept' # <<>>
        /\ \A k \in 1..size : kept'[k].ms \in Nat
        /\ \A k \in 1..(size - 1) : kept'[k].ms < kept'[k + 1].ms
    <3>1. kept' # <<>> /\ \A k \in 1..size : kept'[k].ms \in Nat
      <4>1. \A k \in 1..size : kept'[k] \in Marks
        BY <2>4
      <4> QED BY <2>4, <4>1 DEF Marks
    <3>2. ASSUME NEW k \in 1..(size - 1) PROVE kept'[k].ms < kept'[k + 1].ms
      <4>1. CASE k + 1 = size
        BY <2>2, <2>4, <4>1
      <4>2. CASE k + 1 # size
        <5>1. k + 1 \in 1..(size - 1) /\ k \in 1..(n - 1)
          BY <2>4, <4>2
        <5> QED BY <2>2, <2>4, <5>1
      <4> QED BY <4>1, <4>2
    <3> QED BY <3>1, <3>2
  <2>6. LipTypes' /\ StrictlyIncreasing'
    BY <1>1, <1>4, <2>4, <2>5 DEF WalkInv, LipTypes, StrictlyIncreasing
  <2>7. ASSUME InOrder
        PROVE  /\ \A k \in 1..n : kept[k].ms <= ms
               /\ \A i \in 1..j : startMs[i] <= ms
               /\ \A i \in (j + 1)..Len(characters) : ms <= startMs[i]
    <3>1. \A k \in 1..n : kept[k].ms <= ms
      BY <1>1, <1>3, <2>1, <2>7 DEF WalkInv
    <3>2. DOMAIN characters = 1..Len(characters)
      BY DEF WalkInv, LipTypes
    <3>3. \A i \in 1..j : startMs[i] <= ms
      BY <1>1, <1>3, <2>7, <3>2 DEF InOrder
    <3>4. \A i \in (j + 1)..Len(characters) : ms <= startMs[i]
      BY <1>1, <1>3, <2>7, <3>2 DEF InOrder
    <3> QED BY <3>1, <3>3, <3>4
  <2>8. ASSUME InOrder PROVE \A k \in 1..size : kept'[k].ms <= ms
    <3> SUFFICES ASSUME NEW k \in 1..size PROVE kept'[k].ms <= ms
      OBVIOUS
    <3>1. CASE k = size
      BY <2>2, <2>4, <2>7, <2>8, <3>1
    <3>2. CASE k # size
      <4>1. k \in 1..(size - 1)
        BY <2>4, <3>2
      <4>2. k \in 1..n /\ kept'[k] = kept[k]
        BY <2>4, <4>1
      <4> QED BY <2>7, <2>8, <4>2
    <3> QED BY <3>1, <3>2
  <2>9. ASSUME InOrder, NEW i \in (j + 1)..Len(characters), NEW k \in 1..size
        PROVE  kept'[k].ms <= startMs[i]
    <3>1. kept'[k].ms <= ms /\ ms <= startMs[i] /\ kept'[k].ms \in Nat
      BY <2>5, <2>7, <2>8, <2>9
    <3>2. startMs[i] \in Nat
      BY <1>1, <1>4 DEF WalkInv, LipTypes
    <3> QED BY <3>1, <3>2
  \* The new character is heard at its time, and at that of those that begin with it.
  <2>10. ASSUME InOrder PROVE IsWorn(size, ms)' /\ IsSpoken(j, ms)'
    <3>1. IsWorn(size, ms)'
      BY <2>4, <2>8, <2>10 DEF IsWorn
    <3>2. IsSpoken(j, ms)'
      BY <1>1, <1>2, <1>3, <1>4, <1>8 DEF IsSpoken, Sound
    <3> QED BY <3>1, <3>2
  \* What is heard before it stays.
  <2>11. ASSUME InOrder, NEW t \in Nat, t < ms, NEW k \in 1..n, IsWorn(k, t)
         PROVE  k \in 1..size /\ IsWorn(k, t)' /\ kept'[k].shape = kept[k].shape
    <3>1. CASE size = n + 1
      <4>1. kept'[k] = kept[k] /\ k \in 1..size
        BY <2>4, <3>1
      <4>2. ~(kept'[size].ms <= t) /\ \A l \in 1..size : l = size \/ (l \in 1..n /\ kept'[l] = kept[l])
        BY <2>4, <2>11, <3>1
      <4> QED BY <2>1, <2>4, <2>11, <4>1, <4>2 DEF IsWorn
    <3>2. CASE size = n /\ kept'[n].ms = kept[n].ms
      <4>1. \A l \in 1..n : kept'[l].ms = kept[l].ms
        BY <2>4, <3>2
      <4>2. IsWorn(k, t)'
        BY <2>1, <2>4, <2>11, <3>2, <4>1 DEF IsWorn
      <4>3. CASE k = n /\ c # previous
        <5>1. ms <= kept[n].ms
          BY <1>1, <1>2, <1>3, <1>8, <2>1, <2>4, <3>2, <4>3 DEF Walk, WalkInv, LipTypes
        <5>2. kept[n].ms <= t /\ kept[n].ms \in Nat
          BY <2>2, <2>11, <4>3 DEF IsWorn
        <5> QED BY <2>11, <5>1, <5>2
      <4>4. CASE k = n /\ c = previous
        <5>1. kept' = kept
          BY <1>1, <1>2, <4>4 DEF Walk
        <5> QED BY <3>2, <4>2, <5>1
      <4>5. CASE k # n
        BY <2>4, <3>2, <4>2, <4>5
      <4> QED BY <4>3, <4>4, <4>5
    <3> QED BY <2>4, <3>1, <3>2
  <2>12. ASSUME InOrder, NEW t \in Nat, t < ms, NEW b \in 1..walked, IsSpoken(b, t)
         PROVE  IsSpoken(b, t)'
    BY <1>1, <1>3, <1>4, <1>6, <2>12 DEF IsSpoken, Sound
  <2>13. ASSUME InOrder, NEW i \in 1..j, Sound(i)'
         PROVE  \E k \in 1..size, b \in 1..j :
                    /\ IsWorn(k, startMs[i])' /\ IsSpoken(b, startMs[i])'
                    /\ kept'[k].shape = characters'[b]
    <3>1. PICK t \in Nat : t = startMs[i] /\ t = startMs'[i] /\ t <= ms
      BY <1>1, <1>4, <2>7, <2>13 DEF WalkInv, LipTypes
    <3>2. CASE t = ms
      <4>1. size \in 1..size /\ j \in 1..j /\ kept'[size].shape = characters'[j]
        BY <1>1, <1>2, <1>4, <2>4
      <4> QED BY <2>10, <2>13, <3>1, <3>2, <4>1
    <3>3. CASE t < ms
      <4>1. i \in 1..walked /\ Sound(i)
        BY <1>3, <1>4, <1>6, <2>13, <3>1, <3>3 DEF Sound
      <4>2. PICK k \in DOMAIN kept, b \in 1..walked :
                IsWorn(k, t) /\ IsSpoken(b, t) /\ kept[k].shape = characters[b]
        BY <2>13, <3>1, <4>1 DEF WalkInv
      <4>3. k \in 1..size /\ IsWorn(k, t)' /\ kept'[k].shape = kept[k].shape
        BY <2>1, <2>11, <2>13, <3>3, <4>2
      <4>4. IsSpoken(b, t)' /\ b \in 1..j
        BY <1>1, <1>4, <2>12, <2>13, <3>3, <4>2
      <4> QED BY <1>4, <3>1, <4>2, <4>3, <4>4
    <3> QED BY <3>1, <3>2, <3>3
  <2>14. previous' # None /\ kept'[Len(kept')].shape = previous'
    BY <1>8, <2>4
  <2>15. InOrder =>
            /\ \A k \in DOMAIN kept', i \in (j + 1)..Len(characters) : kept'[k].ms <= startMs[i]
            /\ \A i \in 1..j : Sound(i)' =>
                   \E k \in DOMAIN kept', b \in 1..j :
                       /\ IsWorn(k, startMs[i])' /\ IsSpoken(b, startMs[i])'
                       /\ kept'[k].shape = characters'[b]
    BY <2>4, <2>9, <2>13
  <2> QED BY <1>1, <1>4, <1>5, <2>5, <2>6, <2>14, <2>15 DEF WalkInv
<1> QED BY <1>7, <1>8

\* Every step of the walk keeps it (lipsync.py, _timeline).
THEOREM WalkInvariant == LipSpec => []WalkInv
<1>1. WalkInv /\ UNCHANGED lipVars => WalkInv'
  <2> SUFFICES ASSUME WalkInv, UNCHANGED lipVars PROVE WalkInv'
    OBVIOUS
  <2>1. UNCHANGED <<characters, startMs, walked, previous, kept>>
    BY DEF lipVars
  <2>2. LipTypes' /\ StrictlyIncreasing'
    BY <2>1 DEF WalkInv, LipTypes, StrictlyIncreasing
  <2>3. (InOrder' <=> InOrder) /\ \A i : Sound(i)' <=> Sound(i)
    BY <2>1 DEF InOrder, Sound
  <2>4. \A k, t : (IsWorn(k, t)' <=> IsWorn(k, t)) /\ (IsSpoken(k, t)' <=> IsSpoken(k, t))
    BY <2>1, <2>3 DEF IsWorn, IsSpoken
  <2> QED BY <2>1, <2>2, <2>3, <2>4 DEF WalkInv
<1> QED BY <1>1, LipsBegin, LipsWalk, PTL DEF LipSpec

\* A timeline of any text is strictly increasing, whatever times the provider gave,
\* and at the time of each sound the mouth wears the last one begun (lipsync.py).
THEOREM MouthFollows == LipSpec => []MouthFollowsText
<1>1. WalkInv => FollowsTheText
  <2> SUFFICES ASSUME WalkInv, InOrder, NEW i \in 1..walked, characters[i] # None
               PROVE  Worn(startMs[i]) = Spoken(startMs[i])
    BY DEF FollowsTheText
  <2>1. PICK k \in DOMAIN kept, b \in 1..walked :
            IsWorn(k, startMs[i]) /\ IsSpoken(b, startMs[i]) /\ kept[k].shape = characters[b]
    BY DEF WalkInv, Sound
  <2>2. PICK t : t = startMs[i]
    OBVIOUS
  <2>3. Worn(t) = kept[k].shape
    <3>1. \A l \in DOMAIN kept : (kept[l].ms <= t /\ \A m \in DOMAIN kept : kept[m].ms <= t => m <= l) => l = k
      BY <2>1, <2>2 DEF IsWorn, WalkInv, LipTypes
    <3> QED BY <2>1, <2>2, <3>1 DEF Worn, IsWorn
  <2>4. Spoken(t) = characters[b]
    <3> DEFINE begun == {l \in 1..walked : characters[l] # None /\ startMs[l] <= t}
    <3>1. b \in begun /\ \A l \in begun : l <= b
      BY <2>1, <2>2 DEF IsSpoken, Sound
    <3>2. \A l \in begun : (\A m \in begun : m <= l) => l = b
      BY <3>1
    <3> QED BY <3>1, <3>2 DEF Spoken
  <2> QED BY <2>1, <2>2, <2>3, <2>4
<1>2. WalkInv => MouthFollowsText
  BY <1>1 DEF WalkInv, MouthFollowsText
<1> QED BY <1>2, WalkInvariant, PTL

\* What is estimated from the words alone is in order, so that the mouth follows it
\* without a condition (lipsync.py, estimate_visemes).
THEOREM EstimateIsInOrder == Estimate => InOrder
<1> SUFFICES ASSUME Estimate PROVE InOrder
  OBVIOUS
<1>1. PICK n \in 1..MaxChars : \E text \in [1..n -> Characters] : \E ms \in 1..MaxMs :
          /\ \E i \in DOMAIN text : text[i] \in Shapes
          /\ characters = text
          /\ startMs = [i \in DOMAIN text |->
                 RoundHalfUp(Cardinality(Before(text, i)) * ms, Cardinality(Mapped(text)))]
  BY DEF Estimate
<1>2. PICK text \in [1..n -> Characters], ms \in 1..MaxMs :
          /\ \E i \in DOMAIN text : text[i] \in Shapes
          /\ characters = text
          /\ startMs = [i \in DOMAIN text |->
                 RoundHalfUp(Cardinality(Before(text, i)) * ms, Cardinality(Mapped(text)))]
  BY <1>1
<1>3. n \in Nat /\ ms \in Nat
  BY LipAssumption DEF LipAssumption
<1>4. \A i, k \in DOMAIN text : i < k =>
          RoundHalfUp(Cardinality(Before(text, i)) * ms, Cardinality(Mapped(text)))
            <= RoundHalfUp(Cardinality(Before(text, k)) * ms, Cardinality(Mapped(text)))
  <2>1. DOMAIN text = 1..n
    OBVIOUS
  <2>2. \A i, k \in DOMAIN text : i < k => i <= k
    BY <2>1
  <2> QED BY <1>2, <1>3, <2>2, SharesAreInOrder
<1> QED BY <1>2, <1>4 DEF InOrder
=============================================================================
