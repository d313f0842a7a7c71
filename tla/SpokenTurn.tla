------------------------------ MODULE SpokenTurn ------------------------------
(***************************************************************************)
(* An answer of the realtime model on its way to the caller's ear: cut     *)
(* into wire frames, sent, timed for the echo guard and for the mouth of   *)
(* the avatar, and dropped when the caller interrupts.  The provider's     *)
(* events are handled one after the other; the call's goodbye and the      *)
(* tools run in tasks of their own beside them.                            *)
(*                                                                         *)
(* A frame is two pieces of audio and plays for one tick.                  *)
(***************************************************************************)
EXTENDS Integers, Sequences

CONSTANTS
    TailWindow,   \* tail_window_ms, in ticks
    MaxAnswers, MaxDelta, MaxPut, MaxPlayTime

ASSUME SpokenAssumption == TailWindow \in Nat /\ MaxDelta \in Nat

VARIABLES
    answerNo,     \* the response the provider's events belong to
    loop,         \* "idle", "sending", "flushing", "marking" or "cutting"
    toSend,       \* the frames of this delta, the first under way: whose audio each holds
    residual,     \* the aligner's held-back piece: the response it belongs to
    dropping,     \* _drop_response
    mouth,        \* frames counted for the viseme timeline
    replyText,    \* the responses whose words are held in _reply_text
    playing,      \* frames StandIn has still to play
    playTime,
    playoutEnd,   \* when the guard thinks they have been played
    callerSpoke,  \* _first_turn
    goodbye,      \* "none", "cancelling" or "said"
    toolRuns,     \* a tool of the model runs
    face,         \* the emotion sent last
    hungUp,       \* _closed
    put,          \* history: the frames of this response handed over
    ringing,      \* history: ticks left in which what has played may come back
    cutTail,      \* history: it is the tail of what a cut has stopped
    slipped       \* history: audio went out while a goodbye was cutting it

wireVars == <<toSend, residual, put>>
guardVars == <<playoutEnd, callerSpoke>>
mouthVars == <<mouth, replyText>>
faceVars == <<toolRuns, face>>
playerVars == <<playing, ringing, cutTail, slipped>>
spokenVars == <<answerNo, loop, wireVars, dropping, mouthVars, playerVars, playTime,
                guardVars, goodbye, faceVars, hungUp>>

SpokenInit ==
    /\ answerNo = 1 /\ loop = "idle"
    /\ toSend = <<>> /\ residual = <<>> /\ put = 0
    /\ dropping = FALSE
    /\ mouth = 0 /\ replyText = {}
    /\ playing = 0 /\ ringing = 0 /\ cutTail = FALSE /\ slipped = FALSE
    /\ playTime = TailWindow /\ playoutEnd = 0 /\ callerSpoke = FALSE
    /\ goodbye = "none"
    /\ toolRuns = FALSE /\ face = "none"
    /\ hungUp = FALSE

-----------------------------------------------------------------------------
(* The echo guard. *)

\* Mutant: the old horizon is added to even after a gap in speaking.
AddsBare == playoutEnd' = playoutEnd + 1

\* A frame's time, from now or from the end of what is being played.
NoteOutput == playoutEnd' = (IF playTime > playoutEnd THEN playTime ELSE playoutEnd) + 1

Collapse == playoutEnd' = playTime - TailWindow

Speaking == playTime < playoutEnd + TailWindow

\* Whether the caller's frame reaches the model (on_caller_audio).
AllowInput(loud) == Speaking => callerSpoke /\ loud

-----------------------------------------------------------------------------
(* The provider's events, one at a time. *)

Listening == loop = "idle" /\ ~hungUp

\* send_audio: the frame goes out, or is shed because the peer does not read.
Put ==
    /\ put' = put + 1
    /\ \/ UNCHANGED <<playing, slipped>>
       \/ /\ playing' = playing + 1
          /\ slipped' = (slipped \/ goodbye = "cancelling")
    /\ UNCHANGED <<ringing, cutTail>>

\* FrameAligner.push: whole frames, and the rest is kept.
Push(n) ==
    LET held == residual \o [i \in 1..n |-> answerNo]
        whole == Len(held) \div 2
    IN  /\ toSend' = [k \in 1..whole |-> {held[2 * k - 1], held[2 * k]}]
        /\ residual' = SubSeq(held, 2 * whole + 1, Len(held))

\* FrameAligner.flush: the rest is padded to a whole frame.
FlushAligner == residual' = <<>>

\* TurnLipSync: a frame is counted; a turn's timeline takes the count.
AudioSent == mouth' = mouth + 1
Finish == mouth' = 0

\* A delta of the model's voice (_on_model_audio).
ModelAudio(n) ==
    /\ Listening /\ ~dropping /\ put + n <= MaxPut
    /\ Push(n)
    /\ IF toSend' = <<>> THEN UNCHANGED <<loop, put, playerVars>>
                         ELSE loop' = "sending" /\ Put
    /\ UNCHANGED <<answerNo, dropping, mouthVars, playTime, guardVars, goodbye,
                   faceVars, hungUp>>

ResetAligner == residual' = <<>>

\* The egress drop: nothing of a refused turn is sent or kept.
DropsAudio ==
    /\ Listening /\ dropping
    /\ ResetAligner
    /\ UNCHANGED <<answerNo, loop, toSend, put, dropping, mouthVars, playerVars,
                   playTime, guardVars, goodbye, faceVars, hungUp>>

\* The frame is counted for the mouth and the guard, and the next one follows.
FrameSent ==
    /\ loop = "sending"
    /\ AudioSent /\ NoteOutput
    /\ toSend' = Tail(toSend)
    /\ IF toSend' = <<>> THEN loop' = "idle" /\ UNCHANGED <<put, playerVars>>
                         ELSE Put /\ UNCHANGED loop
    /\ UNCHANGED <<answerNo, residual, dropping, replyText, playTime, callerSpoke,
                   goodbye, faceVars, hungUp>>

\* One timeline per turn: the words and the count are taken.
SendVisemes == Finish /\ replyText' = {}

\* The answer is over: its last word is padded to a frame (_on_response_done).
Done ==
    /\ Listening
    /\ FlushAligner
    /\ IF residual # <<>> /\ ~dropping THEN loop' = "flushing" /\ Put /\ UNCHANGED mouthVars
       ELSE loop' = "marking" /\ SendVisemes /\ UNCHANGED <<put, playerVars>>
    /\ UNCHANGED <<answerNo, toSend, dropping, playTime, guardVars, goodbye, faceVars,
                   hungUp>>

\* The padded frame has gone out.
TailSent ==
    /\ loop = "flushing" /\ loop' = "marking"
    /\ NoteOutput /\ SendVisemes
    /\ UNCHANGED <<answerNo, wireVars, dropping, playerVars, playTime, callerSpoke,
                   goodbye, faceVars, hungUp>>

MarksSent ==
    /\ loop = "marking" /\ loop' = "idle"
    /\ dropping' = FALSE
    /\ answerNo' = answerNo + 1 /\ put' = 0
    /\ UNCHANGED <<toSend, residual, mouthVars, playerVars, playTime, guardVars,
                   goodbye, faceVars, hungUp>>

\* ExpressionCue.cue: the thinking face holds while a tool runs.
Cue(emotion) == face' = IF toolRuns THEN face ELSE emotion

\* Words of the answer, read for the face (_on_reply_text).
HearsWords(emotion) ==
    /\ Listening /\ ~dropping
    /\ replyText' = replyText \cup {answerNo}
    /\ Cue(emotion)
    /\ UNCHANGED <<answerNo, loop, wireVars, dropping, mouth, playerVars, playTime,
                   guardVars, goodbye, toolRuns, hungUp>>

\* StandIn drops the audio it has not played; what has played may still come back.
CancelPlayback ==
    /\ playing' = 0
    /\ ringing' = IF playing > 0 THEN TailWindow ELSE ringing
    /\ cutTail' = (ringing' > 0)
    /\ slipped' = FALSE

\* The caller speaks over us, or said to stop; then the answer is refused too.
CallerCutsIn ==
    /\ Listening /\ loop' = "cutting"
    /\ CancelPlayback
    /\ \/ UNCHANGED <<dropping, callerSpoke>>
       \/ dropping' = TRUE /\ callerSpoke' = TRUE
    /\ UNCHANGED <<answerNo, wireVars, mouthVars, playTime, playoutEnd, goodbye,
                   faceVars, hungUp>>

\* The rest of _cut_playback, once StandIn has been told.
Cut ==
    /\ loop = "cutting" /\ loop' = "idle"
    /\ ResetAligner
    /\ mouth' = 0 /\ replyText' = {}
    /\ Collapse /\ callerSpoke' = TRUE
    /\ UNCHANGED <<answerNo, toSend, put, dropping, playerVars, playTime, goodbye,
                   faceVars, hungUp>>

\* What the caller said is addressed to us, or it is not (_on_input_transcript).
Decides(respond) ==
    /\ Listening
    /\ dropping' = ~respond /\ callerSpoke' = TRUE
    /\ UNCHANGED <<answerNo, loop, wireVars, mouthVars, playerVars, playTime,
                   playoutEnd, goodbye, faceVars, hungUp>>

-----------------------------------------------------------------------------
(* Beside them. *)

\* on_goodbye, which leaves the mouth and the words alone.
Goodbye ==
    /\ goodbye = "none" /\ ~hungUp /\ goodbye' = "cancelling"
    /\ CancelPlayback
    /\ UNCHANGED <<answerNo, loop, wireVars, dropping, mouthVars, playTime, guardVars,
                   faceVars, hungUp>>

GoodbyeCut ==
    /\ goodbye = "cancelling" /\ goodbye' = "said"
    /\ ResetAligner /\ Collapse /\ dropping' = FALSE
    /\ UNCHANGED <<answerNo, loop, toSend, put, mouthVars, playerVars, playTime,
                   callerSpoke, faceVars, hungUp>>

\* ExpressionCue.thinking.
Thinking(on) ==
    /\ toolRuns' = on
    /\ face' = IF on THEN "thinking" ELSE IF face = "thinking" THEN "neutral" ELSE face

\* _on_function_call; the batches run one after the other.
ToolStarts ==
    /\ ~toolRuns /\ ~hungUp /\ Thinking(TRUE)
    /\ UNCHANGED <<answerNo, loop, wireVars, dropping, mouthVars, playerVars, playTime,
                   guardVars, goodbye, hungUp>>

\* It returns or raises.
ToolEnds ==
    /\ toolRuns /\ Thinking(FALSE)
    /\ UNCHANGED <<answerNo, loop, wireVars, dropping, mouthVars, playerVars, playTime,
                   guardVars, goodbye, hungUp>>

HandlerCloses ==
    /\ ~hungUp /\ hungUp' = TRUE
    /\ UNCHANGED <<answerNo, loop, wireVars, dropping, mouthVars, playerVars, playTime,
                   guardVars, goodbye, faceVars>>

\* A tick of StandIn's player and of the monotonic clock.
Plays ==
    /\ playTime < MaxPlayTime /\ playTime' = playTime + 1
    /\ playing' = IF playing > 0 THEN playing - 1 ELSE 0
    /\ ringing' = IF playing = 1 THEN TailWindow
                  ELSE IF ringing > 0 THEN ringing - 1 ELSE 0
    /\ cutTail' = (cutTail /\ playing # 1 /\ ringing' > 0)
    /\ slipped' = (slipped /\ playing' + ringing' > 0)
    /\ UNCHANGED <<answerNo, loop, wireVars, dropping, mouthVars, guardVars, goodbye,
                   faceVars, hungUp>>

SpokenNext ==
    \/ \E n \in 1..MaxDelta : ModelAudio(n)
    \/ DropsAudio \/ FrameSent \/ TailSent
    \/ (answerNo < MaxAnswers /\ Done) \/ MarksSent
    \/ \E emotion \in {"neutral", "happy"} : HearsWords(emotion)
    \/ CallerCutsIn \/ Cut \/ \E respond \in BOOLEAN : Decides(respond)
    \/ Goodbye \/ GoodbyeCut \/ ToolStarts \/ ToolEnds \/ HandlerCloses \/ Plays

SpokenSpec == SpokenInit /\ [][SpokenNext]_spokenVars

-----------------------------------------------------------------------------
\* The model does not hear itself: as long as our own audio plays or may still
\* come back, what the caller's line carries at an echo's loudness is held back.
\* Not covered: the frame being sent, which is timed after it went out; the tail of
\* an answer that was cut, because the cut opens the guard at once for the words the
\* caller interrupts with; and a frame sent while the goodbye was cutting, whose
\* time is forgotten by the collapse.
EchoIsCovered ==
    (playing > 0 \/ (ringing > 0 /\ ~cutTail)) /\ loop \notin {"sending", "flushing"} /\ ~slipped
        => ~AllowInput(FALSE)

\* No answer inherits a piece of another: not its half frame, which would put
\* half a word in front, nor its words, nor its length for the mouth.
NothingCarriedOver ==
    /\ \A k \in DOMAIN toSend : toSend[k] = {answerNo}
    /\ \A k \in DOMAIN residual : residual[k] = answerNo
    /\ replyText \subseteq {answerNo}
    /\ mouth <= put

\* The face is that of somebody at work as long as a tool runs, and no longer.
FaceFits == face = "thinking" <=> toolRuns

\* Ear, mouth and face keep step with the voice.
SpeechKeepsStep == EchoIsCovered /\ NothingCarriedOver /\ FaceFits
=============================================================================
