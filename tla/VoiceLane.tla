------------------------------- MODULE VoiceLane -------------------------------
(***************************************************************************)
(* Listen, transcribe, answer, speak.  The segmenter cuts the caller's     *)
(* frames into utterances; an utterance starts a turn and supersedes the   *)
(* one in flight; a turn speaks its answer piece by piece through the      *)
(* paced playback, which the caller's voice cancels.  Lines the agent was  *)
(* not asked for (say) share the playback.                                 *)
(***************************************************************************)
EXTENDS Naturals, FiniteSets

CONSTANTS
    PrerollFrames, SilenceFrames, MinVoiced, MaxUtterance  \* the segmenter's, in frames

\* The turn in flight, the superseded one that is still unwinding, and a say().
Voices == {"turn", "old", "line"}

VARIABLES
    ring,        \* frames in _preroll
    held,        \* frames in _speech; the caller is speaking iff it is not 0
    sinceOpen, lastLoud, quiet,
    voice,       \* each speaker: "idle", "hearing", "answering", "voicing", "playing"
    more,        \* speakers whose answer may have another piece after this one
    dying,       \* speakers whose task is cancelled and has not unwound
    muted,       \* PacedPlayback._cancelled
    laneClosed,
    cut,         \* history: speakers that were stopped
    overrun      \* history: a frame was sent for a speaker that was stopped

segVars == <<ring, held, sinceOpen, lastLoud, quiet>>
sayVars == <<voice, more, dying, muted>>
heardVars == <<cut, overrun>>
voiceVars == <<segVars, sayVars, laneClosed, heardVars>>

VoiceInit ==
    /\ ring = 0 /\ held = 0 /\ sinceOpen = 0 /\ lastLoud = 0 /\ quiet = 0
    /\ voice = [s \in Voices |-> "idle"] /\ more = {} /\ dying = {}
    /\ muted = FALSE /\ laneClosed = FALSE
    /\ cut = {} /\ overrun = FALSE

Active(s) == voice[s] # "idle"
Playing == {s \in Voices : voice[s] = "playing"}
Runs(s, at) == voice[s] = at /\ s \notin dying
Goes(s, to) == voice' = [voice EXCEPT ![s] = to]

-----------------------------------------------------------------------------
(* UtteranceSegmenter.feed, with what the lane does about it. *)

Reset == held' = 0 /\ ring' = 0 /\ sinceOpen' = 0 /\ lastLoud' = 0 /\ quiet' = 0

\* A quiet frame before anybody speaks goes round the ring.
QuietBefore ==
    /\ ~laneClosed /\ held = 0
    /\ ring' = IF ring < PrerollFrames THEN ring + 1 ELSE ring
    /\ UNCHANGED <<held, sinceOpen, lastLoud, quiet, sayVars, laneClosed, heardVars>>

\* Mutant: the interruption is left for when the utterance is over.
LeavesItPlaying == UNCHANGED muted
BargeIn == muted' = (muted \/ Playing # {})

\* The first loud frame.  The lane looks at the playback, not at the turn.
GateOpens ==
    /\ ~laneClosed /\ held = 0
    /\ held' = ring + 1 /\ ring' = 0
    /\ sinceOpen' = 1 /\ lastLoud' = 1 /\ quiet' = 0
    /\ BargeIn
    /\ cut' = cut \cup Playing
    /\ UNCHANGED <<voice, more, dying, laneClosed, overrun>>

\* barge_in() from the plugin: the flag is set whether or not anything plays.
BargedIn ==
    /\ muted' = TRUE
    /\ cut' = cut \cup Playing
    /\ UNCHANGED <<segVars, voice, more, dying, laneClosed, overrun>>

\* _begin: the new turn hears; the one in flight is cancelled, not awaited.
BeginTurn ==
    /\ voice' = [voice EXCEPT !["turn"] = "hearing", !["old"] = voice["turn"]]
    /\ dying' = IF Active("turn") THEN dying \cup {"old"} ELSE dying

\* What is known of a turn goes with it when it becomes the old one.
Superseded(S) == (S \ {"turn", "old"}) \cup (IF "turn" \in S THEN {"old"} ELSE {})

EndUtterance(wanted) ==
    /\ Reset
    /\ IF wanted
       THEN /\ ~Active("old")   \* bound: a cancelled task unwinds within a frame
            /\ BeginTurn
            /\ more' = Superseded(more)
            /\ cut' = Superseded(cut) \cup (IF Active("turn") THEN {"old"} ELSE {})
       ELSE UNCHANGED <<voice, dying, more, cut>>
    /\ UNCHANGED <<muted, laneClosed, overrun>>

\* A frame of an open utterance.
CallerFrame(loud) ==
    LET since == sinceOpen + 1
        last == IF loud THEN since ELSE lastLoud
        silent == IF loud THEN 0 ELSE quiet + 1
    IN  /\ ~laneClosed /\ held > 0
        /\ IF silent >= SilenceFrames THEN EndUtterance(last >= MinVoiced)
           ELSE IF held + 1 >= MaxUtterance THEN EndUtterance(TRUE)
           ELSE /\ held' = held + 1 /\ sinceOpen' = since
                /\ lastLoud' = last /\ quiet' = silent
                /\ UNCHANGED <<ring, sayVars, laneClosed, heardVars>>

-----------------------------------------------------------------------------
(* A turn: _hear, _respond, _speak. *)

OnlyVoice == UNCHANGED <<segVars, dying, laneClosed, heardVars>>

Transcribed(s) ==
    /\ Runs(s, "hearing") /\ Goes(s, "answering")
    /\ UNCHANGED <<more, muted>> /\ OnlyVoice

\* What is known of a speaker goes when it ends.
Forgotten(s) == cut' = cut \ {s}

\* Nothing was said, nothing is answered, or the answer is complete.
TurnEnds(s) ==
    /\ Runs(s, "hearing") \/ Runs(s, "answering")
    /\ Goes(s, "idle") /\ Forgotten(s)
    /\ UNCHANGED <<segVars, more, dying, muted, laneClosed, overrun>>

PieceWritten(s) ==
    /\ Runs(s, "answering") /\ Goes(s, "voicing")
    /\ more' = more \cup {s}
    /\ UNCHANGED muted /\ OnlyVoice

\* The transcriber or the agent failed: a sentence says so, and the turn is over.
Trouble(s) ==
    /\ Runs(s, "hearing") \/ Runs(s, "answering")
    /\ Goes(s, "voicing")
    /\ more' = more \ {s}
    /\ UNCHANGED muted /\ OnlyVoice

\* The synthesizer failed, and failed to say that it did.
CannotSpeak(s) ==
    /\ Runs(s, "voicing")
    /\ IF s \in more
       THEN Goes(s, "answering") /\ UNCHANGED cut
       ELSE Goes(s, "idle") /\ Forgotten(s)
    /\ UNCHANGED <<segVars, more, dying, muted, laneClosed, overrun>>

\* say()
Say ==
    /\ ~laneClosed /\ ~Active("line")
    /\ Goes("line", "voicing")
    /\ more' = more \ {"line"}
    /\ UNCHANGED <<segVars, dying, muted, laneClosed, heardVars>>

\* PacedPlayback.say has its lock: the flag of an earlier cancel is forgotten.
BufferStarts(s) ==
    /\ Runs(s, "voicing") /\ Playing = {}
    /\ Goes(s, "playing")
    /\ muted' = FALSE
    /\ UNCHANGED more /\ OnlyVoice

\* One wire frame.  The flag is read before each.
WireFrameSent(s) ==
    /\ Runs(s, "playing") /\ ~muted
    /\ overrun' = (overrun \/ s \in cut)
    /\ UNCHANGED <<segVars, sayVars, laneClosed, cut>>

Interrupted == muted

\* A synthesizer that streams has another chunk.
NextChunk(s) ==
    /\ Runs(s, "playing") /\ ~Interrupted
    /\ Goes(s, "voicing")
    /\ UNCHANGED <<more, muted>> /\ OnlyVoice

\* The buffer is out or was cut: an interrupted answer breaks off.
BufferEnds(s) ==
    /\ Runs(s, "playing")
    /\ muted' = FALSE
    /\ IF s \in more /\ ~Interrupted
       THEN Goes(s, "answering") /\ UNCHANGED cut
       ELSE Goes(s, "idle") /\ Forgotten(s)
    /\ UNCHANGED <<segVars, more, dying, laneClosed, overrun>>

\* CancelledError in the task, wherever it waits.
Unwinds(s) ==
    /\ s \in dying /\ dying' = dying \ {s}
    /\ Goes(s, "idle")
    /\ muted' = IF voice[s] = "playing" THEN FALSE ELSE muted
    /\ Forgotten(s)
    /\ UNCHANGED <<segVars, more, laneClosed, overrun>>

\* aclose
CloseLane ==
    /\ ~laneClosed /\ laneClosed' = TRUE
    /\ muted' = TRUE
    /\ Reset
    /\ dying' = IF Active("turn") THEN dying \cup {"turn"} ELSE dying
    /\ cut' = cut \cup Playing \cup {s \in {"turn"} : Active(s)}
    /\ UNCHANGED <<voice, more, overrun>>

VoiceNext ==
    \/ QuietBefore \/ GateOpens \/ CallerFrame(TRUE) \/ CallerFrame(FALSE)
    \/ BargedIn \/ Say \/ CloseLane
    \/ \E s \in Voices :
           \/ Transcribed(s) \/ TurnEnds(s) \/ PieceWritten(s) \/ Trouble(s) \/ CannotSpeak(s)
           \/ BufferStarts(s) \/ WireFrameSent(s) \/ NextChunk(s) \/ BufferEnds(s) \/ Unwinds(s)

VoiceSpec == VoiceInit /\ [][VoiceNext]_voiceVars

-----------------------------------------------------------------------------
\* Nothing of an answer reaches the caller after it was stopped: by their voice
\* while a piece of it played, by a newer turn, or by the end of the lane.  A barge-in
\* that falls between two pieces stops nothing: the next buffer forgets it.
StoppedIsSilent == ~overrun
=============================================================================
