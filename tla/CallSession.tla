---------------------------- MODULE CallSession ----------------------------
(***************************************************************************)
(* One live call of the Python server (class _Call in call_server.py): the *)
(* frame loop on the socket StandIn dialled, the plugin's handler, the     *)
(* watchdogs, and the teardown task that all of them may ask for.          *)
(*                                                                         *)
(* Everything runs on one event loop, so an action is the code between two *)
(* awaits of one task.  A frame is first received ("holding") and handled  *)
(* in a later step: the task that waits for it is resumed after whatever   *)
(* the loop had already scheduled, and a teardown may come in between.     *)
(***************************************************************************)
EXTENDS Naturals

CONSTANTS
    EndReasons,       \* reasons in session.end frames and in session.end() calls
    Directions,       \* the call directions considered, of "inbound", "outbound"
    Snapshots,        \* recordingStatus in session.start: "absent", "active", ...
    Statuses,         \* status in a recording.status frame
    IdleLimit,        \* audio_idle_timeout in ticks of the idle clock, 0 disables
    DurationLimitOn,  \* the settings considered of "max_call_seconds > 0"
    EndsInsideAclose  \* whether a handler's aclose may await session.end()

ASSUME CallSessionAssumption ==
    /\ IdleLimit \in Nat
    /\ Directions \subseteq {"inbound", "outbound"} /\ Directions # {}
    /\ DurationLimitOn \subseteq BOOLEAN /\ DurationLimitOn # {}
    /\ EndsInsideAclose \in BOOLEAN

VARIABLES
    pump,       \* where the frame loop stands
    inHand,     \* the kind of the frame it was woken with
    readStart,  \* the loop's local "started"
    startSeen,  \* _start is not None
    direction,  \* what session.start says, or will say
    recording,  \* _recording
    reported,   \* _recording_reported
    silence,    \* ticks since _last_audio, once the call has started
    rang,       \* history: some of that silence was the ringing
    hasHandler, \* _handler is not None
    onStart,    \* history: whether on_start was entered, and has ended
    acloses,    \* history: how often the handler's aclose was dispatched
    orphaned,   \* history: the handler was built behind the teardown's back
    teardown,   \* _close_task, and how far it is
    reason,     \* _closing_reason
    idle,       \* the task _watch_audio_idle
    duration,   \* the task _watch_call_duration
    prestart,   \* the task _watch_pre_start
    socket,     \* ws: "open", "dropped" by the peer, or "closed" by us
    slotHeld    \* the call is still in the server's registry

pumpVars == <<pump, inHand, readStart>>
recVars == <<recording, reported>>
clockVars == <<silence, rang>>
handlerVars == <<hasHandler, onStart, orphaned>>
closeVars == <<teardown, reason>>
watchVars == <<idle, duration, prestart>>
vars == <<pumpVars, startSeen, direction, recVars, clockVars, handlerVars,
          acloses, closeVars, watchVars, socket, slotHeld>>

Kinds == {"session.start", "audio.frame", "video.frame", "context",
          "recording.status", "assistant.say", "session.end", "ping"}

\* The words the server gives of its own are one reason here; what matters is
\* whether a close keeps the reason it was given.
Ours == "ours"

Reasons == {"call-ended", Ours} \cup EndReasons

PumpAt == {"receiving", "holding", "starting", "attributing", "callback",
           "flushing", "closing", "gone"}
TeardownAt == {"none", "scheduled", "gathering", "awaitStart", "releasing",
               "selfWait", "announcing", "hangup", "done"}

TypeOK ==
    /\ pump \in PumpAt
    /\ inHand \in Kinds \cup {"none"}
    /\ readStart \in BOOLEAN
    /\ startSeen \in BOOLEAN
    /\ direction \in Directions
    /\ recording \in BOOLEAN
    /\ reported \in BOOLEAN
    /\ silence \in 0..(IdleLimit + 1)
    /\ rang \in BOOLEAN
    /\ hasHandler \in BOOLEAN
    /\ onStart \in {"no", "running", "over"}
    /\ acloses \in Nat
    /\ orphaned \in BOOLEAN
    /\ teardown \in TeardownAt
    /\ reason \in Reasons
    /\ idle \in {"off", "asleep", "closing"}
    /\ duration \in {"off", "asleep", "flushing", "goodbye", "grace"}
    /\ prestart \in {"off", "asleep"}
    /\ socket \in {"open", "dropped", "closed"}
    /\ slotHeld \in BOOLEAN

Closed == teardown # "none"
InStart == pump = "starting"
PastHandler == teardown \in {"announcing", "hangup", "done"}

\* An outbound call nobody has picked up yet, as far as the server can tell.
Ringing == startSeen /\ direction = "outbound" /\ ~reported

Init ==
    /\ pump = "receiving" /\ inHand = "none" /\ readStart = FALSE
    /\ startSeen = FALSE
    /\ direction \in Directions
    /\ recording = FALSE /\ reported = FALSE
    /\ silence = 0 /\ rang = FALSE
    /\ hasHandler = FALSE /\ onStart = "no" /\ orphaned = FALSE
    /\ acloses = 0
    /\ teardown = "none" /\ reason = "call-ended"
    /\ idle = "off" /\ duration = "off" /\ prestart = "asleep"
    /\ socket = "open"
    /\ slotHeld = TRUE

\* The first request creates the teardown task; every later one joins it.
BeginClose(r) ==
    IF teardown = "none"
    THEN teardown' = "scheduled" /\ reason' = r
    ELSE UNCHANGED closeVars

-----------------------------------------------------------------------------
(* The frame loop. *)

Moves(from, to) == pump = from /\ pump' = to

Handles(kinds) == pump = "holding" /\ inHand \in kinds /\ inHand' = "none"

\* A frame arrived; the loop's task is scheduled to resume with it.
Deliver ==
    /\ Moves("receiving", "holding")
    /\ socket = "open"
    /\ inHand' \in Kinds
    /\ UNCHANGED <<readStart, startSeen, direction, recVars, clockVars,
                   handlerVars, acloses, closeVars, watchVars, socket,
                   slotHeld>>

\* A ping is answered with a pong, anything unknown is ignored, and a second
\* session.start is a sender bug.
IgnoreFrame ==
    /\ Handles({"ping", "session.start"})
    /\ inHand = "session.start" => readStart
    /\ pump' = "receiving"
    /\ UNCHANGED <<readStart, startSeen, direction, recVars, clockVars,
                   handlerVars, acloses, closeVars, watchVars, socket,
                   slotHeld>>

\* Mutant: the snapshot is taken whatever has been reported.
SeedAlways == \E snap \in Snapshots : recording' = (snap = "active")

\* The snapshot in session.start counts only while nothing has been reported.
SeedRecording ==
    IF reported
    THEN UNCHANGED recording
    ELSE \E snap \in Snapshots : recording' = (snap = "active")

\* The idle watchdog's loop ends at once on a call that is closing.
IdleArmed == IF IdleLimit > 0 /\ ~Closed THEN "asleep" ELSE "off"

\* The frame is not for this call, or the factory raises: the loop ends.
StartFails ==
    /\ Handles({"session.start"})
    /\ ~readStart /\ readStart' = TRUE
    /\ pump' = "closing"
    /\ startSeen' \in BOOLEAN
    /\ IF startSeen' THEN SeedRecording ELSE UNCHANGED recording
    /\ BeginClose(Ours)
    /\ UNCHANGED <<direction, reported, clockVars, handlerVars, acloses,
                   watchVars, socket, slotHeld>>

\* The handler is built, both watchdogs are armed and on_start is entered.
StartCall ==
    /\ Handles({"session.start"})
    /\ ~readStart /\ readStart' = TRUE
    /\ pump' = "starting"
    /\ startSeen' = TRUE
    /\ SeedRecording
    /\ silence' = 0 /\ rang' = FALSE
    /\ hasHandler' = TRUE /\ onStart' = "running"
    /\ orphaned' = PastHandler
    /\ idle' = IdleArmed
    /\ \E limited \in DurationLimitOn :
           duration' = IF limited THEN "asleep" ELSE "off"
    /\ UNCHANGED <<direction, reported, acloses, closeVars, prestart,
                   socket, slotHeld>>

\* on_start returned, raised, or ran into its timeout, if it has one.
StartEnds ==
    /\ Moves("starting", "receiving")
    /\ onStart' = "over"
    /\ \/ UNCHANGED closeVars
       \/ BeginClose(Ours)
    /\ UNCHANGED <<inHand, readStart, startSeen, direction, recVars, clockVars,
                   hasHandler, orphaned, acloses, watchVars, socket,
                   slotHeld>>

\* Caller audio restarts the idle clock whoever listens; media reaches the
\* handler only on a call that is not closing.  A new speaker is announced
\* before the audio; a payload that does not parse is dropped.
MediaFrame ==
    /\ Handles({"audio.frame", "video.frame"})
    /\ IF inHand = "audio.frame" /\ startSeen
       THEN silence' = 0 /\ rang' = FALSE
       ELSE UNCHANGED clockVars
    /\ IF hasHandler /\ ~Closed
       THEN pump' \in {"callback", "receiving"} \cup
                      (IF inHand = "audio.frame" THEN {"attributing"} ELSE {})
       ELSE pump' = "receiving"
    /\ UNCHANGED <<readStart, startSeen, direction, recVars, handlerVars,
                   acloses, closeVars, watchVars, socket, slotHeld>>

\* Mutant: nobody looks whether the handler is still there.
UnguardedCallback == pump' = "callback"

\* A callback is entered only while the server still holds the handler.
GuardedCallback == pump' = IF hasHandler THEN "callback" ELSE "receiving"

\* on_speaker_change is over, and the audio that named the speaker follows.
SpeakerChangeEnds ==
    /\ pump = "attributing"
    /\ GuardedCallback
    /\ UNCHANGED closeVars \/ BeginClose(Ours)
    /\ UNCHANGED <<inHand, readStart, startSeen, direction, recVars, clockVars,
                   handlerVars, acloses, watchVars, socket, slotHeld>>

\* participants and dtmf frames, as sentences for the handler.
ContextFrame ==
    /\ Handles({"context"})
    /\ GuardedCallback
    /\ UNCHANGED <<readStart, startSeen, direction, recVars, clockVars,
                   handlerVars, acloses, closeVars, watchVars, socket,
                   slotHeld>>

\* Turning active is the pick-up: that call has sent no audio yet.
RestartsIdleClock == recording' /\ ~recording

\* The flag follows the report, and turning active restarts the idle clock.
RecordingFrame ==
    /\ Handles({"recording.status"})
    /\ \E status \in Statuses : recording' = (status = "active")
    /\ reported' = TRUE
    /\ silence' = IF startSeen /\ RestartsIdleClock THEN 0 ELSE silence
    /\ rang' = (rang /\ silence' > 0)
    /\ GuardedCallback
    /\ UNCHANGED <<readStart, startSeen, direction, handlerVars, acloses,
                   closeVars, watchVars, socket, slotHeld>>

\* assistant.say: the buffered playback is flushed first, then on_goodbye.
SayFrame ==
    /\ Handles({"assistant.say"})
    /\ pump' = "flushing"
    /\ UNCHANGED <<readStart, startSeen, direction, recVars, clockVars,
                   handlerVars, acloses, closeVars, watchVars, socket,
                   slotHeld>>

SayFlushed ==
    /\ pump = "flushing"
    /\ GuardedCallback
    /\ UNCHANGED <<inHand, readStart, startSeen, direction, recVars, clockVars,
                   handlerVars, acloses, closeVars, watchVars, socket,
                   slotHeld>>

CallbackEnds ==
    /\ Moves("callback", "receiving")
    /\ UNCHANGED closeVars \/ BeginClose(Ours)
    /\ UNCHANGED <<inHand, readStart, startSeen, direction, recVars, clockVars,
                   handlerVars, acloses, watchVars, socket, slotHeld>>

\* session.end: the reason is stored as it comes, and run() closes the call.
EndFrame ==
    /\ Handles({"session.end"})
    /\ pump' = "closing"
    /\ reason' \in EndReasons \cup {"call-ended"}
    /\ teardown' = IF teardown = "none" THEN "scheduled" ELSE teardown
    /\ UNCHANGED <<readStart, startSeen, direction, recVars, clockVars,
                   handlerVars, acloses, watchVars, socket, slotHeld>>

\* The peer closes the socket or it fails: the loop ends or raises.
PeerDrops ==
    /\ Moves("receiving", "closing")
    /\ socket = "open" /\ socket' = "dropped"
    /\ BeginClose(reason) \/ BeginClose(Ours)
    /\ UNCHANGED <<inHand, readStart, startSeen, direction, recVars, clockVars,
                   handlerVars, acloses, watchVars, slotHeld>>

\* The loop reads from a socket that is closed already.
EndOfStream ==
    /\ Moves("receiving", "closing")
    /\ socket # "open"
    /\ BeginClose(reason)
    /\ UNCHANGED <<inHand, readStart, startSeen, direction, recVars, clockVars,
                   handlerVars, acloses, watchVars, socket, slotHeld>>

\* The request is cancelled, which only the listener's own shutdown does.
PumpCancelled ==
    /\ pump \notin {"closing", "gone"}
    /\ pump' = "closing" /\ inHand' = "none"
    /\ onStart' = IF InStart THEN "over" ELSE onStart
    /\ BeginClose(Ours)
    /\ UNCHANGED <<readStart, startSeen, direction, recVars, clockVars,
                   hasHandler, orphaned, acloses, watchVars, socket,
                   slotHeld>>

\* run() has awaited the teardown, or was cancelled waiting (the teardown then
\* goes on without it); _upgrade cancels the pre-start watchdog.
PumpEnds ==
    /\ Moves("closing", "gone")
    /\ prestart' = "off"
    /\ UNCHANGED <<inHand, readStart, startSeen, direction, recVars, clockVars,
                   handlerVars, acloses, closeVars, idle, duration,
                   socket, slotHeld>>

-----------------------------------------------------------------------------
(* The others who may ask for the close. *)

\* session.end() from a handler, in on_start or in any task of its own.
HandlerEnds ==
    /\ onStart # "no" /\ ~Closed
    /\ \E r \in EndReasons : BeginClose(r)
    /\ UNCHANGED <<pumpVars, startSeen, direction, recVars, clockVars,
                   handlerVars, acloses, watchVars, socket, slotHeld>>

\* The server's reaper of unanswered calls, or the server's own aclose.
ServerCloses ==
    /\ ~Closed
    /\ BeginClose(Ours)
    /\ UNCHANGED <<pumpVars, startSeen, direction, recVars, clockVars,
                   handlerVars, acloses, watchVars, socket, slotHeld>>

\* A socket that never sent session.start is dropped.
PreStartFires ==
    /\ prestart = "asleep" /\ prestart' = "off"
    /\ IF ~startSeen /\ ~Closed
       THEN BeginClose(Ours)
       ELSE UNCHANGED closeVars
    /\ UNCHANGED <<pumpVars, startSeen, direction, recVars, clockVars,
                   handlerVars, acloses, idle, duration, socket, slotHeld>>

\* The idle clock, counted to one tick past the limit.
Tick ==
    /\ idle = "asleep"
    /\ silence <= IdleLimit
    /\ silence' = silence + 1
    /\ rang' = (rang \/ Ringing)
    /\ UNCHANGED <<pumpVars, startSeen, direction, recVars, handlerVars,
                   acloses, closeVars, watchVars, socket, slotHeld>>

IdleFires ==
    /\ idle = "asleep"
    /\ ~Ringing
    /\ silence > IdleLimit
    /\ idle' = "closing"
    /\ BeginClose(Ours)
    /\ UNCHANGED <<pumpVars, startSeen, direction, recVars, clockVars,
                   handlerVars, acloses, duration, prestart, socket,
                   slotHeld>>

\* The ceiling is reached: flush the playback, say goodbye, wait, end.
DurationFires ==
    /\ duration = "asleep"
    /\ duration' = IF Closed \/ socket # "open" THEN "off" ELSE "flushing"
    /\ UNCHANGED <<pumpVars, startSeen, direction, recVars, clockVars,
                   handlerVars, acloses, closeVars, idle, prestart,
                   socket, slotHeld>>

DurationSpeaks ==
    /\ duration = "flushing"
    /\ duration' = IF hasHandler THEN "goodbye" ELSE "grace"
    /\ UNCHANGED <<pumpVars, startSeen, direction, recVars, clockVars,
                   handlerVars, acloses, closeVars, idle, prestart,
                   socket, slotHeld>>

DurationGoodbyeEnds ==
    /\ duration = "goodbye" /\ duration' = "grace"
    /\ UNCHANGED closeVars \/ BeginClose(Ours)
    /\ UNCHANGED <<pumpVars, startSeen, direction, recVars, clockVars,
                   handlerVars, acloses, idle, prestart, socket, slotHeld>>

\* The grace is over, or there was nothing to say: goodbye_text may be blank.
DurationEnds ==
    /\ duration \in {"grace", "flushing"}
    /\ duration' = "off"
    /\ BeginClose(Ours)
    /\ UNCHANGED <<pumpVars, startSeen, direction, recVars, clockVars,
                   handlerVars, acloses, idle, prestart, socket, slotHeld>>

-----------------------------------------------------------------------------
(* The teardown task. *)

\* With the handler gone the close is announced, if anyone is there to hear.
Announce ==
    IF socket = "open"
    THEN teardown' = "announcing" /\ UNCHANGED slotHeld
    ELSE teardown' = "done" /\ slotHeld' = FALSE

\* Mutant: the handler is skipped.
ReleaseSkipped == Announce /\ UNCHANGED acloses
\* Mutant: the release is started and not waited for.
ReleaseNotAwaited ==
    IF hasHandler
    THEN Announce /\ acloses' = acloses + 1
    ELSE Announce /\ UNCHANGED acloses

AskHandlerToRelease ==
    IF hasHandler
    THEN /\ teardown' = "releasing"
         /\ acloses' = acloses + 1
         /\ UNCHANGED slotHeld
    ELSE Announce /\ UNCHANGED acloses

\* on_start is given a bounded time to leave the stack.
AfterTasks ==
    IF InStart
    THEN teardown' = "awaitStart" /\ UNCHANGED <<acloses, slotHeld>>
    ELSE AskHandlerToRelease

\* Cancels the watchdogs; gathering them suspends only if there are any.
TeardownStarts ==
    /\ teardown = "scheduled"
    /\ idle' = "off" /\ duration' = "off"
    /\ IF idle = "off" /\ duration = "off"
       THEN AfterTasks
       ELSE teardown' = "gathering" /\ UNCHANGED <<acloses, slotHeld>>
    /\ UNCHANGED <<pumpVars, startSeen, direction, recVars, clockVars,
                   handlerVars, reason, prestart, socket>>

TasksGathered ==
    /\ teardown = "gathering"
    /\ AfterTasks
    /\ UNCHANGED <<pumpVars, startSeen, direction, recVars, clockVars,
                   handlerVars, reason, watchVars, socket>>

\* Mutant: the wait for on_start is unbounded.
StartAwaitedForever ==
    /\ teardown = "awaitStart"
    /\ ~InStart
    /\ AskHandlerToRelease
    /\ UNCHANGED <<pumpVars, startSeen, direction, recVars, clockVars,
                   handlerVars, reason, watchVars, socket>>

\* on_start has returned, or the two seconds are over.
StartAwaited ==
    /\ teardown = "awaitStart"
    /\ AskHandlerToRelease
    /\ UNCHANGED <<pumpVars, startSeen, direction, recVars, clockVars,
                   handlerVars, reason, watchVars, socket>>

\* The handler's aclose awaits session.end(), which awaits this very task.
AcloseAwaitsEnd ==
    /\ EndsInsideAclose
    /\ teardown = "releasing" /\ teardown' = "selfWait"
    /\ UNCHANGED <<pumpVars, startSeen, direction, recVars, clockVars,
                   handlerVars, acloses, reason, watchVars, socket,
                   slotHeld>>

HandlerReleased ==
    /\ teardown = "releasing"
    /\ hasHandler' = FALSE
    /\ Announce
    /\ UNCHANGED <<pumpVars, startSeen, direction, recVars, clockVars, onStart,
                   orphaned, acloses, reason, watchVars, socket>>

\* Mutant: the socket is closed under the handler's last words.
HangUpEarly ==
    /\ teardown \in {"releasing", "announcing"}
    /\ socket' = IF socket = "open" THEN "closed" ELSE socket
    /\ teardown' = IF teardown = "announcing" THEN "hangup" ELSE teardown
    /\ UNCHANGED <<pumpVars, startSeen, direction, recVars, clockVars,
                   handlerVars, acloses, reason, watchVars, slotHeld>>

\* ws.close() marks the socket closed and then awaits the peer.
HangUp ==
    /\ teardown = "announcing" /\ teardown' = "hangup"
    /\ socket' = IF socket = "open" THEN "closed" ELSE socket
    /\ UNCHANGED <<pumpVars, startSeen, direction, recVars, clockVars,
                   handlerVars, acloses, reason, watchVars, slotHeld>>

\* The peer acknowledged or two seconds passed.  ws.close() first waits for a
\* receive that was already resumed, so the loop holds no frame any more.
HungUp ==
    /\ teardown = "hangup" /\ teardown' = "done"
    /\ pump # "holding"
    /\ slotHeld' = FALSE
    /\ UNCHANGED <<pumpVars, startSeen, direction, recVars, clockVars,
                   handlerVars, acloses, reason, watchVars, socket>>

\* Nothing is left to run: the only state in which the call may stop.
Over ==
    /\ pump = "gone" /\ teardown = "done"
    /\ idle = "off" /\ duration = "off" /\ prestart = "off"
    /\ UNCHANGED vars

-----------------------------------------------------------------------------
Pump ==
    \/ Deliver \/ IgnoreFrame \/ StartFails \/ StartCall \/ StartEnds
    \/ MediaFrame \/ SpeakerChangeEnds \/ ContextFrame \/ RecordingFrame
    \/ SayFrame \/ SayFlushed \/ CallbackEnds \/ EndFrame \/ PeerDrops
    \/ EndOfStream \/ PumpCancelled \/ PumpEnds

Closers ==
    \/ HandlerEnds \/ ServerCloses \/ PreStartFires \/ Tick \/ IdleFires
    \/ DurationFires \/ DurationSpeaks \/ DurationGoodbyeEnds \/ DurationEnds

Teardown ==
    \/ TeardownStarts \/ TasksGathered \/ StartAwaited \/ AcloseAwaitsEnd
    \/ HandlerReleased \/ HangUp \/ HungUp

Next == Pump \/ Closers \/ Teardown \/ Over

Spec == Init /\ [][Next]_vars

\* The event loop runs what is ready: the teardown between its awaits, a frame
\* the pump was woken with, and every timer that is due.
LoopFairness ==
    /\ WF_vars(TeardownStarts \/ TasksGathered \/ StartAwaited \/ HangUp \/ HungUp)
    /\ WF_vars(pump = "holding" /\ Pump)
    /\ WF_vars(PreStartFires)
    /\ WF_vars(Tick)
    /\ WF_vars(IdleFires)
    /\ WF_vars(DurationFires \/ DurationSpeaks \/ DurationEnds)

\* What a plugin owes: its aclose returns, unless it awaits session.end().  Its
\* other callbacks, on_goodbye among them, may hang for good.
ReleaseFairness == WF_vars(HandlerReleased)

FairSpec == Spec /\ LoopFairness /\ ReleaseFairness

-----------------------------------------------------------------------------
(* Safety. *)

\* Every handler that was built was asked exactly once to release what it
\* holds before the slot is freed, unless it was built behind the teardown's
\* back (_teardown, _release; the promise is CallHandler.aclose's).
ReleasedOnceBeforeFreed ==
    /\ acloses <= 1
    /\ ~slotHeld /\ onStart # "no" => acloses = 1 \/ orphaned

\* The same without the exception, as CallHandler.aclose words it.
EveryHandlerReleased == ~slotHeld /\ onStart # "no" => acloses = 1

\* The server never closes the socket itself before the handler has let go, so
\* that send_audio and display_image still work on the way out.
VoiceUntilReleased == socket = "closed" => PastHandler

\* Once the handler's aclose has returned, neither the frame loop nor the
\* duration watchdog enters another callback of it.
NoCallbackAfterRelease ==
    [][acloses = 1 /\ ~hasHandler =>
        /\ pump' \in {"callback", "attributing"} => pump' = pump
        /\ duration' = "goodbye" => duration = "goodbye"]_vars

\* Of two causes for one close the first is kept, as _begin_close words it: the
\* reason that handler, wire and log are given is the one that ended the call.
FirstReasonWins == [][Closed => reason' = reason]_vars

\* A reported recording status is changed by later reports only, never by the
\* snapshot of a session.start that lands after it.
ReportedStatusWins ==
    [][reported /\ recording' # recording => inHand = "recording.status"]_vars

\* aclose is not dispatched over an on_start that has not had its grace.
StartGetsItsGrace ==
    [][acloses' > acloses => ~InStart \/ teardown = "awaitStart"]_vars

\* A call is not judged by how long the ringing took: the silence for which the
\* idle watchdog ends it began after the pick-up (the comment in the
\* recording.status frame's handling).
RingingIsNotHeldAgainstIt ==
    [][idle = "asleep" /\ idle' = "closing" => ~rang]_vars

-----------------------------------------------------------------------------
(* Liveness. *)

\* Whatever fails or is cancelled, a call that is closing frees its slot, unless
\* the handler's aclose awaits session.end(), which waits for that very close.
ClosedCallFreesItsSlot == Closed ~> (~slotHeld \/ teardown = "selfWait")

\* A socket that authenticates and never starts a call does not keep its slot.
SilentSocketIsDropped == <>(startSeen \/ ~slotHeld)

\* An on_start that never returns does not keep the slot of an inbound call,
\* even with no on_start_timeout: the idle watchdog is armed before it.
HungStartFreesTheSlot ==
    (InStart /\ direction = "inbound")
        ~> (~InStart \/ ~slotHeld \/ teardown = "selfWait")

\* A call whose ceiling is armed comes to its end, still going or not.
CeilingEndsTheCall == duration = "asleep" ~> Closed

\* What the code keeps of it: the end, or an on_goodbye that is being awaited.
CeilingSpeaksOrEnds == duration = "asleep" ~> (Closed \/ duration = "goodbye")

\* Nothing keeps a slot of the server for good: not a close that fails half way,
\* a socket nobody uses, an on_start that hangs nor a call without end.  Only a
\* handler does, one that awaits session.end() in its aclose or hangs in
\* on_goodbye (_teardown, _watch_pre_start, _watch_audio_idle,
\* _watch_call_duration).
SlotEventuallyFreed ==
    /\ ClosedCallFreesItsSlot
    /\ SilentSocketIsDropped
    /\ HungStartFreesTheSlot
    /\ CeilingSpeaksOrEnds

-----------------------------------------------------------------------------
(* The promise to the plugin, implemented. *)

Stage ==
    IF onStart = "no" THEN "unbuilt"
    ELSE IF orphaned THEN "orphaned"
    ELSE IF hasHandler THEN (IF acloses = 0 THEN "serving" ELSE "closing")
    ELSE "closed"

Contract == INSTANCE HandlerContract WITH
    stage <- Stage,
    gate <- IF PastHandler THEN "shut" ELSE "open",
    slot <- slotHeld

ImplementsContract == Contract!Spec
=============================================================================
