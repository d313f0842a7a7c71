# StandIn worker SDK: specifications and proofs

TLA+ models of the Python worker library (`src/libraries/python/standin`), the TLC
runs that check them on small instances, and TLAPS proofs of the properties that
matter most. The library answers Microsoft Teams calls for the StandIn service:
StandIn dials the worker over a WebSocket, one socket per call, and the worker runs a
plugin's handler on it. Nearly everything runs on one asyncio event loop, so the unit
of interleaving is the code between two `await`s.

## 1. Inventory

| Part | Source (`src/libraries/python/standin/` unless said) | State it keeps | Operations | Status |
|---|---|---|---|---|
| Call session | `call_server.py` (`_Call`), `handler.py` | frame loop, `_start`, `_recording`, idle clock, watchdog tasks, `_close_task`, `_closing_reason`, the handler | frames in, callbacks, `end()`, `aclose()`, teardown, three watchdogs | modelled |
| Call server | `call_server.py` (`CallServer`), `_hmac.py` | `_calls`, `_used_signatures`, `draining`, the reaper's set | upgrade, register, release, reap, drain, `aclose` | in part |
| Outbound calls | `outbound.py` | record files, `_finalized`, the leg's `_spoken`/`_closed`, `_senders`, the hourly cap | `place`, `attach`, `on_context`, `on_outcome`, `sweep`, requeue, `aclose` | in part |
| Consult and background tasks | `consult.py` | `_busy`, `_asker`; task files in two phases | `ask`, `remember`, `begin`, `done`, `claim_pending`, `resume`, `finish` | in part |
| Chat channel | `chat.py` | bounded dedupe set, a chain of turns per conversation, personal chats | receive, enqueue, turn, send, `aclose`, `for_caller` | in part |
| Voice lane | `lane.py`, `voice.py` | `_turn`, playback lock and cancel flag, segmenter | feed, turn, say, barge-in, `aclose` | in part |
| Vision | `vision_tools.py`, `ambient.py`, `tile.py`, `vision.py` | slideshow task and generation, digest latch, hold queue, budget, latest frame | show, pace, flush, look, tick | in part |
| Delivery, start-up, gate | `delivery.py`, `startup.py`, `gate.py` | live-call registry, held frames, follow-up window | register, find, deliver; hold, release; judge a turn | in part |
| Speech and mouth | `audio.py`, `echo_guard.py`, `avatar.py`, `lipsync.py` | half a frame, playout horizon, audio counted and text heard, tool depth | align, guard, time, cut; spread visemes | in part |
| Minutes and recaps | `minutes.py`, `plugins/hermes_agent/recap.py`, `platform.py` | the transcript, the spool of recaps, the platform's lane and drains | collect, parse, post; claim, finish, drain; connect, disconnect | in part |
| Provider plugins | `plugins/{elevenlabs,cartesia,deepgram,livekit,hermes_agent}` | a provider socket or room per call, read loops, pumps, tools | dial, relay, lose, release | in part |
| Call tools | `calltools.py` | none | dispatch | not modelled |
| TypeScript worker | `src/libraries/typescript/src` | twins of the above | | not modelled |
| Attachments, fetch, media, render | same names | none between requests | | not modelled |
| Protocol, config, smoke | same names | none | | not modelled |

How they meet: `CallServer` admits a socket and creates a `_Call`; the call builds a
handler from the plugin's factory at `session.start`, and from then on every frame is a
callback of it. A handler owns a voice lane, vision tools and a consultant, speaks
through its `CallSession`, and may end it. The outbound lane is called back by the
handler (`attach`, `on_context`, `aclose` of the leg) and by the server
(`on_call_outcome`), and posts through the chat channel. Message records and background
tasks are files, shared by workers and outliving them.

What is hard here: a teardown asked for by seven parties at once; callbacks that
suspend in the middle of a frame; a clean-up that may be cancelled by the thing it
cleans up; time-outs that race the answer; state checked before an `await` and used
after it; files that two processes move; and two ends of a wire that each act on what the other
has not yet heard. `PROJECT.json` lists each such place under
`hazards`, with the properties that watch it.

What makes each part correct, in a line: a call's handler is released exactly once, its
slot freed, its voice kept until then (session); the registry is the set of live
sessions and a signed handshake opens one (server); what a person is owed reaches them,
once (outbound); one turn of a conversation at a time and none twice (chat); a task is
run to its delivery and by one worker (consult); an interruption is never lost and
nothing is said after the end (voice); the screen the model believes in is the one that
was delivered (vision); a person on the line is not rung (delivery); nobody is billed for
a conversation with nobody in it (plugins); the minutes are posted, and once (recaps).

## 2. Modules

| Module | Models | Extends / instantiates |
|---|---|---|
| `HandlerContract` | what the server promises a plugin about one call, in four actions | |
| `CallSession` | one call in full | instantiates `HandlerContract` under a refinement mapping |
| `HandshakeGuard` | freshness window and cache of used signatures | |
| `CallServer` | admission, registry, reaper, drain, shutdown | instantiates `HandshakeGuard` on its own variables |
| `OutboundLane` | one outbound call's message, over workers and legs | |
| `Consultant`, `BackgroundTasks` | the slow agent behind a call; the promises kept in files over several workers | |
| `ChatChannel` | the messages lane | |
| `VoiceLane` | segmenter, turns, paced playback | |
| `Slideshow`, `AmbientVision`, `TileRelay` | pictures on the tile; what the caller shows; the avatar tile | |
| `VoiceDelivery`, `StartupBuffer`, `GroupGate` | delivery with the live-call registry and the call policy; the first words; when to speak in a meeting | |
| `SpokenTurn`, `Visemes` | an answer on its way to the caller's ear, with echo guard and avatar; the timeline of the mouth | |
| `Minutes`, `RecapSpool` | transcript, sections and post of the minutes; recaps over crashes and reloads | |
| `RelayContract` | what every provider plugin promises of its connection | |
| `ProviderCall` | a handler with one provider under one session: what the plugins share | |
| `ElevenLabsCall`, `CartesiaCall`, `DeepgramCall`, `LiveKitCall`, `HermesCall` | the five plugins | extend `ProviderCall` |
| `RealtimeTurns` | the turn latch of the Hermes realtime session, and the provider's | |
| `MCPlugins` | the five plugins, one at a time, against the contract | extends `LiveKitCall`, instantiates the other four, and `RelayContract` under a refinement mapping |
| `MCProgress` | chat channel, slideshow and plugins: safety and progress | extends `MCPlugins`, `ChatChannel`, `Slideshow` |
| `MCSafety` | fourteen parts, one at a time: safety | extends them |
| `MCCall` | one call, and the server, side by side; the values the configurations use | `CallSession`, `CallServer` |
| `CallSessionProofs`, `HandshakeGuardProofs`, `CallServerProofs`, `OutboundLaneProofs` | theorems about the module each is named after | it, and `TLAPS` |
| `VisionProofs` | theorems about the tile, the ambient relay and the slideshow | `TileRelay`, `AmbientVision`, `Slideshow` |
| `DeliveryProofs` | about deliveries, recaps, consultations, promises and minutes | `VoiceDelivery`, `RecapSpool`, `Consultant`, `BackgroundTasks`, `Minutes` |
| `TalkProofs` | about what is heard and said: voice lane, turn latch, gate, start-up buffer, speech, mouth | `VoiceLane`, `RealtimeTurns`, `GroupGate`, `StartupBuffer`, `SpokenTurn`, `Visemes` |
| `ProgressProofs` | about the plugins and the chat channel | `MCPlugins`, `ChatChannel` |

The parts that `MCSafety` and `MCProgress` run have disjoint names, so that these extend
them and a theorem and a run speak of the same definition. Sequences that the code only
looks through are sets here: the calls the hourly cap counts (`placed`), what a drain
has still to do (`todo`), the characters of a text that have a shape (`Mapped`).

Definitions whose comment says *Mutant* are plausible mistakes in the definition that
follows them. No behaviour uses them: substituted for it they must break the property
named in `PROJECT.json`, which shows that the property looks at that piece of code.

### CallSession

`pump` is the position of `_Call.pump` in the handling of a frame, with the kind of the
frame in `inHand`. A frame is received (`holding`) and handled in a later step, since
the task that was waiting for it is resumed after whatever the loop had scheduled;
that gap is where a teardown slips in. `starting`, `callback`, `attributing` and
`flushing` are the awaits inside handler calls; a callback may return, fail, or never
return, and each disposition the code gives to that (`_guard`, `_guard_start`) is an
action. `teardown` walks through `_teardown`: cancel the tasks and gather them, wait up
to two seconds for a running `on_start`, dispatch the handler's `aclose`, say goodbye on
the wire, close the socket, release the slot. `idle`, `duration` and `prestart` are the
three watchdog tasks; `EndFrame`, `PeerDrops`, `EndOfStream`, `HandlerEnds`,
`ServerCloses`, a failed `on_start` and the watchdogs ask for a close.

Abstracted: the contents of frames, and the sequence number and timeline the outbound
audio carries. Time is in ticks of the idle clock; the start timeout, the two second
wait and the watchdogs' periods fire at any moment after they are armed. `_closed` is
`teardown # "none"`, which is exact: both are set in one step of `_begin_close`. The
idle watchdog may look at every tick, more often than the code does.
A callback that a cancellation reaches is taken to honour it; `on_start` is not. `rang` is
a history: whether the idle clock that runs was started by the ringing.

`HandlerContract` is the abstract specification: build, ask to release, shut the gate,
free the slot. `Stage` maps the history of one call to it, and `ImplementsContract` is
checked and proved. The contract admits one way out, the `orphaned` handler, because the
code has it (finding 1).

### CallServer and HandshakeGuard

A connection goes from `new` through `preparing` (suspended in `ws.prepare()`) to
`live`, `closing`, `ended`; what it does in between is `CallSession`. All checks of
`_upgrade` are made in one step, as in the code. `PrepareSuspends` says whether another task can
run during `ws.prepare()`. Nothing in the library awaits anything there, and aiohttp
returns without suspending unless the transport's write buffer is full. The run has `TRUE`:
then a second upgrade of a callId may pass the check while the first one is being
prepared, and the registry names only the later of the two. `overlapped` remembers such ids,
and the registry properties except them and nothing else. The reaper keeps its
set of callIds as the code does. `aclose` is its two stages, gather and clear; the
runner's cleanup then cancels what is left, calls that were admitted during the gather included.

`CallEnds` and its fairness are what `CallSession` establishes as `SlotEventuallyFreed`:
that is the interface between the two models.

### OutboundLane

One call is followed: file names are made of the callId, so the records of different
calls do not meet. `record` says where the message is: parked (`.json`), reserved by a leg
(`.answering`), `taken` by a delivery, which has already read and unlinked it, or gone.
Every one of these moves is a rename or an unlink and is one step. `Attach`, `Look`,
`Speak*`, `WatchFires` and `LegCloses` are `OutboundLeg`; `OutcomeArrives` and the polls
are `on_outcome`; `Sweep` is `recover_reservations` and `claim_stale` together, and
`Delivery*` the rest of the sweep for that record. Two workers share the directory.
`Stops` is an orderly shutdown, which closes the calls and then `lane.aclose`;
`Crashes` loses all that is in memory.

Time is three thresholds on the record: older than `answer_timeout_s`, then older than
`RESERVATION_STALE_S` since its file was written (a rename keeps `st_mtime`), then older
than `ttl_s`. `GetsOld` states what the constants imply, 600 s being five answer
time-outs and twenty sweeps: by then a leg's watchdog has ended it, a speech is over, and no
running sweep has left a stale record parked. StandIn is assumed to dial its workers
within that time of placing the call.

### Consultant, BackgroundTasks

`Consultant` keeps the threads that `ask` has given up on: they cannot be stopped, so
`ConsultTimesOut` drops the asker and leaves its thread in `threads`. The end of the call
cancels a consultation under way (`ConsultCancelled`), which keeps the asker, and then the recap
asks once more (`RecapAsks`): `cutShort` is the agent it may find at work. `BackgroundTasks`
is the directory of task files, with any number of processes that `Dies` and
`ComesBack`. `ClaimPending` is one step, as `claim_pending` awaits nothing; the renames
of two processes within it could interleave, but each rename has one winner. Files are looked
at in the order of their names, and not past the limit. The age
of a file is three thresholds on its content's time, which a rename keeps, so a task
may be done twice; it is never lost.

### ChatChannel

`turns` are the tasks `_enqueue` has made, `pending` those whose done callback has not
run, `chains` the dictionary of the last task per conversation. A message may be
`Receive`d any number of times; `Pruned` is the done callback, which runs one loop
iteration after its task. `PersonalChats` is remembered beside them and asked by
`ForCaller`. `evidence` and `since` are histories: when a message was last news of its
author, and which others have come since.

### VoiceLane

The segmenter is in frames, with its pre-roll, silence and minimum; the frames' contents
are one bit, loud or quiet. Three speakers share the playback: the turn in flight, the
superseded one that is still unwinding, and a `say`. `muted` is the flag
`PacedPlayback` reads before each frame and forgets when the next buffer starts.

### Slideshow, AmbientVision, TileRelay

`Slideshow` follows every tool call through `_stop_slideshow`, its sends and its
returns, with the pacer a call leaves behind as a process of its own. Tool calls overlap, so
several pacers may run while `_slideshow` names one; the histories `replaced` and `leftSending`
say who took the tile from whom, and which pacers had a picture in hand with nobody
waiting for them. `AmbientVision`
has the pass of `_flush` with its two suspension points, the queue of held frames, and
the budget; tokens are numbered, so that a refund can be told from another. `TileRelay`
is the tick with its encoder.

### VoiceDelivery, StartupBuffer, GroupGate

All in `VoiceDelivery` concern one person in one conversation, with two live calls and
several lines of text; `LaneLines` are those that go through `OutboundLane.place`. A request
that ends in an error may have rung the phone (`RingsAllTheSame`: a time-out, or an answer
without a callId); such a ring is in `rung` and in `uncounted`. In `StartupBuffer` an entry leaves its
lane before its send, as in the code, so a release that is cancelled or fails in a send may have lost
that one entry (`awaited`, `brokenOff`). What
a turn says is for `GroupGate` one of the outcomes its matchers distinguish.

### SpokenTurn, Visemes

`SpokenTurn` has the provider's events handled one after the other (`loop`), and beside
them `goodbye` and the tools. Audio is in half frames, a frame plays for one tick.
`playing` and `ringing` are what the caller's line really carries, against
`playoutEnd`, what the guard believes. A cancel drops what has not been played; the tail of what
has still comes back, and `cutTail` says so. `Visemes` walks a text of at most three
characters with every assignment of shapes, spaces and times.

### Minutes, RecapSpool

`Minutes` numbers the fragments of a call and the lines of the model's answer, and keeps
the numbers, so that what is lost, doubled or misfiled shows; `Printed` is what the document's
writer makes of the sections. `RecapSpool` has a job
file per recap, the live jobs and the drains that work on them, and the platform that
the host connects and disconnects in any order, also while it is connecting. A drain
takes what waits, the claims of a process it takes for dead, and any claim ten minutes
old, whoever has it. A post that failed or whose sender was stopped may have arrived.
Histories keep the reasons for a second post apart: `excused`, `aged`, `robbed`, `early`.

### The plugins

Each plugin's module gives the steps of its own socket over the state of `ProviderCall`:
`sess`, the session (up, closing, over), `starting`, where `on_start` is, `line`, the
connection, `reader`, the read loop, `releasing`, where `aclose` is. `RelayContract` is
the abstract specification: dial, answer, hang up, release. The mapping has one wrinkle:
a connection that is still being greeted by `on_start` is `dialled` and not `up`, since
the handler may be released over it, and then it must be hung up, which is the
contract's fairness. A LiveKit room whose `connect` outlasts the release counts as no
connection at all (`lateJoin`): `livekit_late_join` is about it. `RealtimeTurns` has two queues between the plugin and the
provider, whose own rule (one response at a time, a second is rejected) is external.

## 3. Runs

Every run finishes within three and a half minutes on two cores.

| Run | Question | States |
|---|---|---|
| `call` | every interleaving of one call, with a handler that may hang in any callback but its `aclose`, or end the call from inside that; and the server, whose upgrades may overlap: safety, the contract, and that every slot is freed, every shutdown completed | 65 000 |
| `outbound` | two workers, two legs, one stop or crash: held once, told once, settled | 325 000 |
| `progress` | chat channel, slideshow and the five plugins: order, no repeats, one voice, one line, and everybody who waits goes on | 158 000 |
| `safety` | fourteen parts for what they may never do | 2 300 000 |
| `call_orphan`, `call_reason`, `call_ceiling`, `call_ringing`, `server_redial`, `outbound_shutdown`, `livekit_late_join`, `recap_reload` | eight statements of the documentation that the code does not keep | |

In `call`, `progress` and `safety` a behaviour is a behaviour of one part, chosen at the start,
with the other parts at rest: the parts share no state in the code but the session,
whose side `CallSession` is. Their state spaces add up rather than multiply, and every
part is explored in full.

Bounds, and why they are enough:

- `IdleLimit = 1`: the clock saturates one past it, and only "at most" and "past" matter.
- Statuses, snapshots and end reasons have one representative per outcome the code
  distinguishes.
- Two connections, two callIds and two slots in `call`: one that is live or being
  prepared, and one that conflicts with it in callId, or comes while the server shuts down.
  `server_redial` has three connections of one callId. The theorems hold for any number.
  Without a limit to reach, `max_connections` is proved (`LimitHeld`) and not run.
- The handshake guard: window and prune interval of two ticks and a clock of five, so that an
  entry from the future (signed up to a window ahead) outlives two sweeps. In `call`
  the window is zero: only the order of the checks matters.
- `outbound`: two legs and two workers give every pair of holders; one stop gives every
  crash point; two delivery attempts give one that is retried and one that gives up. Two
  stops would only repeat a state in which nobody remembers anything.
- Background tasks: two tasks, the second of no use, and two processes with `ResumeLimit = 1`, so that a
  task is left behind by a resume; a process may die and come back any number of times.
- Chat: two messages of one conversation, three turns and a dedupe set of one, so that a
  message is evicted, redelivered, and waits for a turn that hangs.
- Voice: utterances of at most four frames with a one-frame pre-roll, two frames of
  silence and two that must be voiced: both the silence and the length bound end one.
- Ambient vision: one source, two screens, a queue and a history of one, three tokens a
  minute of which two are the reserve: every bound is reached with two frames.
- Slideshow: three calls in any overlap, at most two pictures: a show, one that overlaps
  it, and one that replaces the pacer of either.
- Start-up: lanes of two frames and one line, four of each in the call, so that both
  overflow and something arrives during the release.
- Delivery: two live calls, three lines, a cap of one and an hour of two ticks.
- Recaps: one recap, three drains, two attempts, one crash in `safety`: posted, failed, put
  back, taken for its age or as a dead owner's, and tried again. With two recaps the
  part has more than eight million states; `recap_reload` has two, with two jobs to a spool, and runs
  up to its violation, and the proofs are for any number. One `connect` dials at a time.
- Minutes: three speakers, three fragments and three lines; entries of three fragments and a
  transcript of two entries, so that one is split and one is dropped.
- Speech: two answers of up to three half frames, three pieces in flight, three ticks.
- Plugins: two audio events, three tracks (one relayed, one refused, one after), one line of context.

Deadlock checking is off where the system ends (a finished clock, a settled message, a part
at rest) and in `call`, where a handler that waits for its own teardown
stops the call for good.

## 4. Fairness

- `CallSession`: weak fairness of the teardown between its awaits, of a frame the loop was
  woken with, and of every timer that is due: asyncio runs what is ready. Callbacks get
  none: a plugin may hang, in `on_start`, in `on_goodbye` and in every other. `ReleaseFairness`,
  that a handler's `aclose` returns once what
  it awaits has, is what the documentation asks of plugins. `SlotEventuallyFreed` therefore says
  of the ceiling only that it ends the call or is in `on_goodbye`; `call_ceiling` shows the rest.
- `CallServer`: the reaper's timer, a shutdown whose calls have ended, the
  end of a closing call, and the runner cancelling each request it has left.
- `OutboundLane`: sweeps go on and time passes, a chat send and a plugin's speak return, a
  leg told to end is closed (from `CallSession`), and a stopped worker is started again.
  Nothing is assumed of StandIn, the callee, or the success of a post.
- `MCProgress`: the loop runs every turn that can go on, and `TurnTimesOut` fires: the agent
  itself may hang. Of a slideshow, the timer of a gap fires and a picture is sent or
  skipped. Of a plugin, its own steps are taken once they are ready, and a dial
  returns or is cancelled, since the session bounds `on_start`; the provider owes
  nothing.

## 5. What is proved

For all values of the constants, within the modules' assumptions on them.

**CallSession.** `TypeCorrect` first. `ReleasedOnce`, `VoiceKept` and the contract are
not inductive as they stand: that `acloses = 1` at the end says nothing about the
middle. The strengthening `IInv` has three parts. `StartedOnce`: a handler exists
only after its `on_start` was entered, and is built once, by a loop that has not read
`session.start` before. `ReleaseInStep`: for each stretch of the teardown, how often the
handler has been asked to release and whether it still is there. `ClosedInOrder`: the
socket is closed by us, and the slot freed, only past the handler. `ReleaseInvariant`
proves it inductive, with one step per action, and the properties follow.
`ContractImplemented` maps every step to one of the contract's or to a stutter: `HandlerReleased` is
`ShutGate`, the loop's start is `Build`, dispatching `aclose` is `AskToRelease`, releasing the slot is
`FreeSlot`, and one step may both shut the gate and free the slot if the socket is
already gone. `ContractReleases` is the contract's own consequence.

**HandshakeGuard.** The invariant is `RememberedWhileFresh`: a used handshake is in the
cache, stamped with its signing time, unless the last sweep made it too old, and then its timestamp has
left the window. It needs that the stamp is the signing time and that the clock does not
go back. `UsedOnce` and `CacheStaysRecent` follow for every window and sweep
interval.

**CallServer.** `RegistryInv` is inductive with or without a suspended `prepare`: of a callId
that was never let in twice, one connection is under way and the registry names it.
`OneSession`, `RegistryExact` and `AcloseFindsAll` follow. `LimitHeld` counts, and needs
`~PrepareSuspends`: sessions are in bijection with registered callIds, and admission
leaves room for one. After `aclose` has cleared the registry no connection is admitted in the
model, as the runner has stopped listening. `HandshakesUsedOnce` carries the guard's
theorem into the server, by showing that every server step is a step of the guard or
leaves it alone.

**OutboundLane.** `HeldByOneLeg` says nothing of a leg that is closing while it speaks,
nor of the age of the reservation, and so is not inductive. `LaneInv` adds both: a leg
that speaks, or is open with the message in its hands, is the only such leg, the record
is reserved, and it is not old enough to be given back; a leg that still looks cannot
make an old reservation; whoever has the call in `_finalized` is the taker. A speech
that failed breaks all of this (the leg keeps its copy and is watched no more), so the
invariant is conditional on `faltered = {}`. `OneLegHolds`, `NobodyToldTwice`,
`NothingVanishes` and `FinalizedSettled` follow, for any number of workers, legs,
attempts, stops and crashes. They rest on the timing stated in `GetsOld`.

**consult.py.** `NoAgentServesTwo` says nothing of the threads nobody waits for.
`ConsultInv` adds that a thread belongs to an asker built before, and that the asker
that is kept is idle, the one being waited for, or, after the call, the one its end cut short: then a
question to it, and a question to a fresh one, find it idle, but for that last one. `PromisesKept`
needs no more than the range of `file`: for any number of tasks and processes, the three
ways a file goes each have their reason.

**VoiceDelivery.** `NewestCallIsFound` is inductive with the ranges of its variables.
The cap is a matter of counting: `CapInv` says that the calls of the last hour that were
counted still are, and that they and the requests under way keep to the cap and the overlap
together, since the last request let in saw fewer calls than the cap. A call that rings
moves one from the second number to the first, and one that rings for a failed request is
in neither. `HeldInv` counts the calls the lane waits for with its requests under way.

**RecapSpool.** `NoRecapVanishes` holds of every step by itself. `NoMinutesTwice` rests on
`RecapInv`: as long as no disconnect cut into a connect, one drain at a time and nothing taken
for a dead owner's; one holder to a recap, unless it was taken over; and a recap that may
still be posted has not been, but for what is excused. It has no hypothesis: the ways in which
the same minutes can come twice are named in the property, and `recap_reload` shows the one the
code denies.

**Minutes.** `WellKept` and `WellRead` say of any transcript and any list of sections what
`AttributedRightly` and `NothingLost` say of the variables, with what a step needs
besides: consecutive entries join up, sections follow one another. So stated they are
about values rather than states, and the proof is a few lemmas on what appending one
fragment or one line does. What the document prints follows from what the parser keeps: a
heading is printed exactly when some line that says something stands under it. `PostInv` is that a post that may have landed is the last.

**TileRelay.** The frame that is being worked on is the next to be sent, and
`NewestFrameWins` does not mention it. `TileInv` says that it is newer than all that
were sent and older than the one that waits; `SendsKeepOrder` is the step that appends.

**AmbientVision.** Two invariants. `BudgetInv`: the looks that happened are on the books of
their minute, and the books keep to the ceiling and the reserve. `SightInv`
follows a frame from the source through queue and hand to the agent: what has been given,
the hand, the drain and the queue are in the order of capture; no frame relayed is newer
than what its source showed last, and if it is that one the source is latched to it; and
what is kept was recorded when it was shown.

**Slideshow.** `TileIsHandedOver` holds of any overlap of tool calls. `ShowInv` says that a
pacer that lives is of an older generation than every call that took the tile from it, so
that it stops at its next gap, and that one with a picture in hand is either waited for by all of
them or in `leftSending`, whose one picture the property lets off.

**VoiceLane.** `SilenceInv`: whoever was stopped is cancelled, or is the one that plays and
finds the flag before its next frame; one buffer plays at a time, so whoever clears the
flag clears it for nobody else.

**RealtimeTurns.** A latch is backed by a response, an ask or an event. `BackedInv` adds
that the news that a response began is followed in the queue by its end unless it runs, so
taking an event off the queue leaves something behind it.

**GroupGate.** `FloorInv`: whoever has the floor was named for it, and nobody has asked for
silence since.

**StartupBuffer.** The promise is taken apart into parts (`WordsInParts`), of which a step
disturbs few; `BufferInv` adds that both lanes rise, and that while the first lane is
being handed over no line has been; `BrokenInv` that a send breaks off once, and that its frame
is on no lane.

**SpokenTurn.** `EchoIsCovered` looks at what is heard now; `HorizonIsFar` says how far the
horizon reaches past the audio still queued, in each position of the loop, of a frame
about to be sent too, and that a cut leaves nothing but its tail. It exempts a frame that slipped
past a goodbye's cut, and that tail, as the property does (section 6). `CleanAtTheMark` is that the aligner and the lip sync hold nothing of an earlier answer.

**Visemes.** `WalkInv` carries what `FollowsTheText` leaves out: the last mark is the shape
of the last sound, and no mark is later than a character still to come. The walk is a state
machine, one character at a step, and needs no induction over the text.
`FollowsTheText` is conditional on times in order; a provider's need not be, and
`EstimateIsInOrder` proves that the estimate's are, for any text, duration and share.

**The plugins.** `RelayInv` says for each plugin which stages of the handler go with which of
the line. Every step of each is then one of the contract's or invisible to it
(`PluginsKeepTheContract`: the safety half of `RelaysOneLine`, which TLC checks with its
fairness). `OnlyLateJoinsStay` says of LiveKit that what `livekit_late_join` shows is the only way
in which a room stays joined. `OneVoiceOnly` rests on the claim, which the
property does not mention: a track the room carries is relayed by the claim's holder only.

**ChatChannel.** `TurnsInOrder` does not say what a parked turn waits for. `LaneInv` does: for the
turn before it in its conversation, and the chain ends in the last one, or all
are over. `NoFreshSecondTurn` needs that `_Seen` holds the messages of the most recent turns, as many as it
has room for (`SeenIsRecent`): a message that is let in again has been evicted, and so
at least `Capacity` others have come since. `OnlyTheirOwnRecentChat` needs that whoever is remembered was
seen in that conversation by a message of theirs that was news (`ChatsInv`): a repeat that is let
in has been evicted, and so enough others have come since the message was last noted.

Assumptions on the constants are ranges (`Capacity`, a queue or a ceiling are positive numbers, a
model value for "nobody" is nobody), each named in the module that declares them. Beyond
these, one theorem has a hypothesis, `LimitHeld`: that `ws.prepare()` does not suspend, which
section 2 argues and the code does not enforce. What the code does not keep is in the
statements themselves, as an exception that names the case, and in section 6.

**Model-checked only.** Every invariant and every action property of a passing run is a theorem. What stays with TLC
is liveness, since neither fairness nor `ENABLED` is in the prover's reach:
`SlotEventuallyFreed`, `FirstUnansweredIsReaped`, `AcloseGetsThrough`, `ShutdownEndsEveryCall`, `EventuallySettled`,
`EveryTurnEnds`, `EveryStopReturns`, `GoneProviderFreesTheCall`, and the fairness that is a
part of `RelaysOneLine`. What
`_timeline` and the parser of the minutes compute is proved step by step, as invariants of
their walks; that the walk itself ends is seen from the code.

## 6. Findings

Each is a run whose property quotes the repository (`PROJECT.json` has the lines).

1. `call_orphan`: a `session.start` in hand when the pre-start watchdog's teardown passes
   the handler step builds a handler nobody ever releases.
2. `call_reason`: a `session.end` frame read during a teardown replaces its reason, against "the
   FIRST reason wins".
3. `call_ceiling`: `on_goodbye` is awaited without a bound, so a handler that hangs in it keeps
   a call going past its ceiling, which the comment there says cannot happen.
4. `call_ringing`: any first recording report ends the ringing, but only one that turns recording on
   restarts the idle clock; a call may be ended for the silence of its ringing.
5. `server_redial`: the reaper remembers callIds rather than calls, and overlooks a callId
   dialled again before its next look.
6. `outbound_shutdown`: closing the lane during a delivery loses every record the sweep has
   taken; they were unlinked when they were read.
7. `livekit_late_join`: a room whose `connect` outlasts the teardown's two seconds is joined
   after `aclose`, and nothing leaves it.
8. `recap_reload`: a host that disconnects the platform while it is connecting, and connects
   again, has two drains on one spool, and the same minutes are posted twice.

Noted while modelling, without a run:

- `session.end()` awaited inside a handler's `aclose` waits for itself (`selfWait` in `CallSession`).
- If `ws.prepare()` suspends, two upgrades of one callId both pass the check, and the release
  of either removes the registry's only entry (`call_server.py:1112`, `:1144`).
- A message that was evicted from the dedupe set and is delivered again counts as news of its author and
  restarts the recency window; "a repeat is not" evidence, says the comment (`chat.py:577`).
  `OnlyTheirOwnRecentChat` excepts it.
- The end of a call cancels the question its model was asking, but the agent's thread runs on and
  stays the consultant's (`consult.py:204`); the recap asks the same consultant, so one agent
  may work on both. A consultation that timed out is dropped for that very reason.
- A call that StandIn placed and whose request ended in an error (`outbound.py:178`, `:239`) is not
  counted for the hourly cap.
- A drain takes over a claim that is ten minutes old from an owner still at work, and a post that
  was given up for failed may have arrived: the same minutes may come twice (`recap.py:268`, `:316`).
- A heading with nothing under it is in the parsed minutes and not in the document, as the parser's
  comment says (`minutes.py:303`): a line in bold by itself is lost.
- A release of the startup buffer that is cancelled, or fails in a send, has lost the frame it
  was sending (`startup.py:128`).
- Cutting an answer opens the echo guard at once, while the tail of what has been played still comes
  back (`echo_guard.py:92`): the caller's next words are let in, and so is that echo.
- A barge-in between two buffers of one answer is forgotten when the next buffer
  starts (`voice.py:414`): the flag is looked at while something plays.
- On LiveKit, where sends do not wait, frames that arrive during a release overtake those
  still held: "Order is preserved within each lane" (`startup.py:64`) holds of what was held.
- A frame that was latched when it was held and then dropped by the queue's bound is not
  offered again while the screen does not change (`ambient.py:255`).
- `say()` after an unaddressed turn has set `_drop_response` with no response active has
  its audio dropped; `request_say` creates no response while one is active.
- `on_goodbye` cancels the playback but not the lip sync, so the marks of the cut answer
  still go out (`lipsync.py` asks for `cancel()` on "a barge-in or a playback cancel"),
  and a frame that was being sent while the cancel is awaited is not covered by the echo guard.
- Two slideshow calls at once: the first to have sent its picture makes a pacer, and so does the
  second, whose `_slideshow` hides it (`vision_tools.py:585`). A third call stops and awaits the second
  pacer alone, and a picture the first one had in hand is sent after its own. The
  generation number stops the hidden pacer before its next picture, not in the one it is sending.
- A LiveKit audio track subscribed while another is claimed is not picked up when that one ends.
- The viseme timeline may keep two equal neighbours when a merge overwrites the mark between.
- The Hermes platform asks for `OutboundCaller.from_env()` (`platform.py`, `_build_delivery`),
  which does not exist, so it never has calls to place.

## 7. Not modelled

- `call_server.py`: `/healthz`, body limits and signature of the outcome route, a start that
  fails half way. A wall clock that is stepped back would reopen handshakes that were pruned.
- `outbound.py`: the HTTP caller with its address pinning, the parsing of the allowlist, chat
  callbacks, unreadable record files, and a StandIn that redials a worker ten minutes after
  placing.
- `chat.py`: parsing and images; the anonymous caller of `for_caller`.
- Vision: decoding, encoding and describing an image.
- `delivery.py`: a line that is half said when its call ends (`say` succeeds or fails as a whole).
- Plugins: session settings and tool schemas, LiveKit's avatar video, the greeting, and the
  installation of services. The echo plugin has no state.
- `calltools.py`, attachments, fetch, media, render, protocol, configuration, smoke test:
  no state between calls. The resampler and the loudness measure are arithmetic on samples.
- The TypeScript worker: a twin on another event loop, whose awaits fall elsewhere. The
  models here do not stand for it.

## 8. Plan

Done: every Python part that keeps state, each with a property aimed at what its tests do
not reach; a proof of every safety property the passing runs check. Open, in the order of what a
failure costs a caller:

1. That a freed slot in `CallServer` is what `CallSession` establishes: the interface `CallEnds` as a
   refinement of one by the other.
2. A `say` that is cut short in `VoiceDelivery`; a wall clock that is stepped back in
   `HandshakeGuard`, with the theorem restated for a bounded step.
3. The TypeScript server: its differences from `CallSession` as an instance.
