------------------------- MODULE CallSessionProofs -------------------------
(***************************************************************************)
(* What holds of one call for every set of reasons, snapshots and statuses *)
(* and every setting of the watchdogs.  The safety properties that         *)
(* CallSession's run checks follow from its type invariant and the         *)
(* inductive invariant IInv, which says for each stretch of the teardown   *)
(* what the handler has been through by then.                              *)
(***************************************************************************)
EXTENDS CallSession, TLAPS

\* The teardown has not reached the handler, or is waiting for it.
BeforeHandler == teardown \in {"none", "scheduled", "gathering", "awaitStart"}
AtHandler == teardown \in {"releasing", "selfWait"}

\* on_start is entered by the one session.start the loop heeds.
StartedOnce ==
    /\ ~readStart => onStart = "no"
    /\ onStart = "no" => ~hasHandler /\ acloses = 0 /\ ~orphaned /\ ~InStart

\* What has been done with the handler, by the progress of the teardown.
ReleaseInStep ==
    /\ BeforeHandler => acloses = 0 /\ ~orphaned /\ (onStart # "no" => hasHandler)
    /\ AtHandler => acloses = 1 /\ ~orphaned /\ hasHandler
    /\ PastHandler => /\ hasHandler <=> orphaned
                      /\ onStart # "no" => acloses = IF orphaned THEN 0 ELSE 1

\* The slot is freed by the teardown's last step, the socket closed near it.
ClosedInOrder ==
    /\ slotHeld <=> teardown # "done"
    /\ socket = "closed" => PastHandler

IInv == StartedOnce /\ ReleaseInStep /\ ClosedInOrder

-----------------------------------------------------------------------------
\* The type invariant: every variable of a call keeps to its range, the idle
\* clock runs to one tick past the limit, and the reason is always one that the
\* server, the service or a caller of end() gave.
THEOREM TypeCorrect == Spec => []TypeOK
<1> USE CallSessionAssumption DEF CallSessionAssumption
<1>1. Init => TypeOK
  <2> SUFFICES ASSUME Init PROVE TypeOK
    OBVIOUS
  <2>1. /\ {readStart, startSeen, recording, reported} \subseteq BOOLEAN
        /\ {hasHandler, orphaned, slotHeld, rang} \subseteq BOOLEAN
    BY Zenon DEF Init
  <2> QED
    BY <2>1 DEF Init, TypeOK, PumpAt, TeardownAt, Reasons
<1>2. TypeOK /\ [Next]_vars => TypeOK'
  <2> SUFFICES ASSUME TypeOK, [Next]_vars PROVE TypeOK'
    OBVIOUS
  <2> USE DEF TypeOK, PumpAt, Kinds, TeardownAt, Reasons,
              pumpVars, recVars, clockVars, handlerVars, closeVars, watchVars
  <2>1. CASE Deliver  BY <2>1 DEF Deliver, Moves
  <2>2. CASE IgnoreFrame  BY <2>2 DEF IgnoreFrame, Handles
  <2>3. CASE StartFails  BY <2>3 DEF StartFails, Handles, SeedRecording, BeginClose
  <2>4. CASE StartCall
    <3>1. {readStart', startSeen', hasHandler', rang'} \subseteq BOOLEAN
      BY <2>4, Zenon DEF StartCall
    <3>2. PastHandler \in BOOLEAN
      BY DEF PastHandler
    <3>3. orphaned' \in BOOLEAN
      BY <2>4, <3>2, Zenon DEF StartCall
    <3>4. recording' \in BOOLEAN
      BY <2>4 DEF StartCall, SeedRecording
    <3> QED
      BY <2>4, <3>1, <3>3, <3>4 DEF StartCall, Handles, IdleArmed
  <2>5. CASE StartEnds  BY <2>5 DEF StartEnds, Moves, BeginClose
  <2>6. CASE MediaFrame
    <3>1. rang' \in BOOLEAN
      BY <2>6, Zenon DEF MediaFrame, clockVars
    <3> QED
      BY <2>6, <3>1 DEF MediaFrame, Handles
  <2>7. CASE SpeakerChangeEnds  BY <2>7 DEF SpeakerChangeEnds, GuardedCallback, BeginClose
  <2>8. CASE ContextFrame  BY <2>8 DEF ContextFrame, Handles, GuardedCallback
  <2>9. CASE RecordingFrame
    <3>1. {rang', reported'} \subseteq BOOLEAN
      BY <2>9, Zenon DEF RecordingFrame
    <3> QED
      BY <2>9, <3>1 DEF RecordingFrame, Handles, RestartsIdleClock, GuardedCallback
  <2>10. CASE SayFrame  BY <2>10 DEF SayFrame, Handles
  <2>11. CASE SayFlushed  BY <2>11 DEF SayFlushed, GuardedCallback
  <2>12. CASE CallbackEnds  BY <2>12 DEF CallbackEnds, Moves, BeginClose
  <2>13. CASE EndFrame  BY <2>13 DEF EndFrame, Handles
  <2>14. CASE PeerDrops  BY <2>14 DEF PeerDrops, Moves, BeginClose
  <2>15. CASE EndOfStream  BY <2>15 DEF EndOfStream, Moves, BeginClose
  <2>16. CASE PumpCancelled  BY <2>16 DEF PumpCancelled, BeginClose
  <2>17. CASE PumpEnds  BY <2>17 DEF PumpEnds, Moves
  <2>18. CASE HandlerEnds  BY <2>18 DEF HandlerEnds, BeginClose
  <2>19. CASE ServerCloses  BY <2>19 DEF ServerCloses, BeginClose
  <2>20. CASE PreStartFires  BY <2>20 DEF PreStartFires, BeginClose
  <2>21. CASE Tick
    <3>1. rang' \in BOOLEAN
      BY <2>21, Zenon DEF Tick
    <3> QED
      BY <2>21, <3>1 DEF Tick
  <2>22. CASE IdleFires  BY <2>22 DEF IdleFires, BeginClose
  <2>23. CASE DurationFires  BY <2>23 DEF DurationFires
  <2>24. CASE DurationSpeaks  BY <2>24 DEF DurationSpeaks
  <2>25. CASE DurationGoodbyeEnds  BY <2>25 DEF DurationGoodbyeEnds, BeginClose
  <2>26. CASE DurationEnds  BY <2>26 DEF DurationEnds, BeginClose
  <2>27. CASE TeardownStarts
    <3>1. slotHeld' \in BOOLEAN
      BY <2>27, Zenon DEF TeardownStarts, AfterTasks, AskHandlerToRelease, Announce
    <3> QED
      BY <2>27, <3>1 DEF TeardownStarts, AfterTasks, AskHandlerToRelease, Announce
  <2>28. CASE TasksGathered
    <3>1. slotHeld' \in BOOLEAN
      BY <2>28, Zenon DEF TasksGathered, AfterTasks, AskHandlerToRelease, Announce
    <3> QED
      BY <2>28, <3>1 DEF TasksGathered, AfterTasks, AskHandlerToRelease, Announce
  <2>29. CASE StartAwaited
    <3>1. slotHeld' \in BOOLEAN
      BY <2>29, Zenon DEF StartAwaited, AskHandlerToRelease, Announce
    <3> QED
      BY <2>29, <3>1 DEF StartAwaited, AskHandlerToRelease, Announce
  <2>30. CASE AcloseAwaitsEnd  BY <2>30 DEF AcloseAwaitsEnd
  <2>31. CASE HandlerReleased
    <3>1. {hasHandler', slotHeld'} \subseteq BOOLEAN
      BY <2>31, Zenon DEF HandlerReleased, Announce
    <3> QED
      BY <2>31, <3>1 DEF HandlerReleased, Announce
  <2>32. CASE HangUp  BY <2>32 DEF HangUp
  <2>33. CASE HungUp
    <3>1. slotHeld' \in BOOLEAN
      BY <2>33, Zenon DEF HungUp
    <3> QED
      BY <2>33, <3>1 DEF HungUp
  <2>34. CASE Over  BY <2>34 DEF Over, vars
  <2>35. CASE UNCHANGED vars  BY <2>35 DEF vars
  <2>36. QED
    BY <2>1, <2>2, <2>3, <2>4, <2>5, <2>6, <2>7, <2>8, <2>9, <2>10, <2>11,
       <2>12, <2>13, <2>14, <2>15, <2>16, <2>17, <2>18, <2>19, <2>20,
       <2>21, <2>22, <2>23, <2>24, <2>25, <2>26, <2>27, <2>28, <2>29,
       <2>30, <2>31, <2>32, <2>33, <2>34, <2>35
       DEF Next, Pump, Closers, Teardown
<1>3. QED
  BY <1>1, <1>2, PTL DEF Spec

-----------------------------------------------------------------------------
\* Passing the handler step keeps the invariant, whoever gets there: with a
\* handler the teardown asks it once, with none it goes on to the announcement
\* or straight to the freed slot.
LEMMA AskingInStep ==
    ASSUME IInv, TypeOK, TypeOK', BeforeHandler, AskHandlerToRelease,
           UNCHANGED <<pumpVars, handlerVars, socket>>
    PROVE  IInv'
<1> USE DEF IInv, StartedOnce, ReleaseInStep, ClosedInOrder, BeforeHandler,
            AtHandler, PastHandler, InStart, TypeOK, pumpVars, handlerVars
<1>1. CASE hasHandler
  BY <1>1 DEF AskHandlerToRelease
<1>2. CASE ~hasHandler /\ socket = "open"
  BY <1>2 DEF AskHandlerToRelease, Announce
<1>3. CASE ~hasHandler /\ socket # "open"
  <2>1. /\ teardown' = "done" /\ UNCHANGED acloses
        /\ ~slotHeld'
    BY <1>3, Zenon DEF AskHandlerToRelease, Announce
  <2> QED
    BY <1>3, <2>1
<1> QED
  BY <1>1, <1>2, <1>3

\* The inductive invariant: until the teardown reaches the handler nothing has
\* been asked of it, while it waits there the handler was asked once and is
\* still held, and past it only an orphan is still held (_teardown,
\* _on_session_start).
THEOREM ReleaseInvariant == Spec => []IInv
<1>1. Init => IInv
  BY DEF Init, IInv, StartedOnce, ReleaseInStep, ClosedInOrder, BeforeHandler,
         AtHandler, PastHandler, InStart
<1>2. IInv /\ TypeOK /\ TypeOK' /\ [Next]_vars => IInv'
  <2> SUFFICES ASSUME IInv, TypeOK, TypeOK', [Next]_vars PROVE IInv'
    OBVIOUS
  <2> USE DEF IInv, StartedOnce, ReleaseInStep, ClosedInOrder, BeforeHandler,
              AtHandler, PastHandler, InStart, TypeOK,
              pumpVars, recVars, clockVars, handlerVars, closeVars, watchVars
  <2>1. CASE Deliver  BY <2>1 DEF Deliver, Moves
  <2>2. CASE IgnoreFrame  BY <2>2 DEF IgnoreFrame, Handles
  <2>3. CASE StartFails  BY <2>3 DEF StartFails, Handles, BeginClose
  <2>4. CASE StartCall  BY <2>4 DEF StartCall, Handles
  <2>5. CASE StartEnds  BY <2>5 DEF StartEnds, Moves, BeginClose
  <2>6. CASE MediaFrame  BY <2>6 DEF MediaFrame, Handles
  <2>7. CASE SpeakerChangeEnds  BY <2>7 DEF SpeakerChangeEnds, GuardedCallback, BeginClose
  <2>8. CASE ContextFrame  BY <2>8 DEF ContextFrame, Handles, GuardedCallback
  <2>9. CASE RecordingFrame  BY <2>9 DEF RecordingFrame, Handles, GuardedCallback
  <2>10. CASE SayFrame  BY <2>10 DEF SayFrame, Handles
  <2>11. CASE SayFlushed  BY <2>11 DEF SayFlushed, GuardedCallback
  <2>12. CASE CallbackEnds  BY <2>12 DEF CallbackEnds, Moves, BeginClose
  <2>13. CASE EndFrame  BY <2>13 DEF EndFrame, Handles
  <2>14. CASE PeerDrops  BY <2>14 DEF PeerDrops, Moves, BeginClose
  <2>15. CASE EndOfStream  BY <2>15 DEF EndOfStream, Moves, BeginClose
  <2>16. CASE PumpCancelled  BY <2>16 DEF PumpCancelled, BeginClose
  <2>17. CASE PumpEnds  BY <2>17 DEF PumpEnds, Moves
  <2>18. CASE HandlerEnds  BY <2>18 DEF HandlerEnds, Closed, BeginClose
  <2>19. CASE ServerCloses  BY <2>19 DEF ServerCloses, BeginClose
  <2>20. CASE PreStartFires  BY <2>20 DEF PreStartFires, BeginClose
  <2>21. CASE Tick  BY <2>21 DEF Tick
  <2>22. CASE IdleFires  BY <2>22 DEF IdleFires, BeginClose
  <2>23. CASE DurationFires  BY <2>23 DEF DurationFires
  <2>24. CASE DurationSpeaks  BY <2>24 DEF DurationSpeaks
  <2>25. CASE DurationGoodbyeEnds  BY <2>25 DEF DurationGoodbyeEnds, BeginClose
  <2>26. CASE DurationEnds  BY <2>26 DEF DurationEnds, BeginClose
  <2>27. CASE TeardownStarts
    <3>1. CASE AfterTasks /\ ~InStart
      BY <2>27, <3>1, AskingInStep DEF TeardownStarts, AfterTasks
    <3>2. CASE /\ teardown' \in {"gathering", "awaitStart"}
               /\ UNCHANGED <<acloses, slotHeld>>
      BY <2>27, <3>2 DEF TeardownStarts
    <3> QED
      BY <2>27, <3>1, <3>2 DEF TeardownStarts, AfterTasks
  <2>28. CASE TasksGathered
    <3>1. CASE InStart  BY <2>28, <3>1 DEF TasksGathered, AfterTasks
    <3>2. CASE ~InStart  BY <2>28, <3>2, AskingInStep DEF TasksGathered, AfterTasks
    <3> QED  BY <3>1, <3>2
  <2>29. CASE StartAwaited  BY <2>29, AskingInStep DEF StartAwaited
  <2>30. CASE AcloseAwaitsEnd  BY <2>30 DEF AcloseAwaitsEnd
  <2>31. CASE HandlerReleased  BY <2>31 DEF HandlerReleased, Announce
  <2>32. CASE HangUp  BY <2>32 DEF HangUp
  <2>33. CASE HungUp  BY <2>33 DEF HungUp
  <2>34. CASE Over  BY <2>34 DEF Over, vars
  <2>35. CASE UNCHANGED vars  BY <2>35 DEF vars
  <2>36. QED
    BY <2>1, <2>2, <2>3, <2>4, <2>5, <2>6, <2>7, <2>8, <2>9, <2>10, <2>11,
       <2>12, <2>13, <2>14, <2>15, <2>16, <2>17, <2>18, <2>19, <2>20,
       <2>21, <2>22, <2>23, <2>24, <2>25, <2>26, <2>27, <2>28, <2>29,
       <2>30, <2>31, <2>32, <2>33, <2>34, <2>35
       DEF Next, Pump, Closers, Teardown
<1>3. QED
  BY <1>1, <1>2, TypeCorrect, PTL DEF Spec

-----------------------------------------------------------------------------
(* The safety properties that CallSession states. *)

\* Every handler is released exactly once before its slot is freed, orphans
\* apart: at "done" the invariant leaves no other possibility.
THEOREM ReleasedOnce == Spec => []ReleasedOnceBeforeFreed
<1>1. IInv /\ TypeOK => ReleasedOnceBeforeFreed
  BY DEF IInv, StartedOnce, ReleaseInStep, ClosedInOrder, BeforeHandler,
         AtHandler, PastHandler, ReleasedOnceBeforeFreed, TypeOK, TeardownAt
<1> QED
  BY <1>1, ReleaseInvariant, TypeCorrect, PTL

\* The server does not close the socket while a handler may still speak.
THEOREM VoiceKept == Spec => []VoiceUntilReleased
<1>1. IInv => VoiceUntilReleased
  BY DEF IInv, ClosedInOrder, VoiceUntilReleased
<1> QED
  BY <1>1, ReleaseInvariant, PTL

\* The handler's aclose is dispatched over a running on_start only by the step
\* that has waited for it.
THEOREM GraceGiven == Spec => StartGetsItsGrace
<1>1. TypeOK /\ [Next]_vars
        => [acloses' > acloses => ~InStart \/ teardown = "awaitStart"]_vars
  <2> SUFFICES ASSUME TypeOK, [Next]_vars, acloses' > acloses
               PROVE  ~InStart \/ teardown = "awaitStart"
    OBVIOUS
  <2>1. acloses' # acloses
    BY DEF TypeOK
  <2>2. CASE Pump \/ Closers \/ Over \/ UNCHANGED vars
    BY <2>1, <2>2
       DEF Pump, Closers, Over, vars, Deliver, IgnoreFrame, StartFails, StartCall, StartEnds,
           MediaFrame, SpeakerChangeEnds, ContextFrame, RecordingFrame, SayFrame,
           SayFlushed, CallbackEnds, EndFrame, PeerDrops, EndOfStream,
           PumpCancelled, PumpEnds, HandlerEnds, ServerCloses, PreStartFires,
           Tick, IdleFires, DurationFires, DurationSpeaks, DurationGoodbyeEnds,
           DurationEnds
  <2>3. CASE Teardown
    BY <2>1, <2>3
       DEF Teardown, TeardownStarts, TasksGathered, StartAwaited, AcloseAwaitsEnd, HandlerReleased,
           HangUp, HungUp, AfterTasks
  <2> QED
    BY <2>2, <2>3 DEF Next
<1> QED
  BY <1>1, TypeCorrect, PTL DEF Spec, StartGetsItsGrace

\* Once released, a handler is not called again: every callback looks for it.
THEOREM NothingAfterRelease == Spec => NoCallbackAfterRelease
<1>1. [Next]_vars =>
        [acloses = 1 /\ ~hasHandler =>
            /\ pump' \in {"callback", "attributing"} => pump' = pump
            /\ duration' = "goodbye" => duration = "goodbye"]_vars
  <2> SUFFICES ASSUME [Next]_vars, ~hasHandler
               PROVE  /\ pump' \in {"callback", "attributing"} => pump' = pump
                      /\ duration' = "goodbye" => duration = "goodbye"
    OBVIOUS
  <2> USE DEF pumpVars, watchVars
  <2>1. CASE Pump
    BY <2>1 DEF Pump, Deliver, IgnoreFrame, StartFails, StartCall, StartEnds,
           MediaFrame, SpeakerChangeEnds, ContextFrame, RecordingFrame, SayFrame,
           SayFlushed, CallbackEnds, EndFrame, PeerDrops, EndOfStream,
           PumpCancelled, PumpEnds, Moves, Handles, GuardedCallback
  <2>2. CASE Closers
    BY <2>2 DEF Closers, HandlerEnds, ServerCloses, PreStartFires, Tick, IdleFires,
           DurationFires, DurationSpeaks, DurationGoodbyeEnds, DurationEnds
  <2>3. CASE Teardown
    BY <2>3 DEF Teardown, TeardownStarts, TasksGathered, StartAwaited, AcloseAwaitsEnd, HandlerReleased,
           HangUp, HungUp
  <2>4. CASE Over \/ UNCHANGED vars
    BY <2>4 DEF Over, vars
  <2> QED
    BY <2>1, <2>2, <2>3, <2>4 DEF Next
<1> QED
  BY <1>1, PTL DEF Spec, NoCallbackAfterRelease

\* After the first report the snapshot of a session.start changes nothing.
THEOREM ReportKept == Spec => ReportedStatusWins
<1>1. [Next]_vars =>
        [reported /\ recording' # recording => inHand = "recording.status"]_vars
  <2> SUFFICES ASSUME [Next]_vars, reported, recording' # recording
               PROVE  inHand = "recording.status"
    OBVIOUS
  <2> USE DEF recVars
  <2>1. CASE Pump
    BY <2>1 DEF Pump, Deliver, IgnoreFrame, StartFails, StartCall, StartEnds,
           MediaFrame, SpeakerChangeEnds, ContextFrame, RecordingFrame, SayFrame,
           SayFlushed, CallbackEnds, EndFrame, PeerDrops, EndOfStream,
           PumpCancelled, PumpEnds, SeedRecording, Handles
  <2>2. CASE Closers
    BY <2>2 DEF Closers, HandlerEnds, ServerCloses, PreStartFires, Tick, IdleFires,
           DurationFires, DurationSpeaks, DurationGoodbyeEnds, DurationEnds
  <2>3. CASE Teardown
    BY <2>3 DEF Teardown, TeardownStarts, TasksGathered, StartAwaited, AcloseAwaitsEnd, HandlerReleased,
           HangUp, HungUp
  <2>4. CASE Over \/ UNCHANGED vars
    BY <2>4 DEF Over, vars
  <2> QED
    BY <2>1, <2>2, <2>3, <2>4 DEF Next
<1> QED
  BY <1>1, PTL DEF Spec, ReportedStatusWins

-----------------------------------------------------------------------------
(* The refinement of HandlerContract. *)

\* What the contract sees of a call.
Seen == <<Stage, PastHandler, slotHeld>>

\* The handler step is an AskToRelease of the contract when there is a handler
\* and a ShutGate when there is none.
LEMMA AskingRefines ==
    ASSUME IInv, TypeOK, TypeOK', BeforeHandler, AskHandlerToRelease,
           UNCHANGED <<pumpVars, handlerVars, socket>>
    PROVE  Contract!Next
<1> USE DEF IInv, StartedOnce, ReleaseInStep, ClosedInOrder, BeforeHandler,
            PastHandler, InStart, TypeOK, pumpVars, handlerVars
<1>1. CASE hasHandler
  <2>1. Contract!AskToRelease
    BY <1>1 DEF AskHandlerToRelease, Contract!AskToRelease, Stage
  <2> QED
    BY <2>1 DEF Contract!Next
<1>2. CASE ~hasHandler
  <2>1. Stage = "unbuilt" /\ Stage' = "unbuilt" /\ ~PastHandler
    BY <1>2 DEF Stage
  <2>2. /\ teardown' \in {"announcing", "done"}
        /\ slotHeld' = slotHeld \/ slotHeld' = FALSE
    BY <1>2, Zenon DEF AskHandlerToRelease, Announce
  <2>3. Contract!ShutGate
    BY <2>1, <2>2 DEF Contract!ShutGate
  <2> QED
    BY <2>3 DEF Contract!Next
<1> QED
  BY <1>1, <1>2

\* Every step of a call is a step of the contract or changes nothing it sees.
THEOREM ContractImplemented == Spec => ImplementsContract
<1>1. Init => Contract!Init
  BY DEF Init, Contract!Init, Stage, PastHandler
<1>2. IInv /\ IInv' /\ TypeOK /\ TypeOK' /\ [Next]_vars
        => [Contract!Next]_(Contract!vars)
  <2> SUFFICES ASSUME IInv, IInv', TypeOK, TypeOK', [Next]_vars
               PROVE  Contract!Next \/ UNCHANGED Seen
    BY DEF Contract!vars, Seen
  <2> USE DEF IInv, StartedOnce, ReleaseInStep, ClosedInOrder, BeforeHandler,
              AtHandler, PastHandler, InStart, TypeOK, TeardownAt,
              pumpVars, recVars, clockVars, handlerVars, closeVars, watchVars
  <2>1. CASE StartCall
    <3>1. Contract!Build
      BY <2>1 DEF StartCall, Handles, Contract!Build, Stage
    <3> QED
      BY <3>1 DEF Contract!Next
  <2>2. CASE Pump /\ ~StartCall
    BY <2>2
       DEF Pump, Seen, Stage, Deliver, IgnoreFrame, StartFails, StartEnds, MediaFrame,
           SpeakerChangeEnds, ContextFrame, RecordingFrame, SayFrame, SayFlushed,
           CallbackEnds, EndFrame, PeerDrops, EndOfStream, PumpCancelled,
           PumpEnds,
           Moves, Handles, GuardedCallback, BeginClose
  <2>3. CASE Closers
    BY <2>3
       DEF Closers, Seen, Stage, HandlerEnds, ServerCloses, PreStartFires, Tick, IdleFires,
           DurationFires, DurationSpeaks, DurationGoodbyeEnds, DurationEnds,
           BeginClose
  <2>4. CASE TeardownStarts
    <3>1. CASE AfterTasks /\ ~InStart
      BY <2>4, <3>1, AskingRefines DEF TeardownStarts, AfterTasks
    <3>2. CASE /\ teardown' \in {"gathering", "awaitStart"}
               /\ UNCHANGED <<acloses, slotHeld>>
      BY <2>4, <3>2 DEF TeardownStarts, Seen, Stage
    <3> QED
      BY <2>4, <3>1, <3>2 DEF TeardownStarts, AfterTasks
  <2>5. CASE TasksGathered
    <3>1. CASE InStart
      BY <2>5, <3>1 DEF TasksGathered, AfterTasks, Seen, Stage
    <3>2. CASE ~InStart
      BY <2>5, <3>2, AskingRefines DEF TasksGathered, AfterTasks
    <3> QED
      BY <3>1, <3>2
  <2>6. CASE StartAwaited
    BY <2>6, AskingRefines DEF StartAwaited
  <2>7. CASE HandlerReleased
    <3>1. /\ teardown' \in {"announcing", "done"}
          /\ slotHeld' = slotHeld \/ slotHeld' = FALSE
      BY <2>7, Zenon DEF HandlerReleased, Announce
    <3>2. Stage = "closing" /\ Stage' = "closed"
      BY <2>7 DEF HandlerReleased, Stage
    <3>3. Contract!ShutGate
      BY <2>7, <3>1, <3>2 DEF HandlerReleased, Contract!ShutGate
    <3> QED
      BY <3>3 DEF Contract!Next
  <2>8. CASE HungUp
    <3>1. slotHeld' = FALSE
      BY <2>8, Zenon DEF HungUp
    <3>2. Contract!FreeSlot
      BY <2>8, <3>1 DEF HungUp, Contract!FreeSlot, Stage
    <3> QED
      BY <3>2 DEF Contract!Next
  <2>9. CASE AcloseAwaitsEnd \/ HangUp \/ Over \/ UNCHANGED vars
    BY <2>9 DEF AcloseAwaitsEnd, HangUp, Over, vars, Seen, Stage
  <2> QED
    BY <2>1, <2>2, <2>3, <2>4, <2>5, <2>6, <2>7, <2>8, <2>9
       DEF Next, Teardown
<1> QED
  BY <1>1, <1>2, ReleaseInvariant, TypeCorrect, PTL
     DEF Spec, ImplementsContract, Contract!Spec

\* What the contract is worth: under it alone a freed slot means that no handler
\* is serving or still letting go.  Only the gate's having shut keeps it so.
THEOREM ContractReleases == Contract!Spec => []Contract!ReleasedBeforeFreed
<1> DEFINE ShutMeansDone ==
              /\ PastHandler => Stage \notin {"serving", "closing"}
              /\ ~slotHeld => PastHandler
<1>1. Contract!Init => ShutMeansDone
  BY DEF Contract!Init
<1>2. ShutMeansDone /\ [Contract!Next]_(Contract!vars) => ShutMeansDone'
  BY DEF Contract!Next, Contract!vars, Contract!Build, Contract!AskToRelease,
         Contract!ShutGate, Contract!FreeSlot
<1>3. ShutMeansDone => Contract!ReleasedBeforeFreed
  BY DEF Contract!ReleasedBeforeFreed
<1> QED
  BY <1>1, <1>2, <1>3, PTL DEF Contract!Spec
=============================================================================
