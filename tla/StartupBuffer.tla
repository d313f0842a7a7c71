----------------------------- MODULE StartupBuffer -----------------------------
(***************************************************************************)
(* What a caller says before the agent can hear it.  Frames and lines of   *)
(* context are held in two bounded lanes; once the agent is connected they *)
(* are handed over, audio first, by sends that may suspend, while what     *)
(* arrives meanwhile goes straight to the agent.  An entry leaves its lane *)
(* before its send, so that a release that is cancelled or fails in a send *)
(* leaves the rest where it was and may have lost that one.                *)
(***************************************************************************)
EXTENDS Naturals, Sequences

CONSTANTS
    MaxAudio,      \* the audio lane's bound
    MaxNotes,      \* the context lane's bound
    MaxSpoken      \* bound: frames, and lines, of the call

ASSUME StartupAssumption == MaxAudio \in Nat \ {0} /\ MaxNotes \in Nat \ {0}

VARIABLES
    holding,       \* _holding; the handler's agent is set in the same stretch
    audioLane,     \* _audio: the frames held, numbered in order
    noteLane,      \* _context
    releasing,     \* where release() is: "no", "audio", "context" or "over"
    spoken, noted, \* frames and lines that have arrived
    lost,          \* frames the bound has cost
    toAgent,       \* what the agent's sends were called with: the lane, the number,
                   \* and whether it came out of the buffer
    awaited,       \* the number of the held entry whose send is awaited, or 0
    brokenOff      \* history: frames whose send was cancelled or failed

handVars == <<awaited, brokenOff>>
startupVars == <<holding, audioLane, noteLane, releasing, spoken, noted, lost, toAgent, handVars>>

StartupInit ==
    /\ holding = TRUE /\ releasing = "no"
    /\ audioLane = <<>> /\ noteLane = <<>>
    /\ spoken = 0 /\ noted = 0 /\ lost = {} /\ toAgent = <<>>
    /\ awaited = 0 /\ brokenOff = {}

Frames(lane) == {lane[i] : i \in DOMAIN lane}
Hands(lane, n, held) == Append(toAgent, [lane |-> lane, number |-> n, held |-> held])

\* Mutant: what arrives at a full lane is dropped.
DropsNewest(lane, n, bound) == IF Len(lane) = bound THEN lane ELSE Append(lane, n)
\* A full lane gives up its oldest entry.
DropsOldest(lane, n, bound) ==
    IF Len(lane) = bound THEN Append(Tail(lane), n) ELSE Append(lane, n)

CallerSpeaks ==
    /\ spoken < MaxSpoken /\ spoken' = spoken + 1
    /\ IF holding
         THEN /\ audioLane' = DropsOldest(audioLane, spoken', MaxAudio)
              /\ lost' = lost \cup ((Frames(audioLane) \cup {spoken'}) \ Frames(audioLane'))
              /\ UNCHANGED toAgent
         ELSE toAgent' = Hands("audio", spoken', FALSE) /\ UNCHANGED <<audioLane, lost>>
    /\ UNCHANGED <<holding, noteLane, releasing, noted, handVars>>

ContextArrives ==
    /\ noted < MaxSpoken /\ noted' = noted + 1
    /\ IF holding
         THEN noteLane' = DropsOldest(noteLane, noted', MaxNotes) /\ UNCHANGED toAgent
         ELSE toAgent' = Hands("context", noted', FALSE) /\ UNCHANGED noteLane
    /\ UNCHANGED <<holding, audioLane, releasing, spoken, lost, handVars>>

\* release: holding ends before the first send.
BeginRelease ==
    /\ holding /\ holding' = FALSE /\ releasing' = "audio"
    /\ UNCHANGED <<audioLane, noteLane, spoken, noted, lost, toAgent, handVars>>

\* The frame is taken off its lane and given to a send.
ReleaseFrame ==
    /\ releasing = "audio" /\ awaited = 0
    /\ IF audioLane = <<>>
         THEN releasing' = "context" /\ UNCHANGED <<audioLane, toAgent, awaited>>
         ELSE /\ toAgent' = Hands("audio", Head(audioLane), TRUE)
              /\ audioLane' = Tail(audioLane) /\ awaited' = Head(audioLane)
              /\ UNCHANGED releasing
    /\ UNCHANGED <<holding, noteLane, spoken, noted, lost, brokenOff>>

ReleaseLine ==
    /\ releasing = "context" /\ awaited = 0
    /\ IF noteLane = <<>>
         THEN releasing' = "over" /\ UNCHANGED <<noteLane, toAgent, awaited>>
         ELSE /\ toAgent' = Hands("context", Head(noteLane), TRUE)
              /\ noteLane' = Tail(noteLane) /\ awaited' = Head(noteLane)
              /\ UNCHANGED releasing
    /\ UNCHANGED <<holding, audioLane, spoken, noted, lost, brokenOff>>

SendReturns ==
    /\ awaited # 0 /\ awaited' = 0
    /\ UNCHANGED <<holding, audioLane, noteLane, releasing, spoken, noted, lost, toAgent,
                   brokenOff>>

\* on_start is cancelled at one of the sends, or a send fails.  Its frame is off the
\* lane and may have reached the agent or not.
ReleaseStops ==
    /\ awaited # 0 /\ awaited' = 0 /\ releasing' = "over"
    /\ brokenOff' = IF releasing = "audio" THEN brokenOff \cup {awaited} ELSE brokenOff
    /\ UNCHANGED <<holding, audioLane, noteLane, spoken, noted, lost, toAgent>>

StartupNext ==
    \/ CallerSpeaks \/ ContextArrives
    \/ BeginRelease \/ ReleaseFrame \/ ReleaseLine \/ SendReturns \/ ReleaseStops

StartupSpec == StartupInit /\ [][StartupNext]_startupVars

-----------------------------------------------------------------------------
\* The caller's first words reach the agent: no frame vanishes or is heard twice, but
\* that a release which is cancelled or fails costs the one frame it is sending; "if
\* something has to be lost, lose the stale audio and keep what just happened"; and
\* what was held is heard in its order, the words before the notes.  What arrives
\* while the release still sends goes straight to the agent, past what is held, and
\* is not spoken of.
FirstWordsAreHeard ==
    LET Sent == {i \in DOMAIN toAgent : toAgent[i].lane = "audio"}
        Heard == {toAgent[i].number : i \in Sent} \ brokenOff
    IN /\ Heard \cup brokenOff \cup Frames(audioLane) \cup lost = 1..spoken
       /\ brokenOff # {} => releasing = "over" /\ \A m, n \in brokenOff : m = n
       /\ \A i, j \in Sent : i # j => toAgent[i].number # toAgent[j].number
       /\ \A l \in lost, n \in Heard \cup Frames(audioLane) : l < n
       /\ \A i, j \in DOMAIN toAgent :
            i < j /\ toAgent[i].held /\ toAgent[j].held =>
              IF toAgent[i].lane = toAgent[j].lane
                THEN toAgent[i].number < toAgent[j].number
                ELSE toAgent[i].lane = "audio"
=============================================================================
