------------------------------- MODULE MCSafety -------------------------------
(***************************************************************************)
(* The parts that are checked for what they may never do, side by side in  *)
(* one model-checking run: each behaviour is a behaviour of one part,      *)
(* chosen at the start, with the other parts at rest.  The modules are     *)
(* extended, so that the run checks the very formulas that the theorems    *)
(* state.                                                                  *)
(***************************************************************************)
EXTENDS HandshakeGuard, Consultant, BackgroundTasks, VoiceLane, AmbientVision,
        RealtimeTurns, GroupGate, StartupBuffer, TileRelay, VoiceDelivery, RecapSpool,
        Minutes, SpokenTurn, Visemes

CONSTANT Parts

\* A caller who only shares a screen.
OneScreen == <<"screenshare">>

VARIABLE part

allVars ==
    <<part, vars, consultVars, taskVars, voiceVars, visionVars, turnVars, gateVars,
      startupVars, tileVars, deliveryVars, recapVars, minutesVars, spokenVars, lipVars>>

SuiteInit ==
    /\ part \in Parts
    /\ Init /\ ConsultInit /\ TasksInit /\ VoiceInit
    /\ VisionInit /\ (part # "sight" => recorded = FALSE /\ sinkReady = FALSE)
    /\ TurnsInit /\ (part # "turns" => autoOn = FALSE)
    /\ GateInit /\ (part # "gate" => meetingThread = FALSE /\ wakePhrases = FALSE)
    /\ StartupInit /\ TileInit /\ DeliveryInit /\ RecapInit /\ MinutesInit /\ SpokenInit
    /\ IF part = "lips" THEN LipInit
       ELSE characters = <<>> /\ startMs = <<>> /\ walked = 0 /\ previous = -1 /\ kept = <<>>

\* Everything but the part's own variables.
Others(name) ==
    /\ name # "guard" => UNCHANGED vars
    /\ name # "consult" => UNCHANGED consultVars
    /\ name # "tasks" => UNCHANGED taskVars
    /\ name # "voice" => UNCHANGED voiceVars
    /\ name # "sight" => UNCHANGED visionVars
    /\ name # "turns" => UNCHANGED turnVars
    /\ name # "gate" => UNCHANGED gateVars
    /\ name # "startup" => UNCHANGED startupVars
    /\ name # "tile" => UNCHANGED tileVars
    /\ name # "delivery" => UNCHANGED deliveryVars
    /\ name # "recap" => UNCHANGED recapVars
    /\ name # "minutes" => UNCHANGED minutesVars
    /\ name # "speech" => UNCHANGED spokenVars
    /\ name # "lips" => UNCHANGED lipVars

PartRuns(name) == part = name /\ UNCHANGED part /\ Others(name)

SuiteNext ==
    \/ PartRuns("guard") /\ Next
    \/ PartRuns("consult") /\ ConsultNext
    \/ PartRuns("tasks") /\ TasksNext
    \/ PartRuns("voice") /\ VoiceNext
    \/ PartRuns("sight") /\ VisionNext
    \/ PartRuns("turns") /\ TurnsNext
    \/ PartRuns("gate") /\ GateNext
    \/ PartRuns("startup") /\ StartupNext
    \/ PartRuns("tile") /\ TileNext
    \/ PartRuns("delivery") /\ DeliveryNext
    \/ PartRuns("recap") /\ RecapNext
    \/ PartRuns("minutes") /\ MinutesNext
    \/ PartRuns("speech") /\ SpokenNext
    \/ PartRuns("lips") /\ Walk

SuiteSpec == SuiteInit /\ [][SuiteNext]_allVars
=============================================================================
