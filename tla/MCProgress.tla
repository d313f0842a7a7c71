------------------------------ MODULE MCProgress ------------------------------
(***************************************************************************)
(* The parts of a call that somebody waits for: a chat channel, whose      *)
(* turns wait for one another, a slideshow that is to give way, and the    *)
(* provider plugins.  Each behaviour is a behaviour of one part, chosen at *)
(* the start, with the other parts at rest.                                *)
(***************************************************************************)
EXTENDS MCPlugins, ChatChannel, Slideshow

\* Everybody writes in one conversation; the first message is personal.
OneConversation == [m \in Messages |-> "c1"]
OnlyAnnInPrivate == [m \in Messages |-> IF m = "m1" THEN "ann" ELSE Nobody]

VARIABLE part

vars == <<part, chatVars, showVars, pluginVars>>

Init ==
    /\ part \in {"chat", "show", "plugin"}
    /\ ChatInit /\ (part # "chat" => listenOnly = FALSE)
    /\ ShowInit
    /\ IF part = "plugin" THEN PluginInit ELSE NoPlugin

Next ==
    /\ UNCHANGED part
    /\ \/ part = "chat" /\ ChatNext /\ UNCHANGED <<showVars, pluginVars>>
       \/ part = "show" /\ ShowNext /\ UNCHANGED <<chatVars, pluginVars>>
       \/ part = "plugin" /\ PluginNext /\ UNCHANGED <<chatVars, showVars>>

\* The event loop runs every task that can go on, and the timer of a turn fires.
TurnFairness ==
    \A i \in 1..MaxTurns :
        WF_chatVars(part = "chat" /\ i \in DOMAIN turns /\ TurnSteps(i))

\* The timer of a gap fires, and a picture is sent or skipped in the end.
ShowFairness ==
    \A c \in ShowCalls :
        /\ WF_showVars(part = "show" /\ PacerSteps(c))
        /\ WF_showVars(part = "show" /\ Stopped(c))

Spec == Init /\ [][Next]_vars /\ TurnFairness /\ ShowFairness /\ PluginFairness

-----------------------------------------------------------------------------
\* No hung agent keeps a conversation waiting for ever (TURN_TIMEOUT_S).
EveryTurnEnds == \A i \in 1..MaxTurns :
        i \in DOMAIN turns ~> i \in DOMAIN turns /\ turns[i].at \in Finished
=============================================================================
