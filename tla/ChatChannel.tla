------------------------------ MODULE ChatChannel ------------------------------
(***************************************************************************)
(* The messages lane.  StandIn pushes chat messages down one socket, at    *)
(* least once each; every message it has not seen becomes a task that      *)
(* waits for the previous task of its conversation, takes one turn of the  *)
(* agent and answers.  Personal messages also feed PersonalChats, which    *)
(* says later where a caller may be written to.                            *)
(***************************************************************************)
EXTENDS Integers, FiniteSets, SequencesExt

CONSTANTS
    Messages,      \* the activities StandIn may push, each any number of times
    Conversation,  \* Messages -> conversations
    Author,        \* Messages -> people; Nobody for a message that is not personal
    Nobody,
    Capacity,      \* of _Seen
    MaxSenders,    \* _MAX_REMEMBERED_SENDERS
    Window,        \* CHAT_FALLBACK_WINDOW_MS
    MaxTime,       \* bound of the clock
    MaxTurns       \* bound: tasks created

ASSUME ChatAssumption == Capacity \in Nat \ {0} /\ MaxSenders \in Nat \ {0} /\ Window \in Nat

VARIABLES
    chatWs,      \* "unopened", "open", or "closed"
    chatReader,  \* _task: "none", "reading" or "ended"
    listenOnly,
    seen,        \* _Seen, the oldest key first
    turns,       \* the tasks made by _enqueue, oldest first
    pending,     \* _tasks: those whose done callback has not run
    chains,      \* _chains: the last task of each conversation, or 0
    chats,       \* PersonalChats._by_sender, the first to be forgotten first
    chatClock,
    chatClosing, \* aclose: "no", "cancelling", "done"
    evidence,    \* history: when each message was last news of its author, or -1
    since        \* history: the other messages let in since it was last let in

laneVars == <<chatWs, chatReader, listenOnly>>
turnVars == <<seen, turns, pending, chains>>
personVars == <<chats, chatClock, evidence, since>>
chatVars == <<laneVars, turnVars, personVars, chatClosing>>

Conversations == {Conversation[m] : m \in Messages}
People == {Author[m] : m \in Messages} \ {Nobody}

\* A turn waits, asks the agent, sends an answer or an apology, and is over.
Working == {"parked", "thinking", "sending"}
Finished == {"sent", "unsent", "cancelled"}

ChatInit ==
    /\ chatWs = "unopened" /\ chatReader = "none" /\ listenOnly \in BOOLEAN
    /\ seen = <<>> /\ turns = <<>> /\ pending = {}
    /\ chains = [c \in Conversations |-> 0]
    /\ chats = <<>> /\ chatClock = 0 /\ chatClosing = "no"
    /\ evidence = [m \in Messages |-> -1] /\ since = [m \in Messages |-> {}]

\* The last n of s.
LastOf(s, n) == IF Len(s) > n THEN SubSeq(s, Len(s) - n + 1, Len(s)) ELSE s

-----------------------------------------------------------------------------
(* The socket. *)

\* start(); a dial that fails changes nothing.
StartChat ==
    /\ chatWs = "unopened" /\ chatWs' = "open"
    /\ chatClosing = "no"
    /\ chatReader' = "reading"
    /\ UNCHANGED <<listenOnly, turnVars, personVars, chatClosing>>

\* StandIn or the network closes it: the reader's loop ends, the turns go on.
LoseChat ==
    /\ chatWs = "open" /\ chatWs' = "closed"
    /\ chatReader' = "ended"
    /\ UNCHANGED <<listenOnly, turnVars, personVars, chatClosing>>

-----------------------------------------------------------------------------
(* A message arrives. *)

FirstTime(m) == \A i \in DOMAIN seen : seen[i] # m

\* mark_first: a repeat of a key does not make it younger.
MarkFirst(m) == seen' = LastOf(Append(seen, m), Capacity)

\* A dictionary, in the order of its insertions, without the entry of p.
Pop(s, p) ==
    IF \E i \in DOMAIN s : s[i].who = p
    THEN RemoveAt(s, CHOOSE i \in DOMAIN s : s[i].who = p)
    ELSE s

\* PersonalChats.remember: scope decides, and the entry moves to the end.
Entry(m) == [who |-> Author[m], conv |-> Conversation[m], seenAt |-> chatClock]
Remember(m) ==
    chats' = IF Author[m] = Nobody THEN chats
             ELSE LastOf(Append(Pop(chats, Author[m]), Entry(m)), MaxSenders)

\* _enqueue: the new task holds the one before it, whatever happens to the chain.
Enqueue(m) ==
    LET c == Conversation[m]
        n == Len(turns) + 1
    IN  /\ turns' = Append(turns, [msg |-> m, after |-> chains[c], at |-> "parked"])
        /\ chains' = [chains EXCEPT ![c] = n]
        /\ pending' = pending \cup {n}

\* The history: the first copy of a message is news of its author, and so is one that
\* comes after Capacity other messages, which no memory of Capacity keys tells from it.
Note(m) ==
    /\ evidence' = IF evidence[m] = -1 \/ Cardinality(since[m]) >= Capacity
                   THEN [evidence EXCEPT ![m] = chatClock] ELSE evidence
    /\ since' = [o \in Messages |-> IF o = m THEN {} ELSE since[o] \cup {m}]

Receive(m) ==
    /\ chatReader = "reading" /\ Len(turns) < MaxTurns
    /\ FirstTime(m)
    /\ MarkFirst(m) /\ Remember(m)
    /\ Note(m)
    /\ IF listenOnly THEN UNCHANGED <<turns, chains, pending>> ELSE Enqueue(m)
    /\ UNCHANGED <<laneVars, chatClock, chatClosing>>

\* Mutant: a repeat is remembered like a first sight of the message.
RememberRepeat(m) ==
    /\ chatReader = "reading"
    /\ ~FirstTime(m)
    /\ Remember(m)
    /\ UNCHANGED <<laneVars, turnVars, chatClock, evidence, since, chatClosing>>

\* A repeat, or a frame that does not parse: nothing happens.
ReceiveRepeat(m) ==
    /\ chatReader = "reading"
    /\ ~FirstTime(m)
    /\ UNCHANGED chatVars

-----------------------------------------------------------------------------
(* A turn. *)

GoesTo(i, state) == turns' = [turns EXCEPT ![i].at = state]
TurnStep(i, from) == i \in DOMAIN turns /\ turns[i].at = from /\ chatClosing = "no"
OnlyTurns == UNCHANGED <<laneVars, seen, pending, chains, personVars, chatClosing>>

\* The previous turn is over, however it ended.
PreviousOver(i) ==
    turns[i].after # 0 => turns[turns[i].after].at \in Finished

\* The typing indicator is sent, or dropped, and the agent is asked.
BeginTurn(i) ==
    TurnStep(i, "parked") /\ PreviousOver(i) /\ GoesTo(i, "thinking") /\ OnlyTurns

\* It answers, says nothing, or raises: the person is told something.
RespondEnds(i) == TurnStep(i, "thinking") /\ GoesTo(i, "sending") /\ OnlyTurns

\* Mutant: a turn has no bound.
NeverTimesOut(i) == FALSE

\* TURN_TIMEOUT_S
TurnTimesOut(i) == TurnStep(i, "thinking") /\ GoesTo(i, "sending") /\ OnlyTurns

\* The agent's own cancellation: the turn ends without a word.
RespondCancelled(i) == TurnStep(i, "thinking") /\ GoesTo(i, "cancelled") /\ OnlyTurns

\* _send drops the reply on a closed socket and never raises.
SendReply(i) ==
    /\ TurnStep(i, "sending")
    /\ \/ chatWs = "open" /\ GoesTo(i, "sent")
       \/ GoesTo(i, "unsent")
    /\ OnlyTurns

\* Mutant: the chain is dropped whichever task it ends in.
PruneAlways(i) == [chains EXCEPT ![Conversation[turns[i].msg]] = 0]
Pruned(i) ==
    LET c == Conversation[turns[i].msg]
    IN  IF chains[c] = i THEN [chains EXCEPT ![c] = 0] ELSE chains

\* The done callback.
TurnDone(i) ==
    /\ i \in pending /\ turns[i].at \in Finished
    /\ pending' = pending \ {i}
    /\ chains' = Pruned(i)
    /\ UNCHANGED <<laneVars, seen, turns, personVars, chatClosing>>

-----------------------------------------------------------------------------
(* aclose *)

CancelChat ==
    /\ chatClosing = "no" /\ chatClosing' = "cancelling"
    /\ UNCHANGED <<laneVars, turnVars, personVars>>

\* CancelledError, raised where the task waits.
TurnUnwinds(i) ==
    /\ chatClosing = "cancelling" /\ turns[i].at \in Working
    /\ GoesTo(i, "cancelled")
    /\ OnlyTurns

CloseChat ==
    /\ chatClosing = "cancelling" /\ chatClosing' = "done"
    /\ \A i \in pending : turns[i].at \in Finished
    /\ pending' = {} /\ chains' = [c \in Conversations |-> 0]
    /\ chatReader' = IF chatReader = "none" THEN "none" ELSE "ended"
    /\ chatWs' = IF chatWs = "unopened" THEN "unopened" ELSE "closed"
    /\ UNCHANGED <<listenOnly, seen, turns, personVars>>

ChatTick ==
    /\ chatClock < MaxTime /\ chatClock' = chatClock + 1
    /\ UNCHANGED <<laneVars, turnVars, chats, evidence, since, chatClosing>>

-----------------------------------------------------------------------------
TurnSteps(i) ==
    BeginTurn(i) \/ TurnTimesOut(i) \/ SendReply(i) \/ TurnUnwinds(i)

ChatNext ==
    \/ StartChat \/ LoseChat \/ CancelChat \/ CloseChat \/ ChatTick
    \/ \E m \in Messages : chatClosing = "no" /\ (Receive(m) \/ ReceiveRepeat(m))
    \/ \E i \in DOMAIN turns :
           \/ TurnSteps(i) \/ TurnDone(i)
           \/ RespondEnds(i) \/ RespondCancelled(i)

ChatSpec == ChatInit /\ [][ChatNext]_chatVars

-----------------------------------------------------------------------------
\* PersonalChats.for_caller, for a caller who is named: their own chat, and recent.
ForCaller(p) ==
    {chats[i].conv : i \in {k \in DOMAIN chats :
        chats[k].who = p /\ chatClock - chats[k].seenAt <= Window}}

\* The schema promises order within a conversation: no turn begins before the
\* turns of that conversation that were accepted earlier are over.
TurnsInOrder ==
    \A i, j \in DOMAIN turns :
        /\ i < j /\ Conversation[turns[i].msg] = Conversation[turns[j].msg]
        /\ turns[j].at \notin {"parked", "cancelled"}
        => turns[i].at \in Finished

\* The messages of the turns made between two turns.
Between(i, j) == {turns[k].msg : k \in (i + 1)..(j - 1)}

\* "a fresh double-run is not [acceptable]": a message takes a second turn only
\* after Capacity other messages have been let in since its first.
NoFreshSecondTurn ==
    \A i, j \in DOMAIN turns :
        i < j /\ turns[i].msg = turns[j].msg =>
            Cardinality(Between(i, j)) >= Capacity

\* A caller is only ever sent to a conversation in which that very person wrote
\* privately within the window, and a repeat of an older message is no evidence,
\* until Capacity other messages have come since: such a repeat is let in as news,
\* though the comment in _run excludes every repeat.
OnlyTheirOwnRecentChat ==
    \A p \in People : \A c \in ForCaller(p) :
        \E m \in Messages :
            /\ Author[m] = p /\ Conversation[m] = c
            /\ evidence[m] >= 0 /\ chatClock - evidence[m] <= Window

\* What StandIn sends again does nothing new, to the agent or to the person.
RedeliveriesAreHarmless == NoFreshSecondTurn /\ OnlyTheirOwnRecentChat
=============================================================================
