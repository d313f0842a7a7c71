-------------------------------- MODULE Minutes --------------------------------
(***************************************************************************)
(* The write-up of a meeting: the transcript that is kept as the call      *)
(* goes, the reading of what the model wrote into the sections of a        *)
(* document, and the post to the best conversation that can be reached.    *)
(***************************************************************************)
EXTENDS Naturals, Sequences, FiniteSets

CONSTANTS
    Speakers,        \* the people on the call; Agent is one of them
    Agent,
    MaxEntry,        \* MAX_TRANSCRIPT_ENTRY_CHARS, in fragments
    MaxTranscript,   \* MAX_TRANSCRIPT_TURNS
    MaxFragments,    \* bound: fragments of the call
    MaxLines         \* bound: lines of the model's answer

ASSUME MinutesAssumption == MaxTranscript \in Nat \ {0}

VARIABLES
    saidBy,     \* history: who said each fragment
    entries,    \* the entries kept: the speaker and the numbers of the fragments
    visuals,    \* the last thing recorded as shown; 0 is nothing
    answer,     \* what the model wrote: each line's kind
    sections,   \* the answer as read: heading, and the lines under it
    targets,    \* the conversations still to try, best first
    writeUp,    \* "call", "writing", "posting" or "over"
    reached     \* conversations the message may have got to

minutesVars == <<saidBy, entries, visuals, answer, sections, targets, writeUp, reached>>

Kinds == {"heading", "bullet", "prose", "bare", "blank"}
\* The lines that are kept as items.
Says == {"bullet", "prose"}

MinutesInit ==
    /\ saidBy = <<>> /\ entries = <<>> /\ visuals = 0
    /\ answer = <<>> /\ sections = <<>> /\ targets = <<>>
    /\ writeUp = "call" /\ reached = {}

-----------------------------------------------------------------------------
\* Mutant: anyone of the same role continues it.
ContinuesAnyone(who) ==
    /\ entries # <<>>
    /\ Len(entries[Len(entries)].words) + 1 < MaxEntry
    /\ (who = Agent) = (entries[Len(entries)].who = Agent)
\* Transcript.add: a fragment continues the entry before it when it is its
\* speaker's and there is room.  The role goes with the speaker.
Continues(who) ==
    /\ entries # <<>>
    /\ entries[Len(entries)].who = who
    /\ Len(entries[Len(entries)].words) + 1 < MaxEntry

Entered(who) == Append(entries, [who |-> who, words |-> <<Len(saidBy) + 1>>])

Add(who) ==
    /\ writeUp = "call" /\ Len(saidBy) < MaxFragments
    /\ saidBy' = Append(saidBy, who)
    /\ entries' = IF Continues(who)
                  THEN [entries EXCEPT ![Len(entries)].words = Append(@, Len(saidBy'))]
                  ELSE IF Len(entries) = MaxTranscript THEN Tail(Entered(who)) ELSE Entered(who)
    /\ UNCHANGED <<visuals, answer, sections, targets, writeUp, reached>>

\* A screen that has not changed is recorded once.
AddVisual ==
    /\ writeUp = "call" /\ visuals < 2 /\ visuals' = visuals + 1
    /\ UNCHANGED <<saidBy, entries, answer, sections, targets, writeUp, reached>>

-----------------------------------------------------------------------------
\* resolve_minutes_target: the meeting's own thread, else the caller's own chat.
Target(thread, meeting, humans, chatOf, named) ==
    IF thread /\ (humans >= 2 \/ meeting) THEN <<"thread">>
    ELSE IF chatOf = "none" \/ (named /\ chatOf = "another") THEN <<>>
    ELSE <<"caller-dm">>

\* Nowhere to post, or nothing to write up: nothing is spent.
Resolve ==
    /\ writeUp = "call"
    /\ \E thread, meeting, named \in BOOLEAN, humans \in 1..2,
          chatOf \in {"none", "caller", "another"}, second \in BOOLEAN :
          targets' = Target(thread, meeting, humans, chatOf, named)
                       \o (IF second /\ thread /\ chatOf = "caller" /\ humans = 2
                             THEN <<"caller-dm">> ELSE <<>>)
    /\ writeUp' = IF targets' = <<>> \/ (entries = <<>> /\ visuals = 0) THEN "over" ELSE "writing"
    /\ UNCHANGED <<saidBy, entries, visuals, answer, sections, reached>>

\* parse_minutes_sections, a line at a time; line i is item i.
UnderHeading(item) ==
    IF sections = <<>> THEN <<[heading |-> 0, items |-> <<item>>]>>
    ELSE [sections EXCEPT ![Len(sections)].items = Append(@, item)]

ReadLine(kind) ==
    /\ writeUp = "writing" /\ Len(answer) < MaxLines
    /\ answer' = Append(answer, kind)
    /\ sections' =
         IF kind = "heading" THEN Append(sections, [heading |-> Len(answer'), items |-> <<>>])
         ELSE IF kind \in Says THEN UnderHeading(Len(answer'))
         ELSE sections
    /\ UNCHANGED <<saidBy, entries, visuals, targets, writeUp, reached>>

\* _section_paragraphs: the sections of the document, which leaves out what holds nothing.
Printed == {s \in DOMAIN sections : sections[s].items # <<>>}

\* No answer, no post.
Written ==
    /\ writeUp = "writing"
    /\ writeUp' = IF answer = <<>> THEN "over" ELSE "posting"
    /\ UNCHANGED <<saidBy, entries, visuals, answer, sections, targets, reached>>

\* _deliver_to_first_reachable: only a 404 says that nothing was delivered.
Landed ==
    /\ writeUp = "posting"
    /\ reached' = reached \cup {Head(targets)} /\ writeUp' = "over"
    /\ UNCHANGED <<saidBy, entries, visuals, answer, sections, targets>>

NotFound ==
    /\ writeUp = "posting"
    /\ targets' = Tail(targets)
    /\ writeUp' = IF Len(targets) = 1 THEN "over" ELSE "posting"
    /\ UNCHANGED <<saidBy, entries, visuals, answer, sections, reached>>

GivesUp == writeUp' = "over" /\ UNCHANGED targets

\* Another status, or an exception: the message may be there all the same.
PostFails ==
    /\ writeUp = "posting" /\ GivesUp
    /\ reached' \in {reached, reached \cup {Head(targets)}}
    /\ UNCHANGED <<saidBy, entries, visuals, answer, sections>>

MinutesNext ==
    \/ \E who \in Speakers : Add(who)
    \/ \E kind \in Kinds : ReadLine(kind)
    \/ AddVisual \/ Resolve \/ Written \/ Landed \/ NotFound \/ PostFails

MinutesSpec == MinutesInit /\ [][MinutesNext]_minutesVars

-----------------------------------------------------------------------------
FirstOf(i) == entries[i].words[1]
LastWord(i) == entries[i].words[Len(entries[i].words)]

\* Nothing is filed under another person's name, and what is kept is the end
\* of the call without a gap.
AttributedRightly ==
    /\ \A i \in DOMAIN entries : \A k \in DOMAIN entries[i].words :
           saidBy[entries[i].words[k]] = entries[i].who
    /\ \A i \in DOMAIN entries : \A k \in 1..(Len(entries[i].words) - 1) :
           entries[i].words[k + 1] = entries[i].words[k] + 1
    /\ \A i \in 1..(Len(entries) - 1) : FirstOf(i + 1) = LastWord(i) + 1
    /\ IF entries = <<>> THEN saidBy = <<>> ELSE LastWord(Len(entries)) = Len(saidBy)

\* Line i is a heading, and something is said under it before the next one.
SaysSomething(i) ==
    /\ answer[i] = "heading"
    /\ \E j \in DOMAIN answer :
          /\ i < j /\ answer[j] \in Says
          /\ \A h \in DOMAIN answer : i < h /\ h < j => answer[h] # "heading"

\* The document prints every line that says something, in its order and under the
\* heading it stood under.  Of the headings it prints those that something stands
\* under and no other: a line in bold with nothing beneath it is not in it.
NothingLost ==
    /\ \A i \in DOMAIN answer : answer[i] \in Says =>
           \E s \in Printed : \E k \in DOMAIN sections[s].items : sections[s].items[k] = i
    /\ \A i \in DOMAIN answer :
           SaysSomething(i) <=> \E s \in Printed : sections[s].heading = i
    /\ \A s \in Printed : \A k, l \in DOMAIN sections[s].items :
           /\ answer[sections[s].items[k]] \in Says
           /\ sections[s].heading < sections[s].items[k]
           /\ k < l => sections[s].items[k] < sections[s].items[l]
    /\ \A s, t \in Printed : s < t =>
           /\ sections[s].heading < sections[t].heading
           /\ \A k \in DOMAIN sections[s].items : sections[s].items[k] < sections[t].heading

\* One conversation gets the minutes, however the posts fail.
OneConversation == Cardinality(reached) <= 1

\* The minutes say who said what, lose nothing that says something and go to one
\* conversation.
MinutesAreFaithful == AttributedRightly /\ NothingLost /\ OneConversation
=============================================================================
