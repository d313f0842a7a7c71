------------------------------ MODULE Slideshow ------------------------------
(***************************************************************************)
(* Pictures on the bot's tile.  A tool call shows one picture, walks       *)
(* through several while it speaks, or shows the first of several and      *)
(* leaves the rest to a pacing task; a new one first stops the old pacer,  *)
(* by a generation number and a wake-up, and waits until it is gone.       *)
(***************************************************************************)
EXTENDS Naturals

CONSTANTS
    ShowCalls,    \* tool calls of the model, in any order, overlapping or not: each once
    Pictures      \* most pictures in one call; MAX_SLIDESHOW_IMAGES

None == "none"
ASSUME ShowAssumption == None \notin ShowCalls

VARIABLES
    generation,   \* _generation
    slideshow,    \* _slideshow: the pacer of this call, or None
    wake,         \* _wake is set
    request,      \* each tool call: its kind, where it is, the pictures left to
                  \* show and the pacer it waits for
    pacer,        \* each tool call: the pacer it made
    lastShown,    \* _last_shown: the call whose picture it is, or None
    replaced,     \* history: the calls that took the tile while this one's pacer ran
    leftSending,  \* history: pacers with a picture on its way when a call took the tile
                  \* that did not wait for them
    overshown     \* history: a picture of a slideshow has followed one of a call that
                  \* took the tile from it, and was not in hand then

showVars == <<generation, slideshow, wake, request, pacer, lastShown, replaced, leftSending, overshown>>

Kinds == {"many", "walk", "one", "reset"}
Request(kind, at, left, waitsFor) ==
    [kind |-> kind, at |-> at, left |-> left, waitsFor |-> waitsFor]
Idle == Request("many", "idle", 0, None)
NoPacer == [at |-> "none", gen |-> 0, left |-> 0]

ShowInit ==
    /\ generation = 0 /\ slideshow = None /\ wake = FALSE
    /\ request = [c \in ShowCalls |-> Idle]
    /\ pacer = [c \in ShowCalls |-> NoPacer]
    /\ lastShown = None
    /\ replaced = [c \in ShowCalls |-> {}] /\ leftSending = {} /\ overshown = FALSE

At(c, here) == request[c].at = here
Does(c, to) == request' = [request EXCEPT ![c].at = to]
Answers(c) == Does(c, "done")

\* The history of a call that takes the tile from the pacers that run, and waits for
\* none of them but this one.
Runs(p) == pacer[p].at \in {"made", "holding", "sending"}
TakesOver(c, waited) ==
    /\ replaced' = [p \in ShowCalls |->
                       IF Runs(p) THEN replaced[p] \cup {c} ELSE replaced[p]]
    /\ leftSending' = leftSending \cup {p \in ShowCalls \ {waited} : pacer[p].at = "sending"}

-----------------------------------------------------------------------------
(* _stop_slideshow, the start of every call that takes over the tile. *)

\* Mutant: the pacer is woken and not waited for.
WakeOnly(c, kind, n) ==
    /\ wake' = (wake \/ slideshow # None)
    /\ request' = [request EXCEPT ![c] = Request(kind, "working", n, None)]

\* The pacer of the show before is woken, and gone before the call goes on.
WakeAndWait(c, kind, n) ==
    /\ wake' = (wake \/ slideshow # None)
    /\ request' = [request EXCEPT ![c] =
           Request(kind, IF slideshow = None THEN "working" ELSE "stopping", n, slideshow)]

Begin(c, kind, n) ==
    /\ At(c, "idle") /\ kind # "one"
    /\ WakeAndWait(c, kind, n)
    /\ generation' = generation + 1 /\ slideshow' = None
    /\ TakesOver(c, slideshow)
    /\ UNCHANGED <<pacer, lastShown, overshown>>

\* show(), show_url(), show_file(), show_page(): the slideshow is left alone.
BeginOne(c) ==
    /\ At(c, "idle")
    /\ request' = [request EXCEPT ![c] = Request("one", "working", 1, None)]
    /\ UNCHANGED <<generation, slideshow, wake, pacer, lastShown, replaced, leftSending, overshown>>

Stopped(c) ==
    /\ At(c, "stopping") /\ pacer[request[c].waitsFor].at = "over"
    /\ Does(c, "working")
    /\ UNCHANGED <<generation, slideshow, wake, pacer, lastShown, replaced, leftSending, overshown>>

-----------------------------------------------------------------------------
(* show *)

\* A picture reaches the tile, of a tool call or of the slideshow it left.
ToTile(c) ==
    /\ lastShown' = c
    /\ overshown' = (overshown \/ (/\ pacer[c].at = "sending" /\ c \notin leftSending
                                  /\ lastShown \in replaced[c]))

OneShown(c) ==
    /\ At(c, "working") /\ request[c].kind = "one"
    /\ ToTile(c) /\ Answers(c)
    /\ UNCHANGED <<generation, slideshow, wake, pacer, replaced, leftSending>>

\* The fetch, the render or the send failed, or the type does not fit.
OneFails(c) ==
    /\ At(c, "working") /\ request[c].kind = "one"
    /\ Answers(c)
    /\ UNCHANGED <<generation, slideshow, wake, pacer, lastShown, replaced, leftSending, overshown>>

\* reset()
ResetDone(c) ==
    /\ At(c, "working") /\ request[c].kind = "reset"
    /\ lastShown' = None /\ Answers(c)
    /\ UNCHANGED <<generation, slideshow, wake, pacer, replaced, leftSending, overshown>>

-----------------------------------------------------------------------------
(* show_many *)

\* The first picture is out: the rest is left to a pacer, which starts later.  It takes
\* the place of one that an overlapping call has made meanwhile.
LeaveTheRest(c) ==
    IF request[c].left > 1
    THEN /\ generation' = generation + 1
         /\ slideshow' = c
         /\ pacer' = [pacer EXCEPT ![c] = [at |-> "made", gen |-> generation + 1,
                                           left |-> request[c].left - 1]]
         /\ TakesOver(c, None)
    ELSE UNCHANGED <<generation, slideshow, pacer, replaced, leftSending>>

FirstShown(c) ==
    /\ At(c, "working") /\ request[c].kind = "many"
    /\ ToTile(c) /\ LeaveTheRest(c) /\ Answers(c)
    /\ UNCHANGED <<wake>>

\* "could not ...", or the exception of the fetch.
FirstFails(c) ==
    /\ At(c, "working") /\ request[c].kind = "many"
    /\ Answers(c)
    /\ UNCHANGED <<generation, slideshow, wake, pacer, lastShown, replaced, leftSending, overshown>>

\* A refusal that does not begin with "could not": show_many takes it for success.
FirstMisfits(c) ==
    /\ At(c, "working") /\ request[c].kind = "many"
    /\ LeaveTheRest(c) /\ Answers(c)
    /\ UNCHANGED <<wake, lastShown, overshown>>

-----------------------------------------------------------------------------
(* walkthrough: a line is spoken, then its picture is shown. *)

NextBeat(c) ==
    IF request[c].left = 1 THEN Answers(c)
    ELSE request' = [request EXCEPT ![c].left = @ - 1]

Beat(c) ==
    /\ At(c, "working") /\ request[c].kind = "walk"
    /\ \/ ToTile(c)
       \/ UNCHANGED <<lastShown, overshown>>  \* a step without a picture
    /\ NextBeat(c)
    /\ UNCHANGED <<generation, slideshow, wake, pacer, replaced, leftSending>>

\* The speaker or the picture failed, or the caller cut in.
WalkStops(c) ==
    /\ At(c, "working") /\ request[c].kind = "walk"
    /\ Answers(c)
    /\ UNCHANGED <<generation, slideshow, wake, pacer, lastShown, replaced, leftSending, overshown>>

-----------------------------------------------------------------------------
(* _pace and _hold *)

PacerAt(p, here) == pacer[p].at = here
PacerGoes(p, to) == pacer' = [pacer EXCEPT ![p].at = to]

\* _hold forgets a wake-up that is already there.
HoldStarts(p) ==
    /\ PacerAt(p, "made") /\ PacerGoes(p, "holding")
    /\ wake' = FALSE
    /\ UNCHANGED <<generation, slideshow, request, lastShown, replaced, leftSending, overshown>>

AfterHold(p) ==
    PacerGoes(p, IF pacer[p].gen # generation THEN "over" ELSE "sending")

HoldWoken(p) ==
    /\ PacerAt(p, "holding") /\ wake
    /\ AfterHold(p)
    /\ UNCHANGED <<generation, slideshow, wake, request, lastShown, replaced, leftSending, overshown>>

\* Mutant: a gap has no end of its own.
HoldsForEver(p) == FALSE /\ UNCHANGED showVars

HoldTimesOut(p) ==
    /\ PacerAt(p, "holding") /\ ~wake
    /\ AfterHold(p)
    /\ UNCHANGED <<generation, slideshow, wake, request, lastShown, replaced, leftSending, overshown>>

\* On to the next gap, which begins at once, or the end.
PacerNext(p) ==
    IF pacer[p].left = 1
    THEN PacerGoes(p, "over") /\ UNCHANGED wake
    ELSE /\ pacer' = [pacer EXCEPT ![p].at = "holding", ![p].left = @ - 1]
         /\ wake' = FALSE

PictureShown(p) ==
    /\ PacerAt(p, "sending")
    /\ ToTile(p) /\ PacerNext(p) /\ leftSending' = leftSending \ {p}
    /\ UNCHANGED <<generation, slideshow, request, replaced>>

PictureSkipped(p) ==
    /\ PacerAt(p, "sending")
    /\ PacerNext(p) /\ leftSending' = leftSending \ {p}
    /\ UNCHANGED <<generation, slideshow, request, lastShown, replaced, overshown>>

-----------------------------------------------------------------------------
PacerSteps(p) ==
    HoldStarts(p) \/ HoldWoken(p) \/ HoldTimesOut(p) \/ PictureShown(p) \/ PictureSkipped(p)

WorkSteps(c) ==
    \/ Stopped(c) \/ OneShown(c) \/ OneFails(c) \/ ResetDone(c)
    \/ FirstShown(c) \/ FirstFails(c) \/ FirstMisfits(c) \/ Beat(c) \/ WalkStops(c)

ShowNext ==
    \E c \in ShowCalls :
        \/ \E kind \in Kinds \ {"one"}, n \in 1..Pictures :
               (kind = "reset" => n = 1) /\ Begin(c, kind, n)
        \/ BeginOne(c) \/ WorkSteps(c) \/ PacerSteps(c)

ShowSpec == ShowInit /\ [][ShowNext]_showVars

-----------------------------------------------------------------------------
\* "a frame already being sent finishes being sent", and then the tile belongs to
\* the call that took it: no picture of a slideshow that ran then follows one of
\* that call.  Tool calls overlap, and _slideshow names one pacer: the picture that
\* another one had in hand may still come, and is the only one let off.
ReplacedStaysReplaced == ~overshown

\* A call that takes over the tile gets it: the old pacer is gone at last, even
\* when the wake-up came while it was sending a picture.
EveryStopReturns ==
    \A c \in ShowCalls : At(c, "stopping") ~> ~At(c, "stopping")
=============================================================================
