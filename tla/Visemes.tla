------------------------------- MODULE Visemes -------------------------------
(***************************************************************************)
(* The mouth of the avatar: what is said becomes a timeline of mouth       *)
(* shapes, spread over the audio that was sent, or placed at the times the *)
(* speech provider gave.  One step of the model is one character of the    *)
(* walk.                                                                   *)
(***************************************************************************)
EXTENDS Integers, Sequences, FiniteSets

CONSTANTS
    Shapes,      \* the mouth shapes but silence, numbers from 1
    MaxChars, MaxMs

ASSUME LipAssumption == Shapes \subseteq Nat \ {0} /\ MaxChars \in Nat /\ MaxMs \in Nat

VARIABLES
    characters,  \* the text: its shapes, Silence for a space, None for the rest
    startMs,     \* each character's time, in milliseconds
    walked,      \* the characters the walk has passed
    previous,    \* the shape of the run the walk is in
    kept         \* the marks so far

lipVars == <<characters, startMs, walked, previous, kept>>

Silence == 0
None == -1
Characters == Shapes \cup {Silence, None}

\* _WHITESPACE_RUN and strip: one space between words, none at the ends.
Normalized(text) ==
    \A i \in DOMAIN text :
        text[i] = Silence => /\ i \notin {1, Len(text)}
                             /\ text[i + 1] # Silence

\* The characters that take a share of the time.
Mapped(text) == {k \in DOMAIN text : text[k] # None}

\* i * duration / n, a tie rounded up.
RoundHalfUp(a, b) == (2 * a + b) \div (2 * b)

Before(text, i) == {k \in Mapped(text) : k < i}

\* estimate_visemes: every character with a shape has an equal share.
Estimate ==
    \E n \in 1..MaxChars : \E text \in [1..n -> Characters] : \E ms \in 1..MaxMs :
        /\ Normalized(text)
        /\ \E i \in DOMAIN text : text[i] \in Shapes
        /\ characters = text
        /\ startMs = [i \in DOMAIN text |->
                         RoundHalfUp(Cardinality(Before(text, i)) * ms, Cardinality(Mapped(text)))]

\* visemes_from_alignment: the provider's times, in whatever order.
Alignment ==
    \E n \in 1..MaxChars :
        /\ characters \in [1..n -> Characters]
        /\ \E i \in 1..n : characters[i] \in Shapes
        /\ startMs \in [1..n -> 0..MaxMs]

LipInit ==
    /\ Estimate \/ Alignment
    /\ walked = 0 /\ previous = None /\ kept = <<>>

\* Mutant: the earlier shape stays.
EarlierWins(shape) == kept
\* A shape held for no time at all gives way to the one after it.
LaterWins(shape) == [kept EXCEPT ![Len(kept)].shape = shape]

\* The walk of _timeline.
Walk ==
    /\ walked < Len(characters) /\ walked' = walked + 1
    /\ LET shape == characters[walked']
           ms == startMs[walked']
       IN  IF shape \in {None, previous} THEN UNCHANGED <<previous, kept>>
           ELSE /\ previous' = shape
                /\ kept' = IF kept # <<>> /\ ms <= kept[Len(kept)].ms
                             THEN LaterWins(shape)
                             ELSE Append(kept, [ms |-> ms, shape |-> shape])
    /\ UNCHANGED <<characters, startMs>>

LipSpec == LipInit /\ [][Walk]_lipVars

-----------------------------------------------------------------------------
\* The shape worn at a time, by the marks and by the text.
Worn(t) ==
    LET i == CHOOSE i \in DOMAIN kept :
                 kept[i].ms <= t /\ \A j \in DOMAIN kept : kept[j].ms <= t => j <= i
    IN kept[i].shape

Spoken(t) ==
    LET begun == {i \in 1..walked : characters[i] # None /\ startMs[i] <= t}
    IN characters[CHOOSE i \in begun : \A j \in begun : j <= i]

InOrder == \A i, j \in DOMAIN characters : i < j => startMs[i] <= startMs[j]

\* A renderer can use the timeline: no two marks at one time, none out of order,
\* however close the shares are and however sloppy the provider's times.
StrictlyIncreasing ==
    \A i \in 1..(Len(kept) - 1) : kept[i].ms < kept[i + 1].ms

\* At every millisecond the mouth wears the shape of the last sound begun.
FollowsTheText ==
    InOrder => \A i \in 1..walked :
        characters[i] # None => Worn(startMs[i]) = Spoken(startMs[i])

MouthFollowsText == StrictlyIncreasing /\ FollowsTheText
=============================================================================
