------------------------------ MODULE RecapSpool ------------------------------
(***************************************************************************)
(* The Hermes plugin's meeting recaps, from a call's hang-up to the post.  *)
(* A recap is a file before it is a task: waiting (.json), then claimed by *)
(* a rename while it is worked on, then removed, or put back when it       *)
(* failed.  Each time the host opens the chat lane a drain claims what an  *)
(* earlier one left behind, and works it off one job after another.  The   *)
(* process may die anywhere, and the host may reload the platform at any   *)
(* time; one connect dials at a time.                                      *)
(***************************************************************************)
EXTENDS Naturals, FiniteSets

CONSTANTS
    Recaps,       \* calls whose meeting is to be written up, in order of hang-up
    Drains,       \* bound: drains, in order of their start
    MaxJobs,      \* _MAX_RECAP_JOBS
    MaxAttempts,  \* _MAX_ATTEMPTS
    MaxCrashes    \* bound: deaths of the process

ASSUME RecapAssumption ==
    /\ Recaps \subseteq Nat /\ Recaps \cap Drains = {}
    /\ IsFiniteSet(Recaps) /\ IsFiniteSet(Drains)

VARIABLES
    spool,      \* each recap's file: "none", "waiting", "claimed" or "gone"
    stored,     \* the recap could be written down
    tries,      \* attempts
    settled,    \* why it is over: "no", "posted", "nowhere", "attempts",
                \* "expired" or "trimmed"
    work,       \* each task and drain: where it is, and the jobs it still has,
                \* the first of which it is at
    chatOpen,   \* CHAT is set
    plugged,    \* _connected
    opening,    \* connect is dialling the chat lane
    unplugging, \* disconnect is closing it
    tracked,    \* drains the platform can cancel
    crashes,
    posts,      \* history: how often each recap reached the chat
    excused,    \* history: posts that arrived, though whoever sent them was stopped
                \* before it could remove the file, or was told they had failed
    aged,       \* history: recaps taken from somebody at work, for their age
    robbed,     \* history: recaps taken from somebody at work, for dead
    early       \* history: a disconnect came while connect was still dialling

history == <<posts, excused, aged, robbed, early>>
recapVars == <<spool, stored, tries, settled, work, chatOpen, plugged, opening, unplugging,
               tracked, crashes, history>>
files == <<spool, stored, tries, settled>>
platform == <<chatOpen, plugged, opening, unplugging, tracked, crashes>>

Idle == [at |-> "none", todo |-> {}]

RecapInit ==
    /\ spool = [j \in Recaps |-> "none"] /\ stored = [j \in Recaps |-> FALSE]
    /\ tries = [j \in Recaps |-> 0] /\ settled = [j \in Recaps |-> "no"]
    /\ work = [w \in Recaps \cup Drains |-> Idle]
    /\ chatOpen = FALSE /\ plugged = FALSE /\ opening = FALSE
    /\ unplugging = FALSE /\ tracked = {} /\ crashes = 0
    /\ posts = [j \in Recaps |-> 0] /\ excused = [j \in Recaps |-> 0]
    /\ aged = {} /\ robbed = {} /\ early = FALSE

GoesOn(w, where) == work' = [work EXCEPT ![w].at = where]
Busy(w) == work[w].at \notin {"none", "over"}
\* The jobs a worker is at: a drain claims its whole list before the first.
Holds(w, j) == work[w].at \in {"asking", "posting", "posted"} /\ j \in work[w].todo
Job(w) == CHOOSE j \in work[w].todo : \A i \in work[w].todo : j <= i

-----------------------------------------------------------------------------
\* _trim: a full spool makes room by its oldest waiting recaps, and by no claim.
Kept == {j \in Recaps : spool[j] \in {"waiting", "claimed"}}
Trimmed ==
    {j \in Kept : /\ spool[j] = "waiting"
                  /\ Cardinality({i \in Kept : spool[i] = "waiting" /\ i < j})
                       < Cardinality(Kept) + 1 - MaxJobs}

\* The handler's aclose: the file first, unless the disk refuses, then the task.
Schedule(j) ==
    /\ work[j] = Idle
    /\ work' = [work EXCEPT ![j] = [at |-> "scheduled", todo |-> {j}]]
    /\ \E ok \in BOOLEAN :
          /\ stored' = [stored EXCEPT ![j] = ok]
          /\ spool' = [i \in Recaps |-> IF i = j THEN (IF ok THEN "waiting" ELSE "none")
                                        ELSE IF i \in Trimmed THEN "gone" ELSE spool[i]]
    /\ settled' = [i \in Recaps |-> IF i \in Trimmed THEN "trimmed" ELSE settled[i]]
    /\ UNCHANGED <<tries, platform, history>>

\* begin: a file that is not there any more was claimed by a drain.
BeginRecap(j) ==
    /\ work[j].at = "scheduled"
    /\ IF stored[j] /\ spool[j] # "waiting"
         THEN GoesOn(j, "over") /\ UNCHANGED spool
         ELSE /\ GoesOn(j, "asking")
              /\ spool' = [spool EXCEPT ![j] = IF stored[j] THEN "claimed" ELSE @]
    /\ UNCHANGED <<stored, tries, settled, platform, history>>

-----------------------------------------------------------------------------
\* Mutant: every drain takes claims over.
StealsAlways == TRUE
\* claim_pending, in one go: orphans first, then every job still worth doing.
StealsClaims == \A j \in Recaps : ~Busy(j)

\* The claims in `old' were last written down ten minutes ago or more, which the
\* code takes for a sign that nobody is at work on them.
Taken(old) ==
    {j \in Recaps : spool[j] = "waiting" \/ (spool[j] = "claimed" /\ (StealsClaims \/ j \in old))}

\* What is too old is dropped; what failed too often is dropped.
DrainClaims(d) ==
    /\ work[d].at = "scheduled" /\ chatOpen
    /\ \E old \in SUBSET Recaps : \E expired \in SUBSET Taken(old) :
         LET doomed == expired \cup {j \in Taken(old) : tries[j] >= MaxAttempts}
             mine == Taken(old) \ doomed
             wrested == {j \in Taken(old) : \E w \in DOMAIN work : Holds(w, j)}
         IN /\ spool' = [j \in Recaps |-> IF j \in doomed THEN "gone"
                                          ELSE IF j \in mine THEN "claimed" ELSE spool[j]]
            /\ settled' = [j \in Recaps |-> IF j \in expired THEN "expired"
                                            ELSE IF j \in doomed THEN "attempts" ELSE settled[j]]
            /\ work' = [work EXCEPT ![d] =
                          [at |-> IF mine = {} THEN "over" ELSE "asking", todo |-> mine]]
            /\ aged' = IF StealsClaims THEN aged ELSE aged \cup wrested
            /\ robbed' = IF StealsClaims THEN robbed \cup wrested ELSE robbed
    /\ UNCHANGED <<stored, tries, platform, posts, excused, early>>

DrainSkipped(d) ==
    /\ work[d].at = "scheduled" /\ ~chatOpen /\ GoesOn(d, "over")
    /\ UNCHANGED <<files, platform, history>>

-----------------------------------------------------------------------------
\* One recap, by whoever holds it: the consult, then the post, which may arrive
\* after the lane it went down was closed.
Asked(w) ==
    /\ work[w].at = "asking" /\ chatOpen /\ GoesOn(w, "posting")
    /\ UNCHANGED <<files, platform, history>>

Arrives(w) ==
    /\ work[w].at = "posting" /\ GoesOn(w, "posted")
    /\ posts' = [posts EXCEPT ![Job(w)] = @ + 1]
    /\ UNCHANGED <<files, platform, excused, aged, robbed, early>>

\* Mutant: a failed recap is retired at once.
RetiresIt(j) ==
    /\ spool' = [spool EXCEPT ![j] = "gone"]
    /\ UNCHANGED <<tries, settled>>
\* finish puts a failed recap back with one more attempt against it.
PutsBack(j) ==
    /\ spool' = [spool EXCEPT ![j] = IF stored[j] THEN "waiting" ELSE @]
    /\ tries' = [tries EXCEPT ![j] = @ + 1]
    /\ UNCHANGED settled

NextJob(w) ==
    LET left == work[w].todo \ {Job(w)}
    IN  work' = [work EXCEPT ![w] = [at |-> IF left = {} THEN "over" ELSE "asking",
                                     todo |-> left]]

\* No lane, a consult that fails, a send that fails: kept for the next drain.  A
\* send may be given up for failed whose message has arrived all the same.
RecapFails(w) ==
    /\ work[w].at \in {"asking", "posting", "posted"}
    /\ PutsBack(Job(w)) /\ NextJob(w)
    /\ excused' = [excused EXCEPT ![Job(w)] = IF work[w].at = "posted" THEN @ + 1 ELSE @]
    /\ UNCHANGED <<stored, platform, posts, aged, robbed, early>>

RecapFinishes(w) ==
    /\ \/ work[w].at = "posted" /\ settled' = [settled EXCEPT ![Job(w)] = "posted"]
       \/ work[w].at = "asking" /\ chatOpen /\ settled' = [settled EXCEPT ![Job(w)] = "nowhere"]
    /\ spool' = [spool EXCEPT ![Job(w)] = "gone"]
    /\ NextJob(w)
    /\ UNCHANGED <<stored, tries, platform, history>>

-----------------------------------------------------------------------------
\* The platform.  Whoever is stopped after the post leaves a claim behind.
Stops(ws) ==
    /\ work' = [w \in DOMAIN work |->
                   IF w \in ws /\ Busy(w) THEN [work[w] EXCEPT !.at = "over"] ELSE work[w]]
    /\ excused' = [j \in Recaps |->
                     excused[j] + Cardinality({w \in ws : work[w].at = "posted" /\ Job(w) = j})]

Connect ==
    /\ ~plugged /\ ~opening
    /\ plugged' = TRUE /\ opening' = TRUE
    /\ UNCHANGED <<files, work, chatOpen, unplugging, tracked, crashes, history>>

\* The lane is up: it is published for recaps and its drain is scheduled.
LaneOpens ==
    /\ opening /\ opening' = FALSE /\ chatOpen' = TRUE
    /\ \E d \in Drains :
         /\ work[d] = Idle /\ \A e \in Drains : e < d => work[e] # Idle
         /\ GoesOn(d, "scheduled") /\ tracked' = tracked \cup {d}
    /\ UNCHANGED <<files, plugged, unplugging, crashes, history>>

LaneFails ==
    /\ opening /\ opening' = FALSE
    /\ UNCHANGED <<files, work, chatOpen, plugged, unplugging, tracked, crashes, history>>

\* disconnect closes the lane it can see, which takes a while, and then cancels
\* the drains it knows; a lane still being dialled is not seen.
Disconnect ==
    /\ plugged /\ ~unplugging
    /\ unplugging' = TRUE
    /\ chatOpen' = FALSE
    /\ early' = (early \/ opening)
    /\ UNCHANGED <<files, work, plugged, opening, tracked, crashes, posts, excused, aged, robbed>>

Disconnected ==
    /\ unplugging /\ unplugging' = FALSE
    /\ plugged' = FALSE /\ tracked' = {} /\ Stops(tracked)
    /\ UNCHANGED <<files, chatOpen, opening, crashes, posts, aged, robbed, early>>

Crash ==
    /\ crashes < MaxCrashes /\ crashes' = crashes + 1
    /\ plugged' = FALSE /\ chatOpen' = FALSE /\ opening' = FALSE
    /\ unplugging' = FALSE /\ tracked' = {}
    /\ Stops(DOMAIN work)
    /\ UNCHANGED <<files, posts, aged, robbed, early>>

RecapNext ==
    \/ \E j \in Recaps : Schedule(j) \/ BeginRecap(j)
    \/ \E d \in Drains : DrainClaims(d) \/ DrainSkipped(d)
    \/ \E w \in Recaps \cup Drains : Asked(w) \/ Arrives(w) \/ RecapFails(w) \/ RecapFinishes(w)
    \/ Connect \/ LaneOpens \/ LaneFails \/ Disconnect \/ Disconnected
    \/ Crash

RecapSpec == RecapInit /\ [][RecapNext]_recapVars

-----------------------------------------------------------------------------
\* A recap that was written down is on disk until it is posted or given up for
\* a reason, whatever fails, dies or is reloaded on the way.
RecapsAreKept ==
    \A j \in Recaps : stored[j] /\ settled[j] = "no" => spool[j] \in {"waiting", "claimed"}

\* The same minutes reach the chat twice only where the code cannot help it or has
\* said that it does not: after a post that arrived though its sender was stopped or
\* told it had failed; after a claim of ten minutes was taken from an owner who was
\* still at it; and where a disconnect came while connect was dialling, so that two
\* drains ran and the second took the first one's claims for a dead process's.
MinutesPostedOnce ==
    \A j \in Recaps : \/ posts[j] <= 1 + excused[j]
                      \/ j \in aged
                      \/ early /\ j \in robbed

\* Claiming is a rename, so that two drains cannot take the same job and both post
\* it, whatever order the host connects and disconnects in (what RecapJobs and the
\* platform promise).
ReloadsPostOnce ==
    \A j \in Recaps : posts[j] <= 1 + excused[j] \/ j \in aged
=============================================================================
