----------------------------- MODULE BackgroundTasks -----------------------------
(***************************************************************************)
(* Work promised on a call, kept in a file until its result is delivered.  *)
(* remember() writes <task>.json, begin() and claim_pending() rename it to *)
(* <task>.claimed, done() and finish() unlink it or put it back.  Several  *)
(* workers share the directory, each resumes what it finds when it starts, *)
(* and any of them may die at any time.                                    *)
(***************************************************************************)
EXTENDS Naturals, Sequences, FiniteSets

CONSTANTS
    Tasks,        \* in the order their files sort
    Processes,
    Undeliverable,\* tasks remembered without a thread id
    ResumeLimit
VARIABLES
    file,       \* each task: "none", "json", "claimed" or "gone"
    taskAge,    \* since remember(): "new", "old" past _STALE_CLAIM_S, "expired"
    hand,       \* each process: the tasks it is to run, the first one running
    origin,     \* each process: the tasks of hand it promised itself
    procUp,
    resumed,    \* processes that have called resume() since they started
    delivered,  \* history: the tasks whose result went out
    discarded   \* history: too old, or with nowhere to deliver

taskVars == <<file, taskAge, hand, origin, procUp, resumed, delivered, discarded>>

TasksInit ==
    /\ file = [t \in Tasks |-> "none"]
    /\ taskAge = [t \in Tasks |-> "new"]
    /\ hand = [p \in Processes |-> <<>>]
    /\ origin = [p \in Processes |-> {}]
    /\ procUp = Processes /\ resumed = {}
    /\ delivered = {} /\ discarded = {}

Moves(t, to) == file' = [file EXCEPT ![t] = to]

\* remember() and begin(), on a live call; each may be all that a crash leaves.
Promise(p, t) ==
    /\ p \in procUp /\ file[t] = "none"
    /\ Moves(t, "json")
    /\ hand' = [hand EXCEPT ![p] = Append(@, t)]
    /\ origin' = [origin EXCEPT ![p] = @ \cup {t}]
    /\ UNCHANGED <<taskAge, procUp, resumed, delivered, discarded>>

\* The rename fails without a word when another worker has it by now.
Begin(p, t) ==
    /\ p \in procUp /\ t \in origin[p]
    /\ file[t] = "json" /\ Moves(t, "claimed")
    /\ UNCHANGED <<taskAge, hand, origin, procUp, resumed, delivered, discarded>>

\* _recover_orphans: the age is st_mtime's, the age of the file's content.
Orphan(t) == file[t] = "claimed" /\ taskAge[t] # "new"

\* claim_pending: the files in their order, until ResumeLimit are claimed; what is
\* expired or has nowhere to go is unlinked when its turn comes.
ClaimPending(p) ==
    LET found == {t \in Tasks : file[t] = "json" \/ Orphan(t)}
        useless == {t \in found : taskAge[t] = "expired" \/ t \in Undeliverable}
        looked == {t \in found : Cardinality({u \in found \ useless : u < t}) < ResumeLimit}
        claims == looked \ useless
        inOrder == CHOOSE s \in [1..Cardinality(claims) -> claims] :
                       \A i, j \in DOMAIN s : i < j => s[i] < s[j]
    IN  /\ file' = [t \in Tasks |-> IF t \in claims THEN "claimed"
                                    ELSE IF t \in looked THEN "gone"
                                    ELSE IF t \in found THEN "json" ELSE file[t]]
        /\ hand' = [hand EXCEPT ![p] = @ \o inOrder]
        /\ discarded' = discarded \cup (looked \ claims)

\* resume() begins: once, when the process starts.
ResumeStarts(p) ==
    /\ p \in procUp /\ p \notin resumed /\ resumed' = resumed \cup {p}
    /\ ClaimPending(p)
    /\ UNCHANGED <<taskAge, origin, procUp, delivered>>

Drops(p) ==
    /\ hand' = [hand EXCEPT ![p] = Tail(@)]
    /\ origin' = [origin EXCEPT ![p] = @ \ {Head(hand[p])}]

\* done(), or finish(delivered=True): in either phase, or only the claim.
Delivers(p) ==
    /\ p \in procUp /\ hand[p] # <<>> /\ Drops(p)
    /\ LET t == Head(hand[p])
       IN  /\ delivered' = delivered \cup {t}
           /\ IF t \in origin[p] \/ file[t] = "claimed" THEN Moves(t, "gone")
              ELSE UNCHANGED file
    /\ UNCHANGED <<taskAge, procUp, resumed, discarded>>

\* Mutant: a delivery that fails retires the task.
FailureRetires(t) == Moves(t, "gone")
PutBack(t) == IF file[t] = "claimed" THEN Moves(t, "json") ELSE UNCHANGED file

\* The chat refuses the post, or deliver raises.  A task of this call's own has
\* a record without a claim path: finish() leaves it claimed until it is old.
DeliveryRefused(p) ==
    /\ p \in procUp /\ hand[p] # <<>> /\ Drops(p)
    /\ IF Head(hand[p]) \in origin[p] THEN UNCHANGED file
                                      ELSE PutBack(Head(hand[p]))
    /\ UNCHANGED <<taskAge, procUp, resumed, delivered, discarded>>

Dies(p) ==
    /\ p \in procUp /\ procUp' = procUp \ {p}
    /\ hand' = [hand EXCEPT ![p] = <<>>]
    /\ origin' = [origin EXCEPT ![p] = {}]
    /\ resumed' = resumed \ {p}
    /\ UNCHANGED <<file, taskAge, delivered, discarded>>

ComesBack(p) ==
    /\ p \notin procUp /\ procUp' = procUp \cup {p}
    /\ UNCHANGED <<file, taskAge, hand, origin, resumed, delivered, discarded>>

Ages(t) ==
    /\ file[t] # "none"
    /\ \/ taskAge[t] = "new" /\ taskAge' = [taskAge EXCEPT ![t] = "old"]
       \/ taskAge[t] = "old" /\ taskAge' = [taskAge EXCEPT ![t] = "expired"]
    /\ UNCHANGED <<file, hand, origin, procUp, resumed, delivered, discarded>>

TasksNext ==
    \/ \E p \in Processes :
           \/ \E t \in Tasks : Promise(p, t) \/ Begin(p, t)
           \/ ResumeStarts(p) \/ Delivers(p) \/ DeliveryRefused(p)
           \/ Dies(p) \/ ComesBack(p)
    \/ \E t \in Tasks : Ages(t)

TasksSpec == TasksInit /\ [][TasksNext]_taskVars

-----------------------------------------------------------------------------
\* "a busy restart must not become a quiet way of losing promises": the file of
\* a promise goes only when its result has gone out or it was of no use.
PromisesAreKept ==
    \A t \in Tasks : file[t] = "gone" => t \in delivered \cup discarded
=============================================================================
