CONSTANTS
    Workers = {w1, w2}
    Legs = {l1, l2}
    Threads = {TRUE, FALSE}
    MaxAttempts = 2
    MayCrash = TRUE
    MaxStops = 1
    Nobody = Nobody
SPECIFICATION FairSpec
INVARIANTS
    HeldByOneLeg
    ToldOnce
    AccountedFor
PROPERTIES
    EventuallySettled
\* The message is settled and no call is left.
CHECK_DEADLOCK FALSE
