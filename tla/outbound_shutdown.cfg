CONSTANTS
    Workers = {w1}
    Legs = {l1}
    Threads = {TRUE}
    MaxAttempts = 2
    MayCrash = FALSE
    MaxStops = 1
    Nobody = Nobody
SPECIFICATION Spec
INVARIANTS
    StoppingLosesNothing
CHECK_DEADLOCK FALSE
