\* A publisher that restarts, beside an observer whose clock may be set back.
SPECIFICATION FairSpec
CONSTANTS
    n1 = n1
    n2 = n2
    Node = {n1, n2}
    Proc <- Observed
    Sec = 2
    MaxAge = 0
    MaxRetries = 1
    Attempts = 2
    Foreign = {n1}
    StepsBack = {n2}
    MaxClock = 2
INVARIANTS TypeOK ViewIsNewestSeen
PROPERTIES PassEnds
CHECK_DEADLOCK FALSE
