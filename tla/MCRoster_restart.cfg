\* A daemon whose two goroutines stamp records, killed and started again.
SPECIFICATION Spec
CONSTANTS
    n1 = n1
    n2 = n2
    Node = {n1}
    Proc <- BothTicks
    Sec = 2
    MaxAge = 0
    MaxRetries = 0
    Attempts = 1
    Foreign = {}
    StepsBack = {}
    MaxClock = 3
PROPERTIES NewBeatsStale
CHECK_DEADLOCK FALSE
