\* Two members, a window of two and three messages; one fault.
SPECIFICATION FairSpec
CONSTANTS
    Node = {n1, n2}
    Loop = {n1, n2}
    RoomOf <- OneLoopEach
    windowN = 2
    anyMember = TRUE
    TTL = 3
    MaxTS = 1
    MaxSends = 3
    MaxFaults = 1
INVARIANTS TypeOK WindowSurvives
PROPERTIES HandedOnce Delivered
