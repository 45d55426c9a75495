\* Two peers raced over the endpoints their records and the kernel offer; the interface may
\* be deleted at any step.
SPECIFICATION FairSpec
CONSTANTS
    p1 = p1
    p2 = p2
    s1 = s1
    a1 = a1
    a2 = a2
    b1 = b1
    c1 = c1
    c2 = c2
    NoAnswer = NoAnswer
    HostOnly <- Hosts
    PrivateIP <- Private
    k1 = k1
    NoAddr = NoAddr
    Peer = {p1, p2}
    Spoke = {}
    Order <- Order2
    Addr = {a1, a2}
    Hidden = {}
    Dial <- OneEach
    Subnet = {}
    Home <- HomeA1
    Calm = FALSE
INVARIANTS TypeOK Converged
PROPERTIES SampledFreshUntouched WinIsProven GoneStops
