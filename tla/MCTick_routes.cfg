\* Two peers that announce and withdraw a subnet, and a spoke; route changes may fail.
SPECIFICATION Spec
CONSTANTS
    p1 = p1
    p2 = p2
    s1 = s1
    a1 = a1
    a2 = a2
    b1 = b1
    c1 = c1
    c2 = c2
    NoAnswer = NoAnswer
    HostOnly <- Hosts
    PrivateIP <- Private
    k1 = k1
    NoAddr = NoAddr
    Peer = {p1, p2}
    Spoke = {k1}
    Order <- Order2
    Addr = {}
    Hidden = {}
    Dial <- NoEndpoint
    Subnet = {s1}
    Home <- HomeA1
    Calm = FALSE
PROPERTIES AnnouncedIsReachable
