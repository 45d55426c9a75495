\* A calm network: a peer on our LAN and one at another site.
SPECIFICATION SitesSpec
CONSTANTS
    p1 = p1
    p2 = p2
    s1 = s1
    a1 = a1
    a2 = a2
    b1 = b1
    c1 = c1
    c2 = c2
    NoAnswer = NoAnswer
    HostOnly <- Hosts
    PrivateIP <- Private
    k1 = k1
    NoAddr = NoAddr
    Peer = {p1, p2}
    Spoke = {}
    Order <- Order2
    Addr = {a1, a2, b1, c1, c2}
    Hidden = {b1}
    Dial <- TwoSites
    Subnet = {}
    Home <- HomeOf
    Calm = TRUE
PROPERTIES Reconnects
