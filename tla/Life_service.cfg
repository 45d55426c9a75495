\* Either service manager, with and without iptables, -stop, one fault.
SPECIFICATION FairSpec
CONSTANTS
    Proc = {d1, d2}
    NoProc = NoProc
    Iptables = {TRUE, FALSE}
    Manager = {"systemd", "sysvinit"}
    SlowStops = TRUE
    MaxFaults = 1
INVARIANTS TypeOK EndsClean OneOwner
PROPERTIES ComesBack
