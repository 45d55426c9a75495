\* A host without iptables; nothing goes wrong.
SPECIFICATION Spec
CONSTANTS
    Proc = {d1}
    NoProc = NoProc
    Iptables = {FALSE}
    Manager = {"systemd"}
    SlowStops = FALSE
    MaxFaults = 0
PROPERTIES GracefulShutdownCleans
