\* No kills and no refused commands: passes, Close, -stop and one wipe in any order.
SPECIFICATION Spec
CONSTANTS
    Fam = {"v4", "v6"}
    Spoke = {s1}
    Subnet = {n1}
    InChain = {c1}
    FwdChain = {c2}
    SelfHeal = TRUE
    ReadOnly = FALSE
    OperatorOpens = TRUE
    OthersForward = FALSE
    MaxCrashes = 0
    MaxFails = 0
    MaxWipes = 1
INVARIANTS TypeOK NatInStep
PROPERTIES CloseLeavesNothing ForwardingRestored
