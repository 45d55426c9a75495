\* A daemon killed and started again beside -stop; a wipe, a refused command, both families.
SPECIFICATION FairSpec
CONSTANTS
    Fam = {"v4", "v6"}
    Spoke = {s1}
    Subnet = {}
    InChain = {}
    FwdChain = {c2}
    SelfHeal = TRUE
    ReadOnly = TRUE
    OperatorOpens = FALSE
    OthersForward = TRUE
    MaxCrashes = 1
    MaxFails = 1
    MaxWipes = 1
INVARIANTS StopLeavesNothing
PROPERTIES RefusedStaysTracked PortReopens
