\* A command beside a daemon that evicts; both may fail or be killed anywhere.
SPECIFICATION FairSpec

CONSTANTS
    Spoke = {1, 2}
    Cli = {c1}
    Daemon = Daemon
    Missing = Missing
    Nobody = Nobody

INVARIANTS TypeOK

PROPERTIES SavesAreAtomic IsAList RemovalSticks OnlySilentEvicted SilentIsEvicted
