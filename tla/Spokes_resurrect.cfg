\* A removal while a pass that will evict is running.
SPECIFICATION Spec
CONSTANTS
    Spoke = {1, 2}
    Cli = {c1}
    Daemon = Daemon
    Missing = Missing
    Nobody = Nobody
PROPERTIES EveryRemovalSticks
