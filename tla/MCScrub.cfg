CONSTANTS
    Main = Main
    Side = Side
    Detached = Detached
    None = None
    Refs <- RefSet
    Secrets = {"key", "token"}
    Commands <- CommandSet
    Start <- StartSet
    Heads <- HeadSet
    MaxCommands = 3
    MaxWork = 1
SPECIFICATION Spec
CHECK_DEADLOCK FALSE
INVARIANTS NothingIsLost ZeroMeansScanned
