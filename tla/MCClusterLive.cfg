SPECIFICATION FairClusterSpec
CONSTANTS
    Instances = {p1, p2}
    None = None
    AutoCreate = TRUE
    MaxCommands = 2
    MaxFaults = 1
PROPERTIES
    SplitHeals
    LeaseIsServed
CHECK_DEADLOCK FALSE
