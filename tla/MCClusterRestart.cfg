SPECIFICATION ClusterSpec
CONSTANTS
    Instances = {p1, p2}
    None = None
    AutoCreate = TRUE
    MaxCommands = 2
    MaxFaults = 0
INVARIANT HeartbeatsOnlyForLive
CHECK_DEADLOCK FALSE
