SPECIFICATION ClusterSpec
CONSTANTS
    Instances = {p1, p2}
    None = None
    AutoCreate = TRUE
    MaxCommands = 2
    MaxFaults = 2
SYMMETRY Processes2
INVARIANTS
    ClusterTypeOK
    SingleOwner
    RenewsOnlyForLive
    NobodyServesUnwatched
    ReleaseSparesSuccessor
CHECK_DEADLOCK FALSE
