SPECIFICATION RemoteSpec
CONSTANTS
    Sockets = {c1, c2}
    None = None
    SlowSubscribe = TRUE
    MaxOpens = 2
    MaxRuns = 1
    MaxEvents = 1
    MaxAnswers = 0
    MaxFaults = 0
SYMMETRY Symmetric
INVARIANT SnapshotThenStream
CHECK_DEADLOCK FALSE
