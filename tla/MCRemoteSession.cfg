SPECIFICATION FairRemoteSpec
CONSTANTS
    Sockets = {c1, c2}
    None = None
    SlowSubscribe = FALSE
    MaxOpens = 2
    MaxRuns = 2
    MaxEvents = 1
    MaxAnswers = 1
    MaxFaults = 1
INVARIANTS
    RemoteTypeOK
    NothingMissing
    AttachedIsKnown
    DisposalReachesSockets
PROPERTIES JoinAnswered
CHECK_DEADLOCK FALSE
