CONSTANTS
    Users <- MCOneUser
    Names = {n1}
    NumQuestions = 2
    TimeLimit <- MCTimeLimit
    BasePoints <- MCBasePoints
    LobbyMs = 1
    RevealMs = 1
    GraceMs = 1
    EndEarly = TRUE
    None = None
    MaxLateMs = 1
    IdleMs = 2
    MaxClockBack = 1
    MinNum = 1
    MinDen = 1
    BonusNum = 0
    BonusDen = 1
    MaxStreakLevel = 0
    Conns = {c1}
    LeaderboardIntervalMs = 2
    EarlyMs = 1
SPECIFICATION FairActorSpec
INVARIANT TimerMatchesDeadline
PROPERTY QuizRunsToEnd
CHECK_DEADLOCK FALSE
