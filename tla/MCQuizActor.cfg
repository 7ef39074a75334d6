CONSTANTS
    Users <- MCUsers
    Names = {n1}
    NumQuestions = 1
    TimeLimit <- MCTimeLimit
    BasePoints <- MCBasePoints
    LobbyMs = 1
    RevealMs = 1
    GraceMs = 0
    EndEarly = TRUE
    None = None
    MaxLateMs = 1
    IdleMs = 2
    MaxClockBack = 0
    MinNum = 1
    MinDen = 1
    BonusNum = 0
    BonusDen = 1
    MaxStreakLevel = 0
    Conns = {c1, c2}
    LeaderboardIntervalMs = 2
    EarlyMs = 0
SPECIFICATION ActorSpec
INVARIANTS
    ActorTypeOK ConnMapsAgree IdleTimerIffNobody CachedBoardFresh
    ToldWhatIs OwnScoreTold StaleBoardHasFlushPending CoalescedFlushSpaced
    ArchivedOnceFinal
SYMMETRY ConnSymmetry
CHECK_DEADLOCK FALSE
VIEW Relative
