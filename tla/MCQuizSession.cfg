CONSTANTS
    Users <- MCUsers
    Names = {n1}
    NumQuestions = 2
    TimeLimit <- MCTimeLimit
    BasePoints <- MCBasePoints
    LobbyMs = 1
    RevealMs = 1
    GraceMs = 1
    EndEarly = TRUE
    None = None
    MaxLateMs = 1
    IdleMs = 1
    MaxClockBack = 1
    MinNum = 1
    MinDen = 2
    BonusNum = 1
    BonusDen = 10
    MaxStreakLevel = 5
SPECIFICATION FairSpec
INVARIANTS TypeOK ScoreSeqUnique StreakIsRun ScoreIsSum OpenQuestionAwaitsSomeone
PROPERTIES ClosesEarlyOnlyWhenAllAnswered OvertakeOnlyByPoints QuizFinishes ImplementsGame
