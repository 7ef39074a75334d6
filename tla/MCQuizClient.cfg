CONSTANTS
    None = None
    Account = u
    NumQuestions = 2
    MayRestart = TRUE
    MayShutDown = TRUE
    MaxUpsets = 2
    MaxChoices = 1
SPECIFICATION FairClientSpec
INVARIANTS ClientTypeOK ViewIsTheSession AnswerFollowsJoin
PROPERTIES IdentityKept NeverStuck
CHECK_DEADLOCK FALSE
