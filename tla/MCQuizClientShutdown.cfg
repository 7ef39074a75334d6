CONSTANTS
    None = None
    Account = u
    NumQuestions = 1
    MayRestart = FALSE
    MayShutDown = TRUE
    MaxUpsets = 1
    MaxChoices = 1
SPECIFICATION FairClientSpec
PROPERTIES ClosedTabReturns
CHECK_DEADLOCK FALSE
