SPECIFICATION ArchiveSpec
CONSTANTS
    Processes = {p1}
    Codes = {demo}
    Quizzes <- MCQuizzes
    Accounts <- MCAccounts
    Guests <- MCGuests
    Seeders = {p1}
    None = None
    MaxRuns = 2
    MaxFailures = 0
    MaxExits = 1
PROPERTY FinishedSessionsAdd
CHECK_DEADLOCK FALSE
