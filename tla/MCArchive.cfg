SPECIFICATION ArchiveSpec
CONSTANTS
    Processes = {p1, p2}
    Codes = {demo}
    Quizzes <- MCQuizzes
    Accounts <- MCAccounts
    Guests <- MCGuests
    Seeders = {p1}
    None = None
    MaxRuns = 2
    MaxFailures = 1
    MaxExits = 2
INVARIANTS ArchiveTypeOK ArchivedRunsWhole ArchiveCurrent
CHECK_DEADLOCK FALSE
