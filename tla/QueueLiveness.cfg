\* Every waiting job settles, through crashes, shutdowns and failed attempts.
SPECIFICATION FairSpec
CONSTANTS
    w1 = w1
    w2 = w2
    r1 = r1
    r2 = r2
    MaxJobs = 2
    Messages = {1, 2}
    Uid <- TwoFiles
    NoUid = NoUid
    Workers = {w1, w2}
    Requests = {r1}
    NoJob = NoJob
    MaxRetries = 1
    MaxRetryCount = 2
    MaxRestarts = 1
    LowDisk = TRUE
    RefreshMayRaise = FALSE
    StorageFaults = FALSE
    Stoppable = TRUE
    Crashes = TRUE
    UserRetries = FALSE
    UserClears = TRUE
    Relogins = TRUE
PROPERTIES
    EveryJobSettles
    CancelResolves
