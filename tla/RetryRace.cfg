\* A retry in the moment the worker leaves the job.
SPECIFICATION Spec
CONSTANTS
    w1 = w1
    w2 = w2
    r1 = r1
    r2 = r2
    MaxJobs = 1
    Messages = {1}
    Uid <- TwoFiles
    NoUid = NoUid
    Workers = {w1, w2}
    Requests = {r1}
    NoJob = NoJob
    MaxRetries = 0
    MaxRetryCount = 2
    MaxRestarts = 0
    LowDisk = FALSE
    RefreshMayRaise = FALSE
    StorageFaults = FALSE
    Stoppable = FALSE
    Crashes = FALSE
    UserRetries = TRUE
    UserClears = FALSE
    Relogins = TRUE
INVARIANTS
    NoStrandedJob
