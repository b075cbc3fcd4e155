\* Retries race the worker, the scan and the history.
SPECIFICATION Spec
CONSTANTS
    w1 = w1
    w2 = w2
    r1 = r1
    r2 = r2
    MaxJobs = 2
    Messages = {1, 2}
    Uid <- TwoFiles
    NoUid = NoUid
    Workers = {w1, w2}
    Requests = {r1}
    NoJob = NoJob
    MaxRetries = 0
    MaxRetryCount = 0
    MaxRestarts = 1
    LowDisk = TRUE
    RefreshMayRaise = FALSE
    StorageFaults = TRUE
    Stoppable = FALSE
    Crashes = TRUE
    UserRetries = TRUE
    UserClears = TRUE
    Relogins = TRUE
SYMMETRY WorkerSymmetry
PROPERTIES
    ScanCoversAll
    ImplementsLifecycle
