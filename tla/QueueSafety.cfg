\* One document forwarded twice and a photo, every fault and every user action but retry.
SPECIFICATION Spec
CONSTANTS
    w1 = w1
    w2 = w2
    r1 = r1
    r2 = r2
    MaxJobs = 3
    Messages = {1, 2, 3}
    Uid <- ForwardedTwice
    NoUid = NoUid
    Workers = {w1, w2}
    Requests = {r1}
    NoJob = NoJob
    MaxRetries = 1
    MaxRetryCount = 2
    MaxRestarts = 1
    LowDisk = TRUE
    RefreshMayRaise = TRUE
    StorageFaults = FALSE
    Stoppable = TRUE
    Crashes = TRUE
    UserRetries = FALSE
    UserClears = TRUE
    Relogins = TRUE
SYMMETRY WorkerSymmetry
INVARIANTS
    TypeOK
    AtMostOneActive
    DownloadingIsHeld
    NoStrandedJob
    OneRowPerFile
PROPERTIES
    CompletedIsFinal
