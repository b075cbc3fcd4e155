\* A cancel that is noticed between two attempts.
SPECIFICATION Spec
CONSTANTS
    Jobs = {1}
    Names = {"film"}
    Name <- OneFilm
    Size <- OneVersion
    MaxSuffix = 1
    MaxRetries = 1
    MaxRestarts = 0
    MaxRetryCount = 0
    Edited = {}
    Sized = {1}
    NoFile = NoFile
CHECK_DEADLOCK FALSE
INVARIANTS
    CancelRemovesPart
