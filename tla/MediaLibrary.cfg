\* Two files of one name, moved or copied; the media of the first may change.
SPECIFICATION Spec
CONSTANTS
    Jobs = {1, 2}
    Names = {"film"}
    Name <- SameName
    Size <- SecondShorter
    Edited = {1}
    MaxSuffix = 6
    MaxRetries = 1
    MaxRestarts = 1
    MaxRetryCount = 0
    Sized = {1}
    NoFile = NoFile
CHECK_DEADLOCK FALSE
INVARIANTS
    TypeOK
    CompletedHasMedia
    LibraryHoldsWholeFiles
    CopiesAreAccounted
    PartMatchesPosition
PROPERTIES
    LibraryOnlyGrows
