\* Three coroutines, four calls and close(); threads may fail to connect.
SPECIFICATION FairSpec
CONSTANTS
    Callers = {c1, c2, c3}
    Threads = {t1, t2, t3}
    MaxCalls = 4
    NoThread = NoThread
    Stop = Stop
CHECK_DEADLOCK FALSE
INVARIANTS
    EffectsInCallOrder
    NobodyPollsInVain
    ClosedIsDrained
PROPERTIES
    ImplementsDatabase
    EveryCallAnswered
    CloseReturns
