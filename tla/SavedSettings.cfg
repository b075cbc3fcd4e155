\* Two deployments; a failed write, a kill or a failing script at any step,
\* besides the ends that the script brings about.
SPECIFICATION Spec
CONSTANTS
    Values <- KeyValues
    Default <- Defaults
    Environments <- Deployments
    Chats = {"s1"}
    MaxFaults = 1
INVARIANTS
    TypeOK
    FileIsWhole
    AnsweredIsKept
    EnvironmentWins
    CompletedSetupIsWhole
    EnabledJellyfinIsUsable
    
