\* Two addresses, two sessions, a limit of two failures in two ticks.
SPECIFICATION Spec
CONSTANTS
    t1 = t1
    t2 = t2
    a1 = a1
    a2 = a2
    n1 = n1
    n2 = n2
    Names = {n1, n2}
    Nobody = Nobody
    Tokens = {t1, t2}
    NoToken = NoToken
    Addresses = {a1, a2}
    Limit = 2
    Window = 2
    Lifetime = 3
    MaxClock = 4
    MaxAttempts = 4
SYMMETRY AuthSymmetry
INVARIANTS
    TypeOK
    AttemptsAreLimited
    LockedForACause
PROPERTIES
    EndedStaysEnded
