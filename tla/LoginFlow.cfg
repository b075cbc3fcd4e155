\* The login flow: refusals, revoked sessions, lost connections, exceptions.
SPECIFICATION AppSpec
CONSTANTS
    c1 = c1
    c2 = c2
    s1 = s1
    s2 = s2
    s3 = s3
    Clients = {c1, c2}
    NoClient = NoClient
    Services = {s1, s2, s3}
    NoService = NoService
SYMMETRY ObjectSymmetry
INVARIANTS
    NoClientLeak
    PendingHasClient
    RuntimeTypeOK
    OneListener
    FlagIsHonest
    CleanShutdown
PROPERTIES
    ImplementsLogin
