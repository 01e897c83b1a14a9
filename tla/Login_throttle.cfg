SPECIFICATION FairSpec
CONSTANTS
    Requests = {r1, r2, r3}
    Clients = {c1}
    Tokens = {t1, t2, t3}
    NoClient = NoClient
    MaxFailures = 2
    Window = 1
    Lockout = 2
    MaxChanges = 1
INVARIANTS TypeOK FailuresBounded NoStaleLogin
PROPERTIES LockoutHolds LockoutEnds
