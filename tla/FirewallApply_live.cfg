SPECIFICATION FairSpec
CONSTANTS
    Rules = {}
    Devices = {m1}
    Policies = {pDefault, pTesla}
    Domains = {d1}
    Modes = {"strict", "permissive"}
    Default = pDefault
    NoPolicy = NoPolicy
    Requests = {r1, r2}
    r1 = r1
    r2 = r2
    Startup = main
    Refresher = refresher
    Free = Free
    NoDomain = NoDomain
    pTesla = pTesla
    pGuests = pGuests
    Seeded <- FreshInstall
    xDrop = xDrop
    xAccept = xAccept
    xBad = xBad
    Before <- ByPriority
    Forward <- Rules
    Outbound = {}
    NamedRules = {}
    Accepting = {}
    BadRules = {}
    MaxChanges = 2
    MaxFaults = 0
    MaxCrashes = 1
INVARIANTS TypeOK IntegrityInv SettledIsLive SettledIsEnforced QuietIsApplied
PROPERTIES EveryRequestEnds Converges
