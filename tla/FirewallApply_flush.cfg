SPECIFICATION Spec
CONSTANTS
    Rules = {}
    Devices = {}
    Policies = {pDefault}
    Domains = {d1}
    Modes = {"strict"}
    Default = pDefault
    NoPolicy = NoPolicy
    Requests = {r1}
    r1 = r1
    r2 = r2
    Startup = main
    Refresher = refresher
    Free = Free
    NoDomain = NoDomain
    pTesla = pTesla
    pGuests = pGuests
    Seeded <- DefaultOnly
    xDrop = xDrop
    xAccept = xAccept
    xBad = xBad
    Before <- ByPriority
    Forward <- Rules
    Outbound = {}
    NamedRules = {}
    Accepting = {}
    BadRules = {}
    MaxChanges = 3
    MaxFaults = 0
    MaxCrashes = 0
INVARIANTS DeletedIsFlushed
