SPECIFICATION Spec
CONSTANTS
    Rules = {xBad, xAccept, xDrop}
    Devices = {m1}
    Policies = {pDefault, pGuests}
    Domains = {d1}
    Modes = {"strict", "permissive", "open"}
    Default = pDefault
    NoPolicy = NoPolicy
    Requests = {r1, r2}
    r1 = r1
    r2 = r2
    Startup = main
    Refresher = refresher
    Free = Free
    NoDomain = NoDomain
    pTesla = pTesla
    pGuests = pGuests
    Seeded <- OneRule
    xDrop = xDrop
    xAccept = xAccept
    xBad = xBad
    Before <- ByPriority
    Forward = {xAccept, xDrop}
    Outbound = {xBad}
    NamedRules = {xBad}
    Accepting = {xAccept}
    BadRules = {xBad}
    MaxChanges = 2
    MaxFaults = 1
    MaxCrashes = 1
SYMMETRY Symmetry
INVARIANTS SettledIsLive SettledIsPopulated SettledIsEnforced QuietIsApplied
PROPERTIES NeverOlder ImplementsEnforcement
