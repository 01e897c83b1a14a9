SPECIFICATION FairSpec
CONSTANTS
    Names = {child, parent}
    Blockable = {parent}
    Allowable = {child}
    Subdomains <- Family
    Requests = {r1, r2}
    r1 = r1
    r2 = r2
    child = child
    parent = parent
    Startup = main
    Refresher = refresher
    Free = Free
    NoName = NoName
    MaxChanges = 2
    MaxFaults = 1
INVARIANTS TypeOK SettledIsSunk QuietIsApplied
PROPERTIES NeverOlder OnlyOutrun ImplementsEnforcement SinkConverges
