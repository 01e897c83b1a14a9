SPECIFICATION Spec
CONSTANTS
    Names = {child, parent}
    Blockable = {child, parent}
    Allowable = {child, parent}
    Subdomains <- Family
    Requests = {r1, r2}
    r1 = r1
    r2 = r2
    child = child
    parent = parent
    Startup = main
    Refresher = refresher
    Free = Free
    NoName = NoName
    MaxChanges = 2
    MaxFaults = 0

INVARIANTS NeverReachable
