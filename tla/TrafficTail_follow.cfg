SPECIFICATION FairSpec
CONSTANTS
    Foreign = {2}
    MaxEntries = 3
    MaxEnds = 2
    MaxFaults = 2
    MaxCrashes = 2
CHECK_DEADLOCK FALSE
INVARIANTS TypeOK PagesShowEverything NothingSkipped RepeatsAreCounted
PROPERTIES EventuallyLogged
