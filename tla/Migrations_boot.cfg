SPECIFICATION FairSpec
CONSTANTS
    Default = Default
    Tesla = Tesla
    Open = Open
    Created = {Guests}
    Connman = connman
    Preset = preset
    Wanted = {}
    Macs = {m1, m2}
    EncodedMacs = {m2}
    Nobody = Nobody
    MaxChanges = 2
    MaxFaults = 1
    MaxStops = 2
CHECK_DEADLOCK FALSE
INVARIANTS TypeOK ServesComplete
PROPERTIES NeverReplayed PoliciesSurvive EventuallyServes
