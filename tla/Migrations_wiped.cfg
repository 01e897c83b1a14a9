SPECIFICATION Spec
CONSTANTS
    Default = Default
    Tesla = Tesla
    Open = Open
    Created = {Guests}
    Connman = connman
    Preset = preset
    Wanted = {}
    Macs = {m1, m2}
    EncodedMacs = {m2}
    Nobody = Nobody
    MaxChanges = 0
    MaxFaults = 0
    MaxStops = 2
CHECK_DEADLOCK FALSE
PROPERTIES RowsSurvive
