SPECIFICATION FairSpec
CONSTANTS
    m1 = m1
    m2 = m2
    Devices = {m1, m2}
    Macs = {m1, m2}
    Upper <- AsWritten
    Addrs = {a1, a2}
    NoAddr = NoAddr
    Settings <- TwoRates
    DefaultClass = 999
    Requests = {r1, r2}
    Startup = Startup
    Free = Free
    MaxChanges = 2
    MaxLeases = 2
    MaxFaults = 1
INVARIANTS TypeOK SettledIsShaped UnlimitedWithoutLimits
PROPERTIES AddressesConverge ApplyReturns
CHECK_DEADLOCK FALSE
