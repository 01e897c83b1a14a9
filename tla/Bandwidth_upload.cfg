SPECIFICATION Spec
CONSTANTS
    m1 = m1
    m2 = m2
    Devices = {m1, m2}
    Macs = {m1, m2}
    Upper <- AsWritten
    Addrs = {a1, a2}
    NoAddr = NoAddr
    Settings <- UpAndDown
    DefaultClass = 999
    Requests = {r1, r2}
    Startup = Startup
    Free = Free
    MaxChanges = 2
    MaxLeases = 1
    MaxFaults = 0
INVARIANTS UploadIsShaped
CHECK_DEADLOCK FALSE
