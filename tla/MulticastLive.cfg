SPECIFICATION FairSpec
CONSTANTS
    g1 = g1
    d1 = d1
    d2 = d2
    w1 = w1
    w2 = w2
    p1 = p1
    p2 = p2
    c1 = c1
    c2 = c2
    s1 = s1
    s2 = s2
    None = None
    Groups = {g1}
    Devices = {d1, d2}
    Gateways = {w1, w2}
    Payloads = {p2}
    Large = {p2}
    FPorts = {0, 1}
    Clients = {c1}
    Schedulers = {s1, s2}
    Settings <- MCSettings
    Receptions <- MCReceptions
    PingRand <- MCPingRand
    FCntSize = 4
    FCntMax = 2
    Delay = 1
    Lead = 1
    Margin = 1
    BeaconPeriod = 6
    BeaconReserved = 1
    PingPeriodBase = 4
    BatchSize = 3
    MaxNow = 0
    MaxId = 3
    MaxFaults = 1
    MaxChanges = 0
CHECK_DEADLOCK FALSE
PROPERTY RowsServed
