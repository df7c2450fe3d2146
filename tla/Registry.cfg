SPECIFICATION Spec
CONSTANTS
    s1 = s1
    d1 = d1
    r1 = r1
    p1 = p1
    g1 = g1
    c1 = c1
    c2 = c2
    h1 = h1
    None = None
    ServiceProfiles = {s1}
    DeviceProfiles = {d1}
    RoutingProfiles = {r1}
    GatewayProfiles = {p1}
    Gateways = {g1}
    Concentratord = {g1}
    Values = {0, 1}
    Initial = 0
    Requests <- MCRequests
    Locations <- MCLocations
    Clients = {c1, c2}
    Handlers = {h1}
    TTL = 2
    Hold = 1
    MaxCopies = 1
    MaxChanges = 2
    MaxFaults = 1
SYMMETRY ClientSymmetry
INVARIANTS TypeOK CopiesFresh StalenessBounded VersionIdentifiesConfig
