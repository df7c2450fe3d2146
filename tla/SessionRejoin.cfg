SPECIFICATION Spec
CONSTANTS
    Procs = {p1}
    Addrs = {a1, a2}
    None = None
    NoSession = NoSession
    Ops = {"join", "rejoin", "data", "activate", "deactivate", "update"}
    RJMod = 3
    MaxNonce = 2
    MaxKeys = 3
    MaxBusy = 1
    FailAt = {"getDevice", "validateNonce", "joinServer", "getSession", "smembers", "get",
              "srem", "updateDevice", "sadd", "saddPending", "set", "send"}
SYMMETRY Symmetry
CHECK_DEADLOCK FALSE
INVARIANTS
    TypeOK
    DeviceHeard
