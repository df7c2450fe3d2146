SPECIFICATION Spec
CONSTANTS
    Procs = {p1, p2, p3}
    Addrs = {a1, a2}
    None = None
    NoSession = NoSession
    Ops = {"join", "update"}
    RJMod = 3
    MaxNonce = 2
    MaxKeys = 3
    MaxBusy = 3
    FailAt = {"getDevice", "validateNonce", "joinServer", "getSession", "smembers", "get",
              "srem", "updateDevice", "sadd", "saddPending", "set", "send"}
SYMMETRY Symmetry
CHECK_DEADLOCK FALSE
INVARIANTS
    NonceOnce
    OneJoinAtATime
    
