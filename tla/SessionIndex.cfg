SPECIFICATION Spec
CONSTANTS
    Procs = {p1, p2}
    Addrs = {a1, a2}
    None = None
    NoSession = NoSession
    Ops = {"join", "data", "deactivate"}
    RJMod = 3
    MaxNonce = 2
    MaxKeys = 2
    MaxBusy = 2
    FailAt = {}
SYMMETRY Symmetry
CHECK_DEADLOCK FALSE
INVARIANTS
    IndexCovers
