SPECIFICATION Spec
CONSTANTS
    p1 = p1
    p2 = p2
    u1 = u1
    u2 = u2
    s1 = s1
    s2 = s2
    a1 = a1
    a2 = a2
    f1 = f1
    None = None
    Payloads = {p1}
    Confirmed = {p1}
    Large = {p1}
    Uplinks = {}
    Schedulers = {s1, s2}
    AckHandlers = {a1}
    Flushers = {f1}
    ClassC = TRUE
    Lorawan11 = TRUE
    MaxId = 3
    MaxToken = 2
    MaxDuplicates = 1
    MaxCrashes = 1
INVARIANTS OutcomeOnce NoSilentLoss
PROPERTY PendingSticky
CHECK_DEADLOCK FALSE
