SPECIFICATION Spec
CONSTANTS
    p1 = p1
    p2 = p2
    u1 = u1
    u2 = u2
    s1 = s1
    s2 = s2
    a1 = a1
    a2 = a2
    f1 = f1
    None = None
    Payloads = {p1}
    Confirmed = {p1}
    Large = {}
    Uplinks = {u1}
    Schedulers = {s1}
    AckHandlers = {a1}
    Flushers = {}
    ClassC = TRUE
    Lorawan11 = FALSE
    MaxId = 2
    MaxToken = 2
    MaxDuplicates = 0
    MaxCrashes = 0
INVARIANTS TypeOK OutcomeOnce AckFollowsTransmission NoSilentLoss
