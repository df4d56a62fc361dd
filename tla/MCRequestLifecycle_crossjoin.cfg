CONSTANTS
    r1 = r1
    r2 = r2
    w1 = w1
    c1 = c1
    Reaper = Reaper
    Requests = {r1, r2}
    Callers = {c1}
    Workers = {}
    WithProcessor = {}
    CrossLifecycle = TRUE
    MaxEvents = 0
    MaxCalls = 1
SPECIFICATION FairSpec
CHECK_DEADLOCK FALSE
PROPERTIES AllDroppedAreJoined
