CONSTANTS
    r1 = r1
    r2 = r2
    w1 = w1
    c1 = c1
    Reaper = Reaper
    Requests = {r1, r2}
    Callers = {c1}
    Workers = {w1}
    WithProcessor = {r1}
    CrossLifecycle = TRUE
    MaxEvents = 0
    MaxCalls = 1
SPECIFICATION Spec
CHECK_DEADLOCK FALSE
INVARIANTS CallbackOutlivesDelivery NoSelfJoin
PROPERTIES ImplementsOwnership
