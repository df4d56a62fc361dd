CONSTANTS
    r1 = r1
    r2 = r2
    w1 = w1
    c1 = c1
    Reaper = Reaper
    Requests = {r1}
    Callers = {c1}
    Workers = {w1}
    WithProcessor = {r1}
    CrossLifecycle = FALSE
    MaxEvents = 1
    MaxCalls = 2
SPECIFICATION FairSpec
INVARIANTS DropNeverAborts OutcomeSound EndIsClassified TeardownOffCallbacks
PROPERTIES WaitStable DropCompletes WaitReturns EngineFreed
