CONSTANTS
    g1 = g1
    g2 = g2
    g3 = g3
    w1 = w1
    w2 = w2
    Registrations = {g1, g2, g3}
    Workers = {w1, w2}
    None = None
    MaxId = 3
    MaxCalls = 1
SPECIFICATION FairSpec
INVARIANTS OwnProcessorOnly StateOutlivesCall ActiveIsExact
PROPERTIES StaleCallsDoNothing FirstFailureWins StateReleased
