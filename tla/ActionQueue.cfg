SPECIFICATION Spec
CONSTANTS
    Null = Null
    Actions = {a1}
    Monitors = {m1, m2}
    Draining = {m2}
    Conns = {c1, c2, c3}
    Limit = 0
    MaxAttempts = 3
    BusyFor = 2
    Timeout = 1
    Life = 5
    MaxDelay = 1
    RoundTime = 2
    Faults = {"pool", "crash"}
    MaxTime = 6
SYMMETRY Symmetry
CHECK_DEADLOCK FALSE
INVARIANTS
    GivenUpAfterMaxFailures
    EffectsAreFinal
