SPECIFICATION Spec
CONSTANTS
    Null = Null
    Actions = {a1, a2}
    Monitors = {m1}
    Draining = {}
    Conns = {c1, c2, c3}
    Limit = 1
    MaxAttempts = 2
    BusyFor = 3
    Timeout = 1
    Life = 6
    MaxDelay = 1
    RoundTime = 1
    Faults = {"pool", "crash"}
    MaxTime = 8
SYMMETRY Symmetry
CHECK_DEADLOCK FALSE
INVARIANTS
    OneExecutorPerAction
PROPERTIES
    EndedIsFinal
