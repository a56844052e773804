SPECIFICATION SessionsSpec
CONSTANTS
    None = None
    Calls = {r1, r2, r3, r4}
    Links = {k1, k2}
    LinkLife = 2
    AccessLife = 1
    MaxTime = 4
SYMMETRY Symmetry
CHECK_DEADLOCK FALSE
INVARIANTS
    SessionsFollowThePassword
    LastLinkWorksOnce
