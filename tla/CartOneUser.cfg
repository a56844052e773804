SPECIFICATION Spec
CONSTANTS
    Null = Null
    Org = Org
    r1 = r1  r2 = r2  r3 = r3  r4 = r4
    u1 = u1  u2 = u2
    Caller <- MCCaller
    Requests = {r1, r2, r3}
    Tickets = {t1, t2}
    Kinds = {"update", "card", "external", "free"}
    FreeOrders = {r3}
    Short = {r3}
    Faults = {"crash", "capture", "tokens", "refund"}
    MaxQuantity = 2
    CartTTL = 1
    PayTTL = 1
    MaxTime = 2
SYMMETRY Symmetry
INVARIANTS
    ChargedOnce
    MoneyAndOrderAgree
    OneCartInUse
