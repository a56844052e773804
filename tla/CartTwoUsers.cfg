SPECIFICATION FairSpec
CONSTANTS
    Null = Null
    Org = Org
    r1 = r1  r2 = r2  r3 = r3  r4 = r4
    u1 = u1  u2 = u2
    Caller <- MCCaller
    Requests = {r1, r2, r4}
    Tickets = {t1}
    Kinds = {"update", "card", "free"}
    FreeOrders = {r4}
    Short = {r1}
    Faults = {"tokens", "refund"}
    MaxQuantity = 1
    CartTTL = 1
    PayTTL = 1
    MaxTime = 2
INVARIANTS
    CartsAreWhole
PROPERTIES
    PurchasesLast
    RequestsEnd
