SPECIFICATION Spec
CONSTANTS
    Null = Null
    Org = Org
    t1 = t1  t2 = t2  t3 = t3
    i1 = i1  i2 = i2
    u1 = u1  u2 = u2
    h1 = h1  h2 = h2
    Buyer <- MCBuyer
    Parent <- MCParent
    EventFee = FALSE
    CartTTL = 1
    PayTTL = 1
    KeyTTL = 1
    Tickets = {t1, t2}
    Items = {i1, i2}
    Users = {u1, u2}
    Holds = {}
    Scanners = {}
    Keys = {k1, k2}
    MaxTime = 3
SYMMETRY Symmetry
CHECK_DEADLOCK FALSE
INVARIANTS
    PurchasedIsPaidFor
PROPERTIES
    SoldStaysSold
    TransferIsWhole
    OwnersConsent
